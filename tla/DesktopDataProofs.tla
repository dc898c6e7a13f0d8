------------------------- MODULE DesktopDataProofs -------------------------
(***************************************************************************)
(* What the desktop shows of its database, for every set of ids, providers,  *)
(* keys, models and responses, and for any number of gestures and visits.    *)
(***************************************************************************)
EXTENDS DesktopData, SequenceTheorems, Counting

-----------------------------------------------------------------------------
(* Types.                                                                   *)

\* What the input of a mutation may be.
Values == Nat \cup Secrets \cup Models \cup [auto : BOOLEAN, named : 0..1] \cup {None}

\* The calls there may be.
Calls ==
  [op : {"create", "rename", "delete", "saveKey", "setModel", "team", "schedule"},
   of : Ids \cup Known \cup {None}, value : Values,
   phase : {"done", "failed", "refreshing", "refreshed", "over"},
   awaits : Keys \cup {NoData}, made : Ids \cup {None}, here : BOOLEAN]

\* The tables with rows in R.
TablesOf(R) == UNION {[S -> R] : S \in SUBSET Ids}

\* What the answer to a query may be.
Answers(k) ==
  CASE k.query = "workspaces" -> TablesOf(Nat)
    [] k.query = "providers" -> SUBSET Known
    [] k.query = "teams" -> TablesOf(TeamRows)
    [] k.query = "schedules" -> SUBSET Ids
    [] k.query = "team" -> TeamRows \cup {None}
    [] k.query = "savedModel" -> Models \cup {None}
    [] k.query = "models" -> {ListModelsAt(k.of, r) : r \in Responses} \ {None}

\* The database is tables.
TablesTyped ==
  /\ DatabaseTypeOK
  /\ workspaces \in TablesOf(Nat)
  /\ teams \in TablesOf(TeamRows)

\* A key a page may subscribe to: the teams opened were issued.
Askable(k) == k \in Keys /\ (k.query = "team" => k.of \in used)

\* What may be in flight.
Fetches(f) ==
  /\ \A k \in DOMAIN f :
       /\ Askable(k)
       /\ f[k] = [rows |-> f[k].rows, outrun |-> f[k].outrun]
       /\ f[k].outrun \in BOOLEAN
       /\ k.query # "models" => f[k].rows \in Answers(k)
  /\ Workspaces \in DOMAIN f => DOMAIN f[Workspaces].rows \subseteq used

\* The cache holds answers to queries, and ids only that were issued.
CacheTyped ==
  /\ DOMAIN data \subseteq Keys
  /\ \A k \in DOMAIN data : data[k] \in Answers(k)
  /\ Workspaces \in DOMAIN data => DOMAIN data[Workspaces] \subseteq used
  /\ Fetches(fetch)
  /\ joined \subseteq Keys
  /\ \A k \in mounted : Askable(k)

\* The calls made, and what they made.
CallsTyped ==
  /\ calls \in Seq(Calls)
  /\ \A n \in DOMAIN calls :
       /\ calls[n].made \in used \cup {None}
       /\ calls[n].op \in {"create", "team", "schedule"} /\ calls[n].phase # "over" =>
            calls[n].made # None
       /\ calls[n].op \in {"team", "schedule"} /\ calls[n].phase # "over" => calls[n].of \in Ids

\* The page, its select and the active workspace.
PageTyped ==
  /\ page \in Pages \cup {"chat", "team"}
  /\ {opened, active, wanted} \subseteq used \cup {None}
  /\ page = "team" => opened # None
  /\ DOMAIN select = Byok
  /\ \A p \in Byok :
       select[p] = [key |-> select[p].key, value |-> select[p].value, lost |-> select[p].lost]
  /\ raced \subseteq Byok

\* All of it.
Typed == TablesTyped /\ CacheTyped /\ CallsTyped /\ PageTyped

-----------------------------------------------------------------------------
(* The lists on screen.                                                     *)

\* A mutation is under way only where the list of workspaces was asked for.
Asking == \A n \in DOMAIN calls : calls[n].phase # "over" => Workspaces \in mounted

\* The queries a mutation invalidates.
ListKeys == {k \in Keys : k.query \notin {"models", "savedModel"}}

\* An invalidation of k is due.
Due(k) == \E n \in DOMAIN calls : calls[n].phase = "done" /\ Invalidates(calls[n]) = k

\* A fetch in flight brings what the database holds, unless an invalidation met
\* it or will; and so does the answer on screen once no fetch is in flight.
Current ==
  \A k \in ListKeys :
    /\ InFlight(k) => fetch[k].rows = Read(k) \/ fetch[k].outrun \/ Due(k)
    /\ k \in mounted /\ ~InFlight(k) => Data(k) = Read(k) \/ k \in joined \/ Due(k)

-----------------------------------------------------------------------------
(* The active workspace.                                                    *)

\* The list in flight shows the workspace i, unless an invalidation met it.
Coming(i) ==
  i \in DOMAIN workspaces /\ InFlight(Workspaces) =>
    i \in DOMAIN fetch[Workspaces].rows \/ fetch[Workspaces].outrun

\* The list on screen shows it, unless an invalidation met that one.
Shown(i) ==
  i \in DOMAIN workspaces /\ Data(Workspaces) # NoData =>
    i \in Listed \/ Workspaces \in joined

\* No list in flight forgets a workspace that exists.
Remembered ==
  InFlight(Workspaces) =>
    Listed \cap DOMAIN workspaces \subseteq DOMAIN fetch[Workspaces].rows

\* A workspace created is coming once it is awaited, and shown once its call is
\* to return.
Announced(n) ==
  calls[n].op = "create" =>
    /\ calls[n].phase = "refreshing" => calls[n].awaits = Workspaces
    /\ calls[n].phase \in {"refreshing", "refreshed"} => Coming(calls[n].made)
    /\ calls[n].phase = "refreshed" => Shown(calls[n].made)

\* The workspace wanted is active and shown.
Chosen ==
  /\ wanted \in DOMAIN workspaces => active = wanted
  /\ Shown(wanted) /\ Coming(wanted)
  /\ Remembered
  /\ \A n \in DOMAIN calls : Announced(n)

-----------------------------------------------------------------------------
(* The model select.                                                        *)

\* The page has the answer to its query for the saved choice.
HasSaved(p) == SavedModel(p) \in mounted /\ ~InFlight(SavedModel(p))

\* A select stands on two answers; while the saved choice it was made for is not
\* the one saved, it was kept, and shows what the user picked since.
SelectsAt(p) ==
  /\ HasSaved(p) => Data(SavedModel(p)) # NoData
  /\ select[p] # NoSelect =>
       /\ SavedModel(p) \in mounted
       /\ Data(ModelsOf(p)) # NoData
       /\ select[p].key = saved[p] /\ ~select[p].lost => select[p].value = saved[p]
  /\ HasSaved(p) /\ p \notin raced /\ Data(SavedModel(p)) # saved[p] =>
       /\ select[p] # NoSelect
       /\ select[p].value = saved[p] \/ select[p].lost
       /\ select[p].key = DefaultModel(p)

\* Every select is such a one.
Selects == \A p \in Byok : SelectsAt(p)

-----------------------------------------------------------------------------
(* Tables, keys and answers.                                                *)

\* A table has ids for its domain and rows under them ...
LEMMA TableHas ==
  ASSUME NEW R, NEW f \in TablesOf(R)
  PROVE  /\ DOMAIN f \subseteq Ids
         /\ \A i \in DOMAIN f : f[i] \in R
         /\ f = [i \in DOMAIN f |-> f[i]]
<1> PICK S \in SUBSET Ids : f \in [S -> R]
  BY DEF TablesOf
<1> QED OBVIOUS

\* ... and what has them is a table.
LEMMA TableIs ==
  ASSUME NEW R, NEW S \in SUBSET Ids, NEW f, f = [i \in S |-> f[i]], \A i \in S : f[i] \in R
  PROVE  f \in TablesOf(R)
<1>1. f \in [S -> R]
  OBVIOUS
<1> QED BY <1>1 DEF TablesOf

\* A row more.
LEMMA WithTable ==
  ASSUME NEW R, NEW f \in TablesOf(R), NEW id \in Ids, NEW row \in R
  PROVE  With(f, id, row) \in TablesOf(R)
<1> DEFINE S == DOMAIN f \cup {id}
           g == With(f, id, row)
<1>1. S \in SUBSET Ids /\ \A i \in DOMAIN f : f[i] \in R
  BY TableHas
<1>2. g = [i \in S |-> IF i = id THEN row ELSE f[i]]
  BY DEF With
<1>3. g = [i \in S |-> g[i]] /\ \A i \in S : g[i] = IF i = id THEN row ELSE f[i]
  BY <1>2
<1>4. \A i \in S : g[i] \in R
  BY <1>1, <1>3
<1> HIDE DEF g, S
<1> QED BY <1>1, <1>3, <1>4, TableIs DEF g

\* Some of the rows.
LEMMA RestrictTable ==
  ASSUME NEW R, NEW f \in TablesOf(R), NEW S \in SUBSET DOMAIN f
  PROVE  /\ Restrict(f, S) \in TablesOf(R)
         /\ DOMAIN Restrict(f, S) = S
         /\ \A i \in S : Restrict(f, S)[i] = f[i]
<1> DEFINE g == Restrict(f, S)
<1>1. S \in SUBSET Ids /\ \A i \in S : f[i] \in R
  BY TableHas
<1>2. DOMAIN g = S /\ g = [i \in S |-> g[i]] /\ \A i \in S : g[i] = f[i]
  BY DEF Restrict
<1> HIDE DEF g
<1>3. g \in TablesOf(R)
  BY <1>1, <1>2, TableIs
<1> QED BY <1>2, <1>3 DEF g

\* No answer is the sign of none.
LEMMA AnswersSigned ==
  ASSUME NEW k \in Keys, NEW rows \in Answers(k)
  PROVE  rows # NoData /\ (k.query # "models" => rows # Failed)
<1>1. k.query \in {"workspaces", "providers", "teams", "schedules", "team", "savedModel", "models"}
  BY DEF Keys, Key, Workspaces, Configured
<1>2. k.query = "models" => k.of \in Byok
  BY DEF Keys, Key, Workspaces, Configured
<1>3. CASE k.query = "workspaces"
  BY <1>3, SignsApart DEF Answers, TablesOf
<1>4. CASE k.query = "providers"
  BY <1>4, SignsApart DEF Answers
<1>5. CASE k.query = "teams"
  BY <1>5, SignsApart DEF Answers, TablesOf
<1>6. CASE k.query = "schedules"
  BY <1>6, SignsApart DEF Answers
<1>7. CASE k.query = "team"
  BY <1>7, SignsApart DEF Answers
<1>8. CASE k.query = "savedModel"
  BY <1>8, SignsApart DEF Answers
<1>9. CASE k.query = "models"
  BY <1>2, <1>9, SignsApart DEF Answers
<1> QED BY <1>1, <1>3, <1>4, <1>5, <1>6, <1>7, <1>8, <1>9

\* What a command reads answers its query.
LEMMA ReadAnswers ==
  ASSUME TablesTyped, NEW k \in Keys, k.query # "models"
  PROVE  Read(k) \in Answers(k)
<1>1. /\ DOMAIN schedules \subseteq Ids
      /\ keys \in [Known -> Secrets \cup {None}]
      /\ saved \in [Byok -> Models \cup {None}]
  BY DEF TablesTyped, DatabaseTypeOK
<1>2. k.query \in {"workspaces", "providers", "teams", "schedules", "team", "savedModel"}
  BY DEF Keys, Key, Workspaces, Configured
<1>3. CASE k.query = "workspaces"
  BY <1>3 DEF Read, Answers, ListWorkspaces, TablesTyped
<1>4. CASE k.query = "providers"
  <2>1. OfferableProviders \subseteq Known
    BY DEF OfferableProviders, ListProviders, Known
  <2> QED BY <1>4, <2>1 DEF Read, Answers
<1>5. CASE k.query = "teams"
  <2>1. ListTeams(k.of) \in TablesOf(TeamRows)
    BY RestrictTable DEF ListTeams, TablesTyped
  <2> QED BY <1>5, <2>1 DEF Read, Answers
<1>6. CASE k.query = "schedules"
  <2>1. ListSchedules(k.of) \subseteq Ids
    BY <1>1 DEF ListSchedules
  <2> QED BY <1>6, <2>1 DEF Read, Answers
<1>7. CASE k.query = "team"
  <2>1. teams \in TablesOf(TeamRows)
    BY DEF TablesTyped
  <2>2. GetTeam(k.of) \in TeamRows \cup {None}
    BY <2>1, TableHas DEF GetTeam
  <2> QED BY <1>7, <2>2 DEF Read, Answers
<1>8. CASE k.query = "savedModel"
  <2>1. k.of \in Byok
    BY <1>8 DEF Keys, Key, Workspaces, Configured
  <2>2. GetModel(k.of) \in Models \cup {None}
    BY <1>1, <2>1 DEF GetModel
  <2> QED BY <1>8, <2>2 DEF Read, Answers
<1> QED BY <1>2, <1>3, <1>4, <1>5, <1>6, <1>7, <1>8

\* The keys, told apart.
LEMMA KeyKinds ==
  /\ Workspaces \in Keys /\ Configured \in Keys /\ NoData \notin Keys
  /\ Workspaces.query = "workspaces" /\ Configured.query = "providers"
  /\ \A q, of : Key(q, of).query = q /\ Key(q, of).of = of
  /\ \A k \in Keys :
       /\ k = Key(k.query, k.of)
       /\ k.query = "workspaces" => k = Workspaces
       /\ k.query = "providers" => k = Configured
       /\ k.query \in {"teams", "schedules", "team"} => k.of \in Ids
       /\ k.query \in {"savedModel", "models"} => k.of \in Byok
       /\ k.query \in {"workspaces", "providers", "teams", "schedules", "team", "savedModel", "models"}
  /\ \A i \in Ids : \A q \in {"teams", "schedules", "team"} : Key(q, i) \in Keys
  /\ \A p \in Byok : /\ SavedModel(p) \in Keys /\ ModelsOf(p) \in Keys
                     /\ SavedModel(p) # ModelsOf(p)
                     /\ SavedModel(p).query = "savedModel" /\ SavedModel(p).of = p
                     /\ ModelsOf(p).query = "models" /\ ModelsOf(p).of = p
<1> USE DEF Key, Workspaces, Configured, SavedModel, ModelsOf
<1>1. Workspaces \in Keys /\ Configured \in Keys /\ NoData \notin Keys
  BY SignsApart DEF Keys
<1>2. ASSUME NEW k \in Keys
      PROVE  /\ k = Key(k.query, k.of)
             /\ k.query = "workspaces" => k = Workspaces
             /\ k.query = "providers" => k = Configured
             /\ k.query \in {"teams", "schedules", "team"} => k.of \in Ids
             /\ k.query \in {"savedModel", "models"} => k.of \in Byok
             /\ k.query \in {"workspaces", "providers", "teams", "schedules", "team", "savedModel", "models"}
  BY DEF Keys
<1>3. \A i \in Ids : \A q \in {"teams", "schedules", "team"} : Key(q, i) \in Keys
  BY DEF Keys
<1>4. \A p \in Byok : \A q \in {"savedModel", "models"} : Key(q, p) \in Keys
  BY DEF Keys
<1>5. \A q, of : Key(q, of).query = q /\ Key(q, of).of = of
  OBVIOUS
<1>6. \A p \in Byok : /\ SavedModel(p).query = "savedModel" /\ SavedModel(p).of = p
                      /\ ModelsOf(p).query = "models" /\ ModelsOf(p).of = p
  OBVIOUS
<1>7. \A p \in Byok : SavedModel(p) # ModelsOf(p)
  BY <1>6
<1>8. Workspaces.query = "workspaces" /\ Configured.query = "providers"
  OBVIOUS
<1>9. \A p \in Byok : SavedModel(p) \in Keys /\ ModelsOf(p) \in Keys
  BY <1>4
<1> QED BY <1>1, <1>2, <1>3, <1>5, <1>6, <1>7, <1>8, <1>9

-----------------------------------------------------------------------------
(* What a mutation does to the database, and to what the queries read.      *)

\* A mutation is called: what it changes is read by the query it invalidates.
Mutated(call) ==
  /\ Rendered
  /\ TablesTyped'
  /\ used \subseteq used'
  /\ DOMAIN workspaces' \cap used \subseteq DOMAIN workspaces
  /\ call \in Calls
  /\ call.phase \in {"done", "failed"}
  /\ call.made \in used' \cup {None}
  /\ call.op \in {"create", "team", "schedule"} => call.made # None
  /\ call.op \in {"team", "schedule"} => call.of \in Ids
  /\ \A k \in ListKeys :
       Askable(k) => Read(k)' = Read(k) \/ (call.phase = "done" /\ Invalidates(call) = k)
  /\ calls' = Append(calls, call)
  /\ UNCHANGED <<cacheVars, page, opened, active, wanted, raced>>

\* new_id issues an id that was not issued before.
LEMMA Issued ==
  ASSUME TablesTyped, IssueId
  PROVE  /\ NewId \in Ids /\ NewId \notin used
         /\ used' = used \cup {NewId} /\ used' \subseteq Ids /\ used' # used
<1>1. used \subseteq Ids
  BY DEF TablesTyped, DatabaseTypeOK
<1>2. \E id \in Ids : id \notin used
  BY <1>1 DEF IssueId
<1>3. NewId \in Ids /\ NewId \notin used
  BY <1>2 DEF NewId
<1> QED BY <1>1, <1>3 DEF IssueId

\* What the queries read, before a step and after it.
LEMMA Reads ==
  ASSUME NEW k \in ListKeys
  PROVE  /\ k \in Keys
         /\ k.query \in {"workspaces", "providers", "teams", "schedules", "team"}
         /\ k.query = "workspaces" => k = Workspaces /\ Read(k) = workspaces
         /\ k.query = "workspaces" => Read(k)' = workspaces'
         /\ k.query # "workspaces" /\ UNCHANGED <<teams, schedules, keys>> => Read(k)' = Read(k)
<1>1. k \in Keys /\ k.query \notin {"models", "savedModel"}
  BY DEF ListKeys
<1>2. k.query \in {"workspaces", "providers", "teams", "schedules", "team"}
  BY <1>1, KeyKinds
<1>3. k.query = "workspaces" => k = Workspaces
  BY <1>1, KeyKinds
<1>4. k.query = "workspaces" => Read(k) = workspaces /\ Read(k)' = workspaces'
  BY DEF Read, ListWorkspaces
<1>5. ASSUME k.query # "workspaces", UNCHANGED <<teams, schedules, keys>>
      PROVE  Read(k)' = Read(k)
  BY <1>1, <1>2, <1>5 DEF Read, OfferableProviders, ListProviders, GetKey,
     ListTeams, ListSchedules, GetTeam
<1> QED BY <1>1, <1>2, <1>3, <1>4, <1>5

\* WorkspaceBar's button.
LEMMA AddWorkspaceDoes ==
  ASSUME Typed, AddWorkspace
  PROVE  (\E call : Mutated(call)) /\ UNCHANGED <<saved, select>>
<1> DEFINE call == [Call("create", None, NewWorkspace) EXCEPT !.phase = "done", !.made = NewId]
<1>1. TablesTyped /\ workspaces \in TablesOf(Nat)
  BY DEF Typed, TablesTyped
<1>2. /\ IssueId
      /\ workspaces' = With(workspaces, NewId, NewWorkspace)
      /\ UNCHANGED <<teams, schedules, keys, saved, cacheVars, page, opened, active, wanted, raced, select>>
      /\ Rendered
  BY DEF AddWorkspace, Mutate, Perform, Call, CreateWorkspace, Gesture
<1>3. /\ NewId \in Ids /\ NewId \notin used
      /\ used' = used \cup {NewId} /\ used' \subseteq Ids /\ used' # used
  BY <1>1, <1>2, Issued
<1>4. calls' = Append(calls, call)
  BY <1>3 DEF AddWorkspace, Mutate, Fails, Call
<1>5. /\ call \in Calls
      /\ call.op = "create" /\ call.phase = "done" /\ call.made = NewId
  BY <1>3 DEF Call, Calls, Values, NewWorkspace
<1> HIDE DEF call
<1>6. /\ workspaces' \in TablesOf(Nat)
      /\ DOMAIN workspaces' = DOMAIN workspaces \cup {NewId}
      /\ \A i \in DOMAIN workspaces' : workspaces'[i] \in Nat
  <2>1. NewWorkspace \in Nat
    BY DEF NewWorkspace
  <2>2. workspaces' \in TablesOf(Nat)
    BY <1>1, <1>2, <1>3, <2>1, WithTable
  <2>3. DOMAIN workspaces' = DOMAIN workspaces \cup {NewId}
    BY <1>2 DEF With
  <2> QED BY <2>2, <2>3, TableHas
<1>7. TablesTyped'
  BY <1>1, <1>2, <1>3, <1>6 DEF TablesTyped, DatabaseTypeOK, TeamRows
<1>8. ASSUME NEW k \in ListKeys
      PROVE  Read(k)' = Read(k) \/ Invalidates(call) = k
  <2>1. CASE k.query = "workspaces"
    BY <1>5, <2>1, Reads DEF Invalidates
  <2>2. CASE k.query # "workspaces"
    BY <1>2, <2>2, Reads
  <2> QED BY <2>1, <2>2
<1>9. Mutated(call)
  BY <1>2, <1>3, <1>4, <1>5, <1>6, <1>7, <1>8, SignsApart DEF Mutated
<1> QED BY <1>2, <1>9

\* The name of a workspace, changed; of one deleted meanwhile, refused.
LEMMA RenameDoes ==
  ASSUME Typed, NEW i \in Ids, NEW name \in Renames, Rename(i, name)
  PROVE  (\E call : Mutated(call)) /\ UNCHANGED <<saved, select>>
<1> DEFINE phase == IF RenameFinds(i) THEN "done" ELSE "failed"
           call == [Call("rename", i, name) EXCEPT !.phase = phase, !.made = None]
<1>1. TablesTyped /\ workspaces \in TablesOf(Nat) /\ name \in Nat
  BY DesktopDataConstantsOK DEF Typed, TablesTyped
<1>2. /\ workspaces' = IF RenameFinds(i) THEN With(workspaces, i, name) ELSE workspaces
      /\ UNCHANGED <<teams, schedules, keys, saved, used, cacheVars, page, opened, active, wanted, raced, select>>
      /\ Rendered
  BY DEF Rename, Mutate, Perform, Call, RenameWorkspace, Gesture
<1>3. calls' = Append(calls, call)
  <2>1. Fails(Call("rename", i, name)) = ~RenameFinds(i)
    BY DEF Fails, Call
  <2> QED BY <1>2, <2>1 DEF Rename, Mutate
<1>4. /\ call \in Calls
      /\ call.op = "rename" /\ call.phase = phase /\ call.made = None
  BY <1>1 DEF Call, Calls, Values
<1> HIDE DEF call
<1>5. /\ workspaces' \in TablesOf(Nat)
      /\ DOMAIN workspaces' = DOMAIN workspaces
      /\ \A j \in DOMAIN workspaces' : workspaces'[j] \in Nat
  <2>1. CASE RenameFinds(i)
    <3>1. workspaces' \in TablesOf(Nat)
      BY <1>1, <1>2, <2>1, WithTable
    <3>2. i \in DOMAIN workspaces
      BY <2>1 DEF RenameFinds
    <3>3. DOMAIN workspaces' = DOMAIN workspaces
      BY <1>2, <2>1, <3>2 DEF With
    <3> QED BY <3>1, <3>3, TableHas
  <2>2. CASE ~RenameFinds(i)
    BY <1>1, <1>2, <2>2, TableHas
  <2> QED BY <2>1, <2>2
<1>6. TablesTyped'
  BY <1>1, <1>2, <1>5 DEF TablesTyped, DatabaseTypeOK, TeamRows
<1>7. ASSUME NEW k \in ListKeys
      PROVE  Read(k)' = Read(k) \/ (phase = "done" /\ Invalidates(call) = k)
  <2>1. CASE k.query = "workspaces"
    BY <1>2, <1>4, <2>1, Reads DEF Invalidates
  <2>2. CASE k.query # "workspaces"
    BY <1>2, <2>2, Reads
  <2> QED BY <2>1, <2>2
<1>8. Mutated(call)
  BY <1>2, <1>3, <1>4, <1>5, <1>6, <1>7 DEF Mutated
<1> QED BY <1>2, <1>8

\* A workspace deleted: its row only.
LEMMA DeleteDoes ==
  ASSUME Typed, NEW i \in Ids, Delete(i)
  PROVE  (\E call : Mutated(call)) /\ UNCHANGED <<saved, select>>
<1> DEFINE call == [Call("delete", i, None) EXCEPT !.phase = "done", !.made = None]
<1>1. TablesTyped /\ workspaces \in TablesOf(Nat)
  BY DEF Typed, TablesTyped
<1>2. /\ workspaces' = Restrict(workspaces, DOMAIN workspaces \ {i})
      /\ UNCHANGED <<teams, schedules, keys, saved, used, cacheVars, page, opened, active, wanted, raced, select>>
      /\ Rendered
  BY DEF Delete, Mutate, Perform, Call, DeleteWorkspace, Gesture
<1>3. calls' = Append(calls, call)
  BY <1>2 DEF Delete, Mutate, Fails, Call
<1>4. /\ call \in Calls
      /\ call.op = "delete" /\ call.phase = "done" /\ call.made = None
  BY DEF Call, Calls, Values
<1> HIDE DEF call
<1>5. /\ workspaces' \in TablesOf(Nat)
      /\ DOMAIN workspaces' = DOMAIN workspaces \ {i}
      /\ \A j \in DOMAIN workspaces' : workspaces'[j] \in Nat
  BY <1>1, <1>2, RestrictTable, TableHas
<1>6. TablesTyped'
  BY <1>1, <1>2, <1>5 DEF TablesTyped, DatabaseTypeOK, TeamRows
<1>7. ASSUME NEW k \in ListKeys
      PROVE  Read(k)' = Read(k) \/ Invalidates(call) = k
  <2>1. CASE k.query = "workspaces"
    BY <1>4, <2>1, Reads DEF Invalidates
  <2>2. CASE k.query # "workspaces"
    BY <1>2, <2>2, Reads
  <2> QED BY <2>1, <2>2
<1>8. Mutated(call)
  BY <1>2, <1>3, <1>4, <1>5, <1>6, <1>7 DEF Mutated
<1> QED BY <1>2, <1>8

\* A key saved.
LEMMA EnterKeyDoes ==
  ASSUME Typed, NEW p \in Known, NEW key \in Secrets, EnterKey(p, key)
  PROVE  (\E call : Mutated(call)) /\ UNCHANGED <<saved, select>>
<1> DEFINE call == [Call("saveKey", p, key) EXCEPT !.phase = "done", !.made = None]
<1>1. TablesTyped
  BY DEF Typed
<1>2. /\ keys' = [keys EXCEPT ![p] = key]
      /\ UNCHANGED <<workspaces, teams, schedules, saved, used, cacheVars, page, opened, active, wanted, raced, select>>
      /\ Rendered
  BY DEF EnterKey, Mutate, Perform, Call, SaveKey, Gesture
<1>3. calls' = Append(calls, call)
  BY <1>2 DEF EnterKey, Mutate, Fails, Call
<1>4. /\ call \in Calls
      /\ call.op = "saveKey" /\ call.of = p /\ call.phase = "done" /\ call.made = None
  BY DEF Call, Calls, Values
<1> HIDE DEF call
<1>5. TablesTyped'
  <2>1. keys' \in [Known -> Secrets \cup {None}]
    BY <1>1, <1>2 DEF TablesTyped, DatabaseTypeOK
  <2> QED BY <1>1, <1>2, <2>1 DEF TablesTyped, DatabaseTypeOK, TeamRows
<1>6. ASSUME NEW k \in ListKeys
      PROVE  Read(k)' = Read(k) \/ Invalidates(call) = k
  <2>1. CASE k.query = "providers"
    BY <1>4, <2>1, KeyKinds DEF Invalidates, ListKeys
  <2>2. CASE k.query # "providers"
    <3>1. k.query \in {"workspaces", "teams", "schedules", "team"}
      BY <2>2, Reads
    <3> QED BY <1>2, <3>1 DEF Read, ListWorkspaces, ListTeams, ListSchedules, GetTeam
  <2> QED BY <2>1, <2>2
<1>7. Mutated(call)
  BY <1>2, <1>3, <1>4, <1>5, <1>6 DEF Mutated
<1> QED BY <1>2, <1>7

\* A model picked.
LEMMA PickModelDoes ==
  ASSUME Typed, NEW p \in Byok, NEW model \in Models, PickModel(p, model)
  PROVE  /\ \E call : Mutated(call)
         /\ select[p] # NoSelect
         /\ saved' = [saved EXCEPT ![p] = model]
         /\ select' = [select EXCEPT ![p].value = model, ![p].lost = FALSE]
<1> DEFINE call == [Call("setModel", p, model) EXCEPT !.phase = "done", !.made = None]
<1>1. TablesTyped
  BY DEF Typed
<1>2. /\ saved' = [saved EXCEPT ![p] = model]
      /\ UNCHANGED <<workspaces, teams, schedules, keys, used, cacheVars, page, opened, active, wanted, raced>>
      /\ Rendered
      /\ select[p] # NoSelect
      /\ select' = [select EXCEPT ![p].value = model, ![p].lost = FALSE]
  BY DEF PickModel, Mutate, Perform, Call, SetModel, Gesture
<1>3. calls' = Append(calls, call)
  BY <1>2 DEF PickModel, Mutate, Fails, Call
<1>4. /\ call \in Calls
      /\ call.op = "setModel" /\ call.of = p /\ call.phase = "done" /\ call.made = None
  BY DEF Call, Calls, Values, Known
<1> HIDE DEF call
<1>5. TablesTyped'
  <2>1. saved' \in [Byok -> Models \cup {None}]
    BY <1>1, <1>2 DEF TablesTyped, DatabaseTypeOK
  <2> QED BY <1>1, <1>2, <2>1 DEF TablesTyped, DatabaseTypeOK, TeamRows
<1>6. \A k \in ListKeys : Read(k)' = Read(k)
  BY <1>2, Reads
<1>7. Mutated(call)
  BY <1>2, <1>3, <1>4, <1>5, <1>6 DEF Mutated
<1> QED BY <1>2, <1>7

\* A team created in the active workspace.
LEMMA AddTeamDoes ==
  ASSUME Typed, NEW auto \in BOOLEAN, NEW named \in 0..1, AddTeam(auto, named)
  PROVE  (\E call : Mutated(call)) /\ UNCHANGED <<saved, select>>
<1> DEFINE value == [auto |-> auto, named |-> named]
           call == [Call("team", active, value) EXCEPT !.phase = "done", !.made = NewId]
           row == [workspace |-> active, members |-> Members(auto, named)]
<1>1. TablesTyped /\ teams \in TablesOf(TeamRows) /\ active \in used /\ used \subseteq Ids
  BY DEF Typed, TablesTyped, DatabaseTypeOK, PageTyped, AddTeam
<1>2. /\ IssueId
      /\ teams' = With(teams, NewId, row)
      /\ UNCHANGED <<workspaces, schedules, keys, saved, cacheVars, page, opened, active, wanted, raced, select>>
      /\ Rendered
  BY DEF AddTeam, Mutate, Perform, Call, CreateTeam, Gesture
<1>3. /\ NewId \in Ids /\ NewId \notin used
      /\ used' = used \cup {NewId} /\ used' \subseteq Ids /\ used' # used
  BY <1>1, <1>2, Issued
<1>4. calls' = Append(calls, call)
  BY <1>3 DEF AddTeam, Mutate, Fails, Call
<1>5. /\ call \in Calls
      /\ call.op = "team" /\ call.phase = "done" /\ call.made = NewId /\ call.of = active /\ call.of \in Ids
  BY <1>1, <1>3 DEF Call, Calls, Values
<1>6. Members(auto, named) \in Nat
  BY DEF Members
<1> HIDE DEF call
<1>7. /\ teams' \in TablesOf(TeamRows)
      /\ DOMAIN teams' = DOMAIN teams \cup {NewId}
      /\ \A i \in DOMAIN teams' : teams'[i] = IF i = NewId THEN row ELSE teams[i]
  <2>1. row \in TeamRows
    BY <1>1, <1>6 DEF TeamRows
  <2>2. teams' \in TablesOf(TeamRows)
    BY <1>1, <1>2, <1>3, <2>1, WithTable
  <2> QED BY <1>2, <2>2 DEF With
<1>8. TablesTyped'
  <2>1. \A i \in DOMAIN teams' : teams'[i] \in [workspace : used', members : Nat]
    <3> SUFFICES ASSUME NEW i \in DOMAIN teams' PROVE teams'[i] \in [workspace : used', members : Nat]
      OBVIOUS
    <3>1. CASE i = NewId
      BY <1>1, <1>3, <1>6, <1>7, <3>1
    <3>2. CASE i # NewId
      <4>1. teams[i] \in [workspace : used, members : Nat] /\ teams'[i] = teams[i]
        BY <1>1, <1>7, <3>2 DEF TablesTyped, DatabaseTypeOK
      <4> QED BY <1>3, <4>1
    <3> QED BY <3>1, <3>2
  <2>2. DOMAIN teams' \subseteq used'
    BY <1>1, <1>3, <1>7 DEF TablesTyped, DatabaseTypeOK
  <2> QED BY <1>1, <1>2, <1>3, <1>7, <2>1, <2>2 DEF TablesTyped, DatabaseTypeOK
<1>9. NewId \notin DOMAIN teams
  BY <1>1, <1>3 DEF TablesTyped, DatabaseTypeOK
<1>10. ASSUME NEW k \in ListKeys, Askable(k)
       PROVE  Read(k)' = Read(k) \/ Invalidates(call) = k
  <2>1. CASE k.query = "teams"
    <3>1. CASE k.of = active
      BY <1>5, <2>1, <3>1, KeyKinds DEF ListKeys, Invalidates
    <3>2. CASE k.of # active
      <4>1. {i \in DOMAIN teams' : teams'[i].workspace = k.of} = {i \in DOMAIN teams : teams[i].workspace = k.of}
        BY <1>7, <1>9, <3>2
      <4>2. Read(k)' = [i \in {j \in DOMAIN teams' : teams'[j].workspace = k.of} |-> teams'[i]]
        BY <2>1 DEF Read, ListTeams, Restrict
      <4>3. Read(k) = [i \in {j \in DOMAIN teams : teams[j].workspace = k.of} |-> teams[i]]
        BY <2>1 DEF Read, ListTeams, Restrict
      <4> DEFINE here == {j \in DOMAIN teams : teams[j].workspace = k.of}
      <4>4. \A i \in here : teams'[i] = teams[i]
        BY <1>7, <1>9
      <4>5. Read(k)' = [i \in here |-> teams'[i]] /\ Read(k) = [i \in here |-> teams[i]]
        BY <4>1, <4>2, <4>3
      <4> HIDE DEF here
      <4> QED BY <4>4, <4>5
    <3> QED BY <3>1, <3>2
  <2>2. CASE k.query = "team"
    <3>1. k.of # NewId
      BY <1>3, <1>10, <2>2 DEF Askable
    <3>2. GetTeam(k.of)' = GetTeam(k.of)
      BY <1>7, <3>1 DEF GetTeam
    <3> QED BY <2>2, <3>2 DEF Read
  <2>3. CASE k.query \notin {"teams", "team"}
    <3>1. k.query \in {"workspaces", "providers", "schedules"}
      BY <2>3, Reads
    <3> QED BY <1>2, <3>1 DEF Read, ListWorkspaces, OfferableProviders, ListProviders, GetKey, ListSchedules
  <2> QED BY <2>1, <2>2, <2>3
<1>11. Mutated(call)
  BY <1>2, <1>3, <1>4, <1>5, <1>8, <1>10, SignsApart DEF Mutated
<1> QED BY <1>2, <1>11

\* A schedule created in the active workspace.
LEMMA AddScheduleDoes ==
  ASSUME Typed, AddSchedule
  PROVE  (\E call : Mutated(call)) /\ UNCHANGED <<saved, select>>
<1> DEFINE call == [Call("schedule", active, None) EXCEPT !.phase = "done", !.made = NewId]
<1>1. TablesTyped /\ active \in used /\ used \subseteq Ids
  BY DEF Typed, TablesTyped, DatabaseTypeOK, PageTyped, AddSchedule
<1>2. /\ IssueId
      /\ schedules' = With(schedules, NewId, active)
      /\ UNCHANGED <<workspaces, teams, keys, saved, cacheVars, page, opened, active, wanted, raced, select>>
      /\ Rendered
  BY DEF AddSchedule, Mutate, Perform, Call, CreateSchedule, Gesture
<1>3. /\ NewId \in Ids /\ NewId \notin used
      /\ used' = used \cup {NewId} /\ used' \subseteq Ids /\ used' # used
  BY <1>1, <1>2, Issued
<1>4. calls' = Append(calls, call)
  BY <1>3 DEF AddSchedule, Mutate, Fails, Call
<1>5. /\ call \in Calls
      /\ call.op = "schedule" /\ call.phase = "done" /\ call.made = NewId /\ call.of = active /\ call.of \in Ids
  BY <1>1, <1>3 DEF Call, Calls, Values
<1> HIDE DEF call
<1>6. /\ DOMAIN schedules' = DOMAIN schedules \cup {NewId}
      /\ \A i \in DOMAIN schedules' : schedules'[i] = IF i = NewId THEN active ELSE schedules[i]
  BY <1>2 DEF With
<1>7. TablesTyped'
  <2>1. /\ DOMAIN schedules' \subseteq used'
        /\ \A i \in DOMAIN schedules' : schedules'[i] \in used'
    BY <1>1, <1>3, <1>6 DEF TablesTyped, DatabaseTypeOK
  <2> QED BY <1>1, <1>2, <1>3, <2>1 DEF TablesTyped, DatabaseTypeOK
<1>8. NewId \notin DOMAIN schedules
  BY <1>1, <1>3 DEF TablesTyped, DatabaseTypeOK
<1>9. ASSUME NEW k \in ListKeys
      PROVE  Read(k)' = Read(k) \/ Invalidates(call) = k
  <2>1. CASE k.query = "schedules"
    <3>1. CASE k.of = active
      BY <1>5, <2>1, <3>1, KeyKinds DEF ListKeys, Invalidates
    <3>2. CASE k.of # active
      <4>1. ListSchedules(k.of)' = ListSchedules(k.of)
        BY <1>6, <1>8, <3>2 DEF ListSchedules
      <4> QED BY <2>1, <4>1 DEF Read
    <3> QED BY <3>1, <3>2
  <2>2. CASE k.query # "schedules"
    <3>1. k.query \in {"workspaces", "providers", "teams", "team"}
      BY <2>2, Reads
    <3> QED BY <1>2, <3>1 DEF Read, ListWorkspaces, OfferableProviders, ListProviders, GetKey, ListTeams, GetTeam
  <2> QED BY <2>1, <2>2
<1>10. Mutated(call)
  BY <1>2, <1>3, <1>4, <1>5, <1>7, <1>9, SignsApart DEF Mutated
<1> QED BY <1>2, <1>10

\* A start of the program seeds an empty database.
LEMMA SeedDoes ==
  ASSUME Typed, SeedDefaults
  PROVE  /\ TablesTyped' /\ used \subseteq used'
         /\ DOMAIN workspaces' \cap used \subseteq DOMAIN workspaces
         /\ UNCHANGED saved
<1>1. TablesTyped /\ workspaces \in TablesOf(Nat)
  BY DEF Typed, TablesTyped
<1>2. CASE UNCHANGED dbVars
  <2>1. TablesTyped'
    BY <1>1, <1>2 DEF TablesTyped, DatabaseTypeOK, dbVars
  <2> QED BY <1>2, <2>1 DEF dbVars
<1>3. CASE CreateWorkspace(MyWorkspace)
  <2>1. /\ IssueId
        /\ workspaces' = With(workspaces, NewId, MyWorkspace)
        /\ UNCHANGED <<teams, schedules, keys, saved>>
    BY <1>3 DEF CreateWorkspace
  <2>2. /\ NewId \in Ids /\ NewId \notin used
        /\ used' = used \cup {NewId} /\ used' \subseteq Ids
    BY <1>1, <2>1, Issued
  <2>3. MyWorkspace \in Nat
    BY DEF MyWorkspace
  <2>4. workspaces' \in TablesOf(Nat)
    BY <1>1, <2>1, <2>2, <2>3, WithTable
  <2>5. DOMAIN workspaces' = DOMAIN workspaces \cup {NewId}
    BY <2>1 DEF With
  <2>6. \A i \in DOMAIN workspaces' : workspaces'[i] \in Nat
    BY <2>4, TableHas
  <2>7. TablesTyped'
    BY <1>1, <2>1, <2>2, <2>4, <2>5, <2>6 DEF TablesTyped, DatabaseTypeOK
  <2> QED BY <2>1, <2>2, <2>5, <2>7
<1> QED BY <1>2, <1>3 DEF SeedDefaults

\* The saved models change with the selects, when the user picks one.
Picked ==
  \/ UNCHANGED <<saved, select>>
  \/ \E p \in Byok, model \in Models :
       /\ select[p] # NoSelect
       /\ saved' = [saved EXCEPT ![p] = model]
       /\ select' = [select EXCEPT ![p].value = model, ![p].lost = FALSE]

\* What a step may be.
LEMMA Steps ==
  ASSUME Typed, [DesktopDataNext]_vars
  PROVE  \/ Render
         \/ \E k \in DOMAIN fetch : Arrive(k)
         \/ \E n \in DOMAIN calls : Invalidate(n) \/ Return(n) \/ Refuse(n)
         \/ \E i \in Ids : ChooseWorkspace(i)
         \/ (\E call : Mutated(call)) /\ Picked
         \/ \E route \in Pages : Visit(route)
         \/ Focus
         \/ Restart
         \/ UNCHANGED vars
<1>1. ASSUME NEW i \in Ids, Delete(i) \/ \E name \in Renames : Rename(i, name)
      PROVE  (\E call : Mutated(call)) /\ Picked
  BY <1>1, DeleteDoes, RenameDoes DEF Picked
<1>2. ASSUME AddWorkspace PROVE (\E call : Mutated(call)) /\ Picked
  BY <1>2, AddWorkspaceDoes DEF Picked
<1>3. ASSUME NEW p \in Known, NEW key \in Secrets, EnterKey(p, key)
      PROVE  (\E call : Mutated(call)) /\ Picked
  BY <1>3, EnterKeyDoes DEF Picked
<1>4. ASSUME NEW p \in Byok, NEW model \in Models, PickModel(p, model)
      PROVE  (\E call : Mutated(call)) /\ Picked
  <2>1. /\ \E call : Mutated(call)
        /\ select[p] # NoSelect
        /\ saved' = [saved EXCEPT ![p] = model]
        /\ select' = [select EXCEPT ![p].value = model, ![p].lost = FALSE]
    BY <1>4, PickModelDoes
  <2> QED BY <2>1 DEF Picked
<1>5. ASSUME NEW auto \in BOOLEAN, NEW named \in 0..1, AddTeam(auto, named)
      PROVE  (\E call : Mutated(call)) /\ Picked
  BY <1>5, AddTeamDoes DEF Picked
<1>6. ASSUME AddSchedule PROVE (\E call : Mutated(call)) /\ Picked
  BY <1>6, AddScheduleDoes DEF Picked
<1> QED BY <1>1, <1>2, <1>3, <1>4, <1>5, <1>6 DEF DesktopDataNext, Working, User

-----------------------------------------------------------------------------
(* What the other steps do to the cache and to the calls.                   *)

\* Keys asked for are in flight with what the database holds.
LEMMA AskDoes ==
  ASSUME NEW ks, fetch' = Ask(ks)
  PROVE  /\ DOMAIN fetch' = DOMAIN fetch \cup ks
         /\ \A k \in ks : fetch'[k] = [rows |-> Read(k), outrun |-> FALSE]
         /\ \A k \in DOMAIN fetch \ ks : fetch'[k] = fetch[k]
BY DEF Ask

\* They are typed.
LEMMA AskTyped ==
  ASSUME Typed, NEW ks, \A k \in ks : Askable(k), fetch' = Ask(ks), used' = used
  PROVE  Fetches(fetch)'
<1>1. TablesTyped /\ Fetches(fetch)
  BY DEF Typed, CacheTyped
<1>2. \A k \in ks : k \in Keys /\ (k.query = "team" => k.of \in used)
  BY DEF Askable
<1>3. \A k \in ks : k.query # "models" => Read(k) \in Answers(k)
  BY <1>1, <1>2, ReadAnswers
<1>4. Read(Workspaces) = workspaces /\ DOMAIN workspaces \subseteq used
  BY <1>1, KeyKinds DEF Read, ListWorkspaces, TablesTyped, DatabaseTypeOK
<1>5. ASSUME NEW k \in DOMAIN fetch'
      PROVE  /\ Askable(k)'
             /\ fetch'[k] = [rows |-> fetch'[k].rows, outrun |-> fetch'[k].outrun]
             /\ fetch'[k].outrun \in BOOLEAN
             /\ k.query # "models" => fetch'[k].rows \in Answers(k)
  <2>1. CASE k \in ks
    <3>1. fetch'[k] = [rows |-> Read(k), outrun |-> FALSE]
      BY <2>1, AskDoes
    <3> QED BY <1>2, <1>3, <2>1, <3>1 DEF Askable
  <2>2. CASE k \notin ks
    <3>1. k \in DOMAIN fetch /\ fetch'[k] = fetch[k]
      BY <2>2, AskDoes
    <3> QED BY <1>1, <3>1 DEF Fetches, Askable
  <2> QED BY <2>1, <2>2
<1>6. ASSUME Workspaces \in DOMAIN fetch'
      PROVE  DOMAIN fetch'[Workspaces].rows \subseteq used'
  <2>1. CASE Workspaces \in ks
    <3>1. fetch'[Workspaces] = [rows |-> Read(Workspaces), outrun |-> FALSE]
      BY <2>1, AskDoes
    <3>2. fetch'[Workspaces].rows = workspaces
      BY <1>4, <3>1
    <3> QED BY <1>4, <3>2
  <2>2. CASE Workspaces \notin ks
    <3>1. Workspaces \in DOMAIN fetch /\ fetch'[Workspaces] = fetch[Workspaces]
      BY <1>6, <2>2, AskDoes
    <3> QED BY <1>1, <3>1 DEF Fetches
  <2> QED BY <2>1, <2>2
<1> QED BY <1>5, <1>6 DEF Fetches

\* A page subscribes to keys of ids that were issued.
LEMMA ObservedAskable ==
  ASSUME Typed, NEW k \in Observed
  PROVE  Askable(k)
<1>1. /\ page \in Pages \cup {"chat", "team"}
      /\ {opened, active} \subseteq used \cup {None}
      /\ page = "team" => opened \in used
      /\ used \subseteq Ids
  BY DEF Typed, PageTyped, TablesTyped, DatabaseTypeOK
<1>2. page \in {"chat", "team", "teams", "schedule", "settings"}
  BY <1>1, DesktopDataConstantsOK
<1>3. CASE k = Workspaces \/ k = Configured
  BY <1>3, KeyKinds DEF Askable
<1>4. CASE k \in PageKeys \ {Workspaces, Configured} /\ (k.query \in {"teams", "schedules"} => active # None)
  <2>1. CASE page = "teams"
    <3>1. k = Key("teams", active)
      BY <1>4, <2>1 DEF PageKeys
    <3>2. k.query = "teams"
      BY <3>1, KeyKinds
    <3> QED BY <1>1, <1>4, <3>1, <3>2, KeyKinds DEF Askable
  <2>2. CASE page = "schedule"
    <3>1. k = Key("schedules", active)
      BY <1>4, <2>2 DEF PageKeys
    <3>2. k.query = "schedules"
      BY <3>1, KeyKinds
    <3> QED BY <1>1, <1>4, <3>1, <3>2, KeyKinds DEF Askable
  <2>3. CASE page = "team"
    <3>1. k = Key("team", opened)
      BY <1>4, <2>3 DEF PageKeys
    <3>2. k.query = "team" /\ k.of = opened
      BY <3>1, KeyKinds
    <3> QED BY <1>1, <2>3, <3>1, <3>2, KeyKinds DEF Askable
  <2>4. CASE page = "settings"
    <3>1. PICK p \in ByokConfigured : k \in {ModelsOf(p), SavedModel(p)}
      BY <1>4, <2>4 DEF PageKeys
    <3>2. p \in Byok
      BY <3>1 DEF ByokConfigured
    <3>3. k \in Keys /\ k.query # "team"
      BY <3>1, <3>2, KeyKinds
    <3> QED BY <3>3 DEF Askable
  <2>5. CASE page = "chat"
    BY <1>4, <2>5 DEF PageKeys
  <2> QED BY <1>2, <2>1, <2>2, <2>3, <2>4, <2>5
<1> QED BY <1>3, <1>4 DEF Observed

\* An invalidation asks again, or marks the fetch that goes on.
LEMMA RefetchDoes ==
  ASSUME Typed, NEW k, Refetch(k)
  PROVE  /\ \A j : j # k => /\ j \in DOMAIN fetch' <=> j \in DOMAIN fetch
                            /\ j \in DOMAIN fetch => fetch'[j] = fetch[j]
         /\ DOMAIN fetch \subseteq DOMAIN fetch'
         /\ DOMAIN fetch' \subseteq DOMAIN fetch \cup (mounted \cap {k})
         /\ k \in mounted => k \in DOMAIN fetch'
         /\ k \in DOMAIN fetch' =>
              \/ fetch'[k] = [rows |-> Read(k), outrun |-> FALSE]
              \/ /\ k \in DOMAIN fetch /\ fetch'[k].rows = fetch[k].rows
                 /\ fetch'[k] = [rows |-> fetch[k].rows, outrun |-> (fetch[k].rows # Read(k))]
<1>1. CASE InFlight(k) /\ (k \notin mounted \/ Data(k) = NoData)
  <2>1. /\ k \in DOMAIN fetch
        /\ fetch' = [fetch EXCEPT ![k].outrun = fetch[k].rows # Read(k)]
        /\ fetch[k] = [rows |-> fetch[k].rows, outrun |-> fetch[k].outrun]
    BY <1>1 DEF Refetch, InFlight, Typed, CacheTyped, Fetches
  <2>2. DOMAIN fetch' = DOMAIN fetch
    BY <2>1
  <2>3. \A j \in DOMAIN fetch : j # k => fetch'[j] = fetch[j]
    BY <2>1
  <2>4. fetch'[k] = [fetch[k] EXCEPT !.outrun = fetch[k].rows # Read(k)]
    BY <2>1
  <2>5. fetch'[k] = [rows |-> fetch[k].rows, outrun |-> (fetch[k].rows # Read(k))]
    BY <2>1, <2>4
  <2>6. fetch'[k].rows = fetch[k].rows
    BY <2>5
  <2> QED BY <2>1, <2>2, <2>3, <2>5, <2>6
<1>2. CASE ~(InFlight(k) /\ (k \notin mounted \/ Data(k) = NoData))
  <2>1. fetch' = Ask(mounted \cap {k})
    BY <1>2 DEF Refetch
  <2>2. /\ DOMAIN fetch' = DOMAIN fetch \cup (mounted \cap {k})
        /\ \A j \in mounted \cap {k} : fetch'[j] = [rows |-> Read(j), outrun |-> FALSE]
        /\ \A j \in DOMAIN fetch \ (mounted \cap {k}) : fetch'[j] = fetch[j]
    BY <2>1, AskDoes
  <2>3. k \in DOMAIN fetch' => k \in mounted
    BY <1>2, <2>2 DEF InFlight
  <2> QED BY <2>2, <2>3
<1> QED BY <1>1, <1>2

\* ... of what may be asked.
LEMMA RefetchTyped ==
  ASSUME Typed, NEW k, Refetch(k), used' = used
  PROVE  Fetches(fetch)'
<1>1. CASE InFlight(k) /\ (k \notin mounted \/ Data(k) = NoData)
  <2>1. Fetches(fetch) /\ k \in DOMAIN fetch /\ DOMAIN fetch' = DOMAIN fetch
    BY <1>1, RefetchDoes DEF Typed, CacheTyped, InFlight, Refetch
  <2>2. fetch' = [fetch EXCEPT ![k].outrun = fetch[k].rows # Read(k)]
    BY <1>1 DEF Refetch
  <2>3. \A j \in DOMAIN fetch' :
          /\ fetch'[j].rows = fetch[j].rows
          /\ fetch'[j].outrun \in BOOLEAN
          /\ fetch'[j] = [rows |-> fetch'[j].rows, outrun |-> fetch'[j].outrun]
    <3> SUFFICES ASSUME NEW j \in DOMAIN fetch'
                 PROVE  /\ fetch'[j].rows = fetch[j].rows
                        /\ fetch'[j].outrun \in BOOLEAN
                        /\ fetch'[j] = [rows |-> fetch'[j].rows, outrun |-> fetch'[j].outrun]
      OBVIOUS
    <3>1. /\ fetch[j] = [rows |-> fetch[j].rows, outrun |-> fetch[j].outrun]
          /\ fetch[j].outrun \in BOOLEAN
      BY <2>1 DEF Fetches
    <3>2. CASE j = k
      <4>1. fetch'[j] = [fetch[j] EXCEPT !.outrun = fetch[j].rows # Read(k)]
        BY <2>1, <2>2, <3>2
      <4>2. fetch'[j] = [rows |-> fetch[j].rows, outrun |-> (fetch[j].rows # Read(k))]
        BY <3>1, <4>1
      <4> QED BY <4>2
    <3>3. CASE j # k
      <4>1. fetch'[j] = fetch[j]
        BY <2>1, <2>2, <3>3
      <4> QED BY <3>1, <4>1
    <3> QED BY <3>2, <3>3
  <2> QED BY <2>1, <2>3 DEF Fetches, Askable
<1>2. CASE ~(InFlight(k) /\ (k \notin mounted \/ Data(k) = NoData))
  <2>1. fetch' = Ask(mounted \cap {k})
    BY <1>2 DEF Refetch
  <2>2. \A j \in mounted \cap {k} : Askable(j)
    BY DEF Typed, CacheTyped
  <2> QED BY <2>1, <2>2, AskTyped
<1> QED BY <1>1, <1>2

\* Calls rewritten one by one.
LEMMA CallsMapped ==
  ASSUME Typed, NEW f, f = [n \in DOMAIN calls |-> f[n]], \A n \in DOMAIN calls : f[n] \in Calls
  PROVE  f \in Seq(Calls) /\ DOMAIN f = DOMAIN calls
<1>1. calls \in Seq(Calls)
  BY DEF Typed, CallsTyped
<1>2. DOMAIN calls = 1..Len(calls) /\ Len(calls) \in Nat
  BY <1>1
<1>3. f \in [1..Len(calls) -> Calls]
  BY <1>2
<1> QED BY <1>2, <1>3

\* A call has its fields.
LEMMA CallHas ==
  ASSUME Typed, NEW n \in DOMAIN calls
  PROVE  /\ calls[n] \in Calls
         /\ calls[n].phase \in {"done", "failed", "refreshing", "refreshed", "over"}
<1>1. calls \in Seq(Calls)
  BY DEF Typed, CallsTyped
<1>2. calls[n] \in Calls
  BY <1>1
<1> QED BY <1>2 DEF Calls

\* A call that a step leaves as it is, but for the page it was made on.
KeptCall(n) ==
  /\ calls'[n].op = calls[n].op /\ calls'[n].of = calls[n].of /\ calls'[n].made = calls[n].made
  /\ calls'[n].phase = calls[n].phase /\ calls'[n].awaits = calls[n].awaits

\* An answer ends the wait of the calls that await it.
LEMMA ArriveCalls ==
  ASSUME Typed, NEW k, Arrive(k)
  PROVE  /\ calls' \in Seq(Calls) /\ DOMAIN calls' = DOMAIN calls
         /\ \A n \in DOMAIN calls :
              \/ KeptCall(n) /\ ~(calls[n].phase = "refreshing" /\ calls[n].awaits = k)
              \/ /\ calls[n].phase = "refreshing" /\ calls[n].awaits = k
                 /\ calls'[n].phase = "refreshed"
                 /\ calls'[n].op = calls[n].op /\ calls'[n].of = calls[n].of
                 /\ calls'[n].made = calls[n].made
<1>1. calls' = [n \in DOMAIN calls |->
                 IF calls[n].phase = "refreshing" /\ calls[n].awaits = k
                 THEN [calls[n] EXCEPT !.phase = "refreshed"] ELSE calls[n]]
  BY DEF Arrive
<1>2. ASSUME NEW n \in DOMAIN calls
      PROVE  /\ calls'[n] \in Calls
             /\ \/ KeptCall(n) /\ ~(calls[n].phase = "refreshing" /\ calls[n].awaits = k)
                \/ /\ calls[n].phase = "refreshing" /\ calls[n].awaits = k
                   /\ calls'[n].phase = "refreshed"
                   /\ calls'[n].op = calls[n].op /\ calls'[n].of = calls[n].of
                   /\ calls'[n].made = calls[n].made
  <2>1. calls[n] \in Calls
    BY CallHas
  <2>2. CASE calls[n].phase = "refreshing" /\ calls[n].awaits = k
    <3>1. calls'[n] = [calls[n] EXCEPT !.phase = "refreshed"]
      BY <1>1, <2>2
    <3> QED BY <2>1, <2>2, <3>1 DEF Calls
  <2>3. CASE ~(calls[n].phase = "refreshing" /\ calls[n].awaits = k)
    <3>1. calls'[n] = calls[n]
      BY <1>1, <2>3
    <3> QED BY <2>1, <2>3, <3>1 DEF KeptCall
  <2> QED BY <2>2, <2>3
<1>3. calls' = [n \in DOMAIN calls |-> calls'[n]]
  BY <1>1
<1>4. calls' \in Seq(Calls) /\ DOMAIN calls' = DOMAIN calls
  BY <1>2, <1>3, CallsMapped
<1> QED BY <1>2, <1>4

\* An invalidation is one call's.
LEMMA InvalidateCalls ==
  ASSUME Typed, NEW n \in DOMAIN calls, Invalidate(n)
  PROVE  /\ calls' \in Seq(Calls) /\ DOMAIN calls' = DOMAIN calls
         /\ \A m \in DOMAIN calls \ {n} : calls'[m] = calls[m]
         /\ calls[n].phase = "done"
         /\ calls'[n].op = calls[n].op /\ calls'[n].of = calls[n].of /\ calls'[n].made = calls[n].made
         /\ calls'[n].awaits = Invalidates(calls[n])
         /\ calls'[n].phase = IF Invalidates(calls[n]) \in mounted THEN "refreshing" ELSE "refreshed"
<1> DEFINE k == Invalidates(calls[n])
           phase == IF k \in mounted THEN "refreshing" ELSE "refreshed"
<1>1. /\ calls' = [calls EXCEPT ![n].awaits = k, ![n].phase = phase]
      /\ calls[n].phase = "done"
  BY DEF Invalidate
<1>2. /\ calls[n] \in Calls
      /\ calls[n].op \in {"team", "schedule"} => calls[n].of \in Ids
  BY <1>1, CallHas DEF Typed, CallsTyped
<1>3. k \in Keys \cup {NoData}
  BY <1>2, KeyKinds DEF Invalidates
<1>4. phase \in {"refreshing", "refreshed"}
  OBVIOUS
<1> HIDE DEF k, phase
<1>5. calls'[n] = [calls[n] EXCEPT !.awaits = k, !.phase = phase]
  BY <1>1
<1>6. /\ calls'[n] \in Calls
      /\ calls'[n].op = calls[n].op /\ calls'[n].of = calls[n].of /\ calls'[n].made = calls[n].made
      /\ calls'[n].awaits = k /\ calls'[n].phase = phase
  BY <1>2, <1>3, <1>4, <1>5 DEF Calls
<1>7. /\ calls' = [m \in DOMAIN calls |-> calls'[m]]
      /\ \A m \in DOMAIN calls \ {n} : calls'[m] = calls[m]
  BY <1>1
<1>8. \A m \in DOMAIN calls : calls'[m] \in Calls
  BY <1>6, <1>7, CallHas
<1>9. calls' \in Seq(Calls) /\ DOMAIN calls' = DOMAIN calls
  BY <1>7, <1>8, CallsMapped
<1> QED BY <1>1, <1>6, <1>7, <1>9 DEF k, phase

\* The calls of a page that is left.
LEMMA LeftCalls ==
  ASSUME Typed
  PROVE  /\ DOMAIN Left = DOMAIN calls /\ Left = [n \in DOMAIN calls |-> Left[n]]
         /\ \A n \in DOMAIN calls :
              /\ Left[n] \in Calls
              /\ Left[n].op = calls[n].op /\ Left[n].of = calls[n].of /\ Left[n].made = calls[n].made
              /\ Left[n].phase = calls[n].phase /\ Left[n].awaits = calls[n].awaits
<1>1. DOMAIN Left = DOMAIN calls /\ Left = [n \in DOMAIN calls |-> Left[n]]
  BY DEF Left
<1>2. ASSUME NEW n \in DOMAIN calls
      PROVE  /\ Left[n] \in Calls
             /\ Left[n].op = calls[n].op /\ Left[n].of = calls[n].of /\ Left[n].made = calls[n].made
             /\ Left[n].phase = calls[n].phase /\ Left[n].awaits = calls[n].awaits
  <2>1. Left[n] = [calls[n] EXCEPT !.here = FALSE] /\ calls[n] \in Calls
    BY CallHas DEF Left
  <2> QED BY <2>1 DEF Calls
<1> QED BY <1>1, <1>2

\* A call that is over says only what it was.
LEMMA OverIs ==
  ASSUME NEW call \in Calls
  PROVE  /\ Over(call) \in Calls
         /\ Over(call).op = call.op /\ Over(call).phase = "over" /\ Over(call).made = None
BY DEF Over, Call, Calls, Values

\* One call ends, with its callbacks or without.
LEMMA EndCalls ==
  ASSUME Typed, NEW n \in DOMAIN calls, Return(n) \/ Refuse(n)
  PROVE  /\ calls' \in Seq(Calls) /\ DOMAIN calls' = DOMAIN calls
         /\ \A m \in DOMAIN calls \ {n} : KeptCall(m)
         /\ calls[n].phase \in {"refreshed", "failed"}
         /\ calls'[n].op = calls[n].op /\ calls'[n].phase = "over" /\ calls'[n].made = None
<1>1. PICK base : base \in {Left, calls} /\ calls' = [base EXCEPT ![n] = Over(@)]
  BY DEF Return, Refuse
<1>2. /\ DOMAIN base = DOMAIN calls
      /\ \A m \in DOMAIN calls :
              /\ base[m] \in Calls
              /\ base[m].op = calls[m].op /\ base[m].of = calls[m].of /\ base[m].made = calls[m].made
              /\ base[m].phase = calls[m].phase /\ base[m].awaits = calls[m].awaits
  BY <1>1, LeftCalls, CallHas
<1>3. /\ calls' = [m \in DOMAIN calls |-> calls'[m]]
      /\ \A m \in DOMAIN calls \ {n} : calls'[m] = base[m]
      /\ calls'[n] = Over(base[n])
  BY <1>1, <1>2
<1>4. /\ calls'[n] \in Calls
      /\ calls'[n].op = calls[n].op /\ calls'[n].phase = "over" /\ calls'[n].made = None
  BY <1>2, <1>3, OverIs
<1>5. \A m \in DOMAIN calls : calls'[m] \in Calls
  BY <1>2, <1>3, <1>4
<1>6. calls' \in Seq(Calls) /\ DOMAIN calls' = DOMAIN calls
  BY <1>3, <1>5, CallsMapped
<1>7. \A m \in DOMAIN calls \ {n} : KeptCall(m)
  BY <1>2, <1>3 DEF KeptCall
<1>8. calls[n].phase \in {"refreshed", "failed"}
  BY DEF Return, Refuse
<1> QED BY <1>4, <1>6, <1>7, <1>8

\* A page is left.
LEMMA VisitCalls ==
  ASSUME Typed, NEW route, Visit(route)
  PROVE  /\ calls' \in Seq(Calls) /\ DOMAIN calls' = DOMAIN calls
         /\ \A n \in DOMAIN calls : KeptCall(n)
<1>1. calls' = Left
  BY DEF Visit
<1>2. Left \in Seq(Calls) /\ DOMAIN Left = DOMAIN calls
  BY LeftCalls, CallsMapped
<1>3. \A n \in DOMAIN calls : KeptCall(n)
  BY <1>1, LeftCalls DEF KeptCall
<1> QED BY <1>1, <1>2, <1>3

\* The program ends, and every call with it.
LEMMA RestartCalls ==
  ASSUME Typed, Restart
  PROVE  /\ calls' \in Seq(Calls) /\ DOMAIN calls' = DOMAIN calls
         /\ \A n \in DOMAIN calls : calls'[n].phase = "over" /\ calls'[n].made = None
<1>1. calls' = [n \in DOMAIN calls |-> Over(calls[n])]
  BY DEF Restart
<1>2. /\ calls' = [n \in DOMAIN calls |-> calls'[n]]
      /\ \A n \in DOMAIN calls : calls'[n] = Over(calls[n])
  BY <1>1
<1>3. \A n \in DOMAIN calls :
        calls'[n] \in Calls /\ calls'[n].phase = "over" /\ calls'[n].made = None
  BY <1>2, CallHas, OverIs
<1>4. calls' \in Seq(Calls) /\ DOMAIN calls' = DOMAIN calls
  BY <1>2, <1>3, CallsMapped
<1> QED BY <1>3, <1>4

\* A call more.
LEMMA MutatedCalls ==
  ASSUME Typed, NEW call, Mutated(call)
  PROVE  /\ calls' \in Seq(Calls) /\ DOMAIN calls' = DOMAIN calls \cup {Len(calls) + 1}
         /\ Len(calls) + 1 \notin DOMAIN calls
         /\ \A n \in DOMAIN calls : calls'[n] = calls[n]
         /\ calls'[Len(calls) + 1] = call
<1>1. calls \in Seq(Calls) /\ call \in Calls /\ calls' = Append(calls, call)
  BY DEF Typed, CallsTyped, Mutated
<1> QED BY <1>1

-----------------------------------------------------------------------------
(* Every step keeps the types.                                              *)

\* The database stays tables.
LEMMA TablesStep ==
  ASSUME Typed, [DesktopDataNext]_vars
  PROVE  TablesTyped' /\ used \subseteq used'
<1>1. TablesTyped
  BY DEF Typed
<1>2. CASE UNCHANGED dbVars
  BY <1>1, <1>2 DEF TablesTyped, DatabaseTypeOK, dbVars
<1>3. CASE \E call : Mutated(call)
  BY <1>3 DEF Mutated
<1>4. CASE Restart
  BY <1>4, SeedDoes DEF Restart
<1>5. ASSUME NEW k, Arrive(k) PROVE UNCHANGED dbVars
  BY <1>5 DEF Arrive
<1>6. ASSUME NEW n, Invalidate(n) \/ Return(n) \/ Refuse(n) PROVE UNCHANGED dbVars
  BY <1>6 DEF Invalidate, Return, Refuse
<1>7. ASSUME NEW i, ChooseWorkspace(i) PROVE UNCHANGED dbVars
  BY <1>7 DEF ChooseWorkspace
<1>8. ASSUME NEW route, Visit(route) PROVE UNCHANGED dbVars
  BY <1>8 DEF Visit
<1>9. Render \/ Focus \/ UNCHANGED vars => UNCHANGED dbVars
  BY DEF Render, Focus, vars
<1> QED BY <1>2, <1>3, <1>4, <1>5, <1>6, <1>7, <1>8, <1>9, Steps

\* What is known of the cache holds of it as long as it is left alone.
LEMMA CacheKept ==
  ASSUME Typed, UNCHANGED cacheVars, used \subseteq used'
  PROVE  CacheTyped'
<1>1. CacheTyped
  BY DEF Typed
<1>2. \A k : Askable(k) => Askable(k)'
  BY DEF Askable
<1>3. data' = data /\ fetch' = fetch /\ joined' = joined /\ mounted' = mounted
  BY DEF cacheVars
<1>4. Fetches(fetch)'
  BY <1>1, <1>2, <1>3 DEF CacheTyped, Fetches
<1> QED BY <1>1, <1>2, <1>3, <1>4 DEF CacheTyped

\* The answer that arrives is one to its query.
LEMMA ArriveTyped ==
  ASSUME Typed, NEW k \in DOMAIN fetch, Arrive(k)
  PROVE  CacheTyped'
<1> DEFINE rest == Restrict(fetch, DOMAIN fetch \ {k})
<1>1. CacheTyped /\ Fetches(fetch) /\ used' = used /\ mounted' = mounted
  BY DEF Typed, CacheTyped, Arrive, dbVars
<1>2. Askable(k) /\ k \in Keys
  BY <1>1 DEF Fetches, Askable
<1>3. /\ fetch' = rest
      /\ joined' \subseteq joined \cup {k}
  BY DEF Arrive
<1>4. DOMAIN rest = DOMAIN fetch \ {k} /\ \A j \in DOMAIN rest : rest[j] = fetch[j]
  BY DEF Restrict
<1>5. Fetches(fetch)'
  BY <1>1, <1>3, <1>4 DEF Fetches, Askable
<1>6. PICK rows \in IF k.query = "models" THEN ModelsAnswers(k.of) ELSE {fetch[k].rows} :
        data' = IF rows = Failed THEN data ELSE With(data, k, rows)
  BY DEF Arrive
<1>7. rows # Failed => rows \in Answers(k)
  <2>1. CASE k.query = "models"
    <3>1. k.of \in Byok
      BY <1>2, <2>1, KeyKinds
    <3>2. rows \in ModelsAnswers(k.of)
      BY <1>6, <2>1
    <3> QED BY <2>1, <3>1, <3>2 DEF ModelsAnswers, Answers
  <2>2. CASE k.query # "models"
    <3>1. rows = fetch[k].rows
      BY <1>6, <2>2
    <3> QED BY <1>1, <2>2, <3>1 DEF Fetches
  <2> QED BY <2>1, <2>2
<1>8. k = Workspaces => rows = fetch[Workspaces].rows /\ DOMAIN rows \subseteq used
  <2> HAVE k = Workspaces
  <2>1. k.query # "models"
    BY KeyKinds
  <2>2. rows = fetch[k].rows
    BY <1>6, <2>1
  <2> QED BY <1>1, <2>2 DEF Fetches
<1>9. /\ DOMAIN data' \subseteq Keys
      /\ \A j \in DOMAIN data' : data'[j] \in Answers(j)
      /\ Workspaces \in DOMAIN data' => DOMAIN data'[Workspaces] \subseteq used
  <2>1. CASE rows = Failed
    BY <1>1, <1>6, <2>1 DEF CacheTyped
  <2>2. CASE rows # Failed
    <3>1. /\ DOMAIN data' = DOMAIN data \cup {k}
          /\ \A j \in DOMAIN data' : data'[j] = IF j = k THEN rows ELSE data[j]
      BY <1>6, <2>2 DEF With
    <3> QED BY <1>1, <1>2, <1>7, <1>8, <2>2, <3>1 DEF CacheTyped
  <2> QED BY <2>1, <2>2
<1>10. \A j \in mounted' : Askable(j)'
  BY <1>1 DEF CacheTyped, Askable
<1> HIDE DEF rest
<1>11. joined' \subseteq Keys
  BY <1>1, <1>2, <1>3 DEF CacheTyped
<1> QED BY <1>1, <1>5, <1>9, <1>10, <1>11 DEF CacheTyped

\* The cache stays typed.
LEMMA CacheStep ==
  ASSUME Typed, [DesktopDataNext]_vars
  PROVE  CacheTyped'
<1>1. CacheTyped
  BY DEF Typed
<1>2. CASE UNCHANGED cacheVars
  BY <1>2, CacheKept, TablesStep
<1>3. CASE Render
  <2>1. /\ mounted' = Observed
        /\ fetch' = Ask({k \in Observed \ mounted : ~InFlight(k)})
        /\ used' = used /\ data' = data /\ joined' = joined
    BY <1>3 DEF Render, dbVars
  <2>2. Fetches(fetch)'
    BY <2>1, AskTyped, ObservedAskable
  <2>3. \A k \in mounted' : Askable(k)'
    BY <2>1, ObservedAskable DEF Askable
  <2> QED BY <1>1, <2>1, <2>2, <2>3 DEF CacheTyped
<1>4. ASSUME NEW k \in DOMAIN fetch, Arrive(k) PROVE CacheTyped'
  BY <1>4, ArriveTyped
<1>5. ASSUME NEW n \in DOMAIN calls, Invalidate(n) PROVE CacheTyped'
  <2>1. Refetch(Invalidates(calls[n])) /\ used' = used /\ UNCHANGED <<data, joined, mounted>>
    BY <1>5 DEF Invalidate, dbVars
  <2>2. Fetches(fetch)'
    BY <2>1, RefetchTyped
  <2>3. \A k \in mounted' : Askable(k)'
    BY <1>1, <2>1 DEF CacheTyped, Askable
  <2> QED BY <1>1, <2>1, <2>2, <2>3 DEF CacheTyped
<1>6. CASE Focus
  <2>1. /\ fetch' = Ask({k \in mounted : ~InFlight(k)})
        /\ used' = used /\ UNCHANGED <<data, joined, mounted>>
    BY <1>6 DEF Focus, dbVars
  <2>2. Fetches(fetch)'
    BY <1>1, <2>1, AskTyped DEF CacheTyped
  <2>3. \A k \in mounted' : Askable(k)'
    BY <1>1, <2>1 DEF CacheTyped, Askable
  <2> QED BY <1>1, <2>1, <2>2, <2>3 DEF CacheTyped
<1>7. CASE Restart
  <2>1. data' = <<>> /\ fetch' = <<>> /\ joined' = {} /\ mounted' = {}
    BY <1>7 DEF Restart
  <2>2. DOMAIN data' = {} /\ DOMAIN fetch' = {}
    BY <2>1
  <2> QED BY <2>1, <2>2 DEF CacheTyped, Fetches
<1>8. ASSUME NEW n, Return(n) \/ Refuse(n) PROVE UNCHANGED cacheVars
  BY <1>8 DEF Return, Refuse
<1>9. ASSUME NEW i, ChooseWorkspace(i) PROVE UNCHANGED cacheVars
  BY <1>9 DEF ChooseWorkspace
<1>10. ASSUME NEW route, Visit(route) PROVE UNCHANGED cacheVars
  BY <1>10 DEF Visit
<1>11. ASSUME NEW call, Mutated(call) PROVE UNCHANGED cacheVars
  BY <1>11 DEF Mutated
<1>12. UNCHANGED vars => UNCHANGED cacheVars
  BY DEF vars
<1> QED BY <1>2, <1>3, <1>4, <1>5, <1>6, <1>7, <1>8, <1>9, <1>10, <1>11, <1>12, Steps

\* The calls stay typed.
LEMMA CallsStep ==
  ASSUME Typed, [DesktopDataNext]_vars
  PROVE  CallsTyped'
<1> DEFINE CallOK(call, ids) ==
             /\ call.made \in ids \cup {None}
             /\ call.op \in {"create", "team", "schedule"} /\ call.phase # "over" =>
                  call.made # None
             /\ call.op \in {"team", "schedule"} /\ call.phase # "over" => call.of \in Ids
<1>1. /\ CallsTyped /\ calls \in Seq(Calls)
      /\ \A n \in DOMAIN calls : CallOK(calls[n], used)
      /\ used \subseteq used'
  BY TablesStep DEF Typed, CallsTyped
<1>2. ASSUME calls' \in Seq(Calls), \A n \in DOMAIN calls' : CallOK(calls'[n], used')
      PROVE  CallsTyped'
  BY <1>2 DEF CallsTyped
<1>3. ASSUME NEW n \in DOMAIN calls, KeptCall(n) PROVE CallOK(calls'[n], used')
  BY <1>1, <1>3 DEF KeptCall
<1>4. ASSUME NEW n \in DOMAIN calls, calls'[n] = calls[n] PROVE CallOK(calls'[n], used')
  BY <1>1, <1>4
<1>5. ASSUME NEW n \in DOMAIN calls, calls'[n].phase = "over", calls'[n].made = None
      PROVE  CallOK(calls'[n], used')
  BY <1>5
<1>6. ASSUME NEW n \in DOMAIN calls, calls[n].phase \in {"refreshing", "done"},
             calls'[n].op = calls[n].op, calls'[n].of = calls[n].of, calls'[n].made = calls[n].made
      PROVE  CallOK(calls'[n], used')
  BY <1>1, <1>6
<1>7. ASSUME NEW k, Arrive(k) PROVE CallsTyped'
  <2>1. \A n \in DOMAIN calls' : CallOK(calls'[n], used')
    BY <1>3, <1>6, <1>7, ArriveCalls
  <2> QED BY <1>2, <1>7, <2>1, ArriveCalls
<1>8. ASSUME NEW n \in DOMAIN calls, Invalidate(n) PROVE CallsTyped'
  <2>1. \A m \in DOMAIN calls' : CallOK(calls'[m], used')
    BY <1>4, <1>6, <1>8, InvalidateCalls
  <2> QED BY <1>2, <1>8, <2>1, InvalidateCalls
<1>9. ASSUME NEW n \in DOMAIN calls, Return(n) \/ Refuse(n) PROVE CallsTyped'
  <2>1. \A m \in DOMAIN calls' : CallOK(calls'[m], used')
    BY <1>3, <1>5, <1>9, EndCalls
  <2> QED BY <1>2, <1>9, <2>1, EndCalls
<1>10. ASSUME NEW route, Visit(route) PROVE CallsTyped'
  <2>1. \A m \in DOMAIN calls' : CallOK(calls'[m], used')
    BY <1>3, <1>10, VisitCalls
  <2> QED BY <1>2, <1>10, <2>1, VisitCalls
<1>11. ASSUME Restart PROVE CallsTyped'
  <2>1. \A m \in DOMAIN calls' : CallOK(calls'[m], used')
    BY <1>5, <1>11, RestartCalls
  <2> QED BY <1>2, <1>11, <2>1, RestartCalls
<1>12. ASSUME NEW call, Mutated(call) PROVE CallsTyped'
  <2>1. CallOK(call, used')
    BY <1>12 DEF Mutated
  <2>2. \A m \in DOMAIN calls' : CallOK(calls'[m], used')
    BY <1>4, <1>12, <2>1, MutatedCalls
  <2> QED BY <1>2, <1>12, <2>2, MutatedCalls
<1>13. CASE calls' = calls
  <2>1. \A m \in DOMAIN calls' : CallOK(calls'[m], used')
    BY <1>4, <1>13
  <2> QED BY <1>1, <1>2, <1>13, <2>1
<1>14. ASSUME NEW i, ChooseWorkspace(i) PROVE calls' = calls
  BY <1>14 DEF ChooseWorkspace
<1>15. Render \/ Focus \/ UNCHANGED vars => calls' = calls
  BY DEF Render, Focus, vars
<1> HIDE DEF CallOK
<1> QED BY <1>7, <1>8, <1>9, <1>10, <1>11, <1>12, <1>13, <1>14, <1>15, Steps

\* The page, and what it shows, stay typed.
LEMMA PageStep ==
  ASSUME Typed, [DesktopDataNext]_vars
  PROVE  PageTyped'
<1> DEFINE Boxes == DOMAIN select = Byok /\ \A p \in Byok :
             select[p] = [key |-> select[p].key, value |-> select[p].value, lost |-> select[p].lost]
<1>1. /\ page \in Pages \cup {"chat", "team"}
      /\ {opened, active, wanted} \subseteq used \cup {None}
      /\ page = "team" => opened # None
      /\ Boxes
      /\ raced \subseteq Byok
      /\ used \subseteq used'
  BY TablesStep DEF Typed, PageTyped
<1>2. ASSUME /\ page' \in Pages \cup {"chat", "team"}
             /\ {opened', active', wanted'} \subseteq used \cup {None}
             /\ page' = "team" => opened' # None,
             select' = select, raced' = raced
      PROVE  PageTyped'
  BY <1>1, <1>2 DEF PageTyped
<1>3. CASE Render
  <2>1. /\ select' = [p \in Byok |-> SelectOf(p)]
        /\ active' \in IF EffectDue THEN First(Data(Workspaces)) ELSE {active}
        /\ wanted' \in {wanted, None}
        /\ UNCHANGED <<used, page, opened, raced>>
    BY <1>3 DEF Render, dbVars
  <2>2. active' \in used \cup {None}
    <3>1. CASE EffectDue
      <4>1. Workspaces \in DOMAIN data /\ Data(Workspaces) = data[Workspaces]
        BY <3>1 DEF EffectDue, Data
      <4>2. DOMAIN data[Workspaces] \subseteq used
        BY <4>1 DEF Typed, CacheTyped
      <4> QED BY <2>1, <3>1, <4>1, <4>2 DEF First
    <3>2. CASE ~EffectDue
      BY <1>1, <2>1, <3>2
    <3> QED BY <3>1, <3>2
  <2>3. Boxes'
    <3>1. ASSUME NEW p \in Byok
          PROVE  SelectOf(p) = [key |-> SelectOf(p).key, value |-> SelectOf(p).value, lost |-> SelectOf(p).lost]
      <4>1. SelectOf(p) = NoSelect \/ SelectOf(p) = Made(p)
              \/ SelectOf(p) = [select[p] EXCEPT !.value = Showing(p, @), !.lost = @ \/ select[p].value \notin OptionIds(p)]
        BY DEF SelectOf
      <4>2. CASE SelectOf(p) = NoSelect
        BY <4>2 DEF NoSelect
      <4>3. CASE SelectOf(p) = Made(p)
        BY <4>3 DEF Made
      <4>4. CASE SelectOf(p) = [select[p] EXCEPT !.value = Showing(p, @), !.lost = @ \/ select[p].value \notin OptionIds(p)]
        <5>1. select[p] = [key |-> select[p].key, value |-> select[p].value, lost |-> select[p].lost]
          BY <1>1
        <5> DEFINE v == Showing(p, select[p].value)
                   l == select[p].lost \/ select[p].value \notin OptionIds(p)
        <5>2. SelectOf(p) = [select[p] EXCEPT !.value = v, !.lost = l]
          BY <4>4
        <5> HIDE DEF v, l
        <5>3. SelectOf(p) = [key |-> select[p].key, value |-> v, lost |-> l]
          BY <5>1, <5>2
        <5> QED BY <5>3
      <4> QED BY <4>1, <4>2, <4>3, <4>4
    <3>2. DOMAIN select' = Byok /\ \A p \in Byok : select'[p] = SelectOf(p)
      BY <2>1
    <3> QED BY <3>1, <3>2
  <2> QED BY <1>1, <2>1, <2>2, <2>3 DEF PageTyped
<1>4. ASSUME NEW k \in DOMAIN fetch, Arrive(k) PROVE PageTyped'
  <2>1. UNCHANGED <<page, opened, active, select, wanted>>
    BY <1>4 DEF Arrive, pageVars
  <2>2. raced' \subseteq Byok
    <3>1. k \in Keys
      BY DEF Typed, CacheTyped, Fetches, Askable
    <3>2. PICK rows : raced' = IF Outdated(k, rows) THEN raced \cup {k.of}
                               ELSE IF k.query = "savedModel" THEN raced \ {k.of} ELSE raced
      BY <1>4 DEF Arrive
    <3>3. Outdated(k, rows) => k.of \in Byok
      BY <3>1, KeyKinds DEF Outdated
    <3> QED BY <1>1, <3>2, <3>3
  <2> QED BY <1>1, <2>1, <2>2 DEF PageTyped
<1>5. ASSUME NEW n \in DOMAIN calls, Return(n) PROVE PageTyped'
  <2>1. /\ active' \in {active, calls[n].made} /\ wanted' \in {wanted, calls[n].made}
        /\ \/ page' = page /\ opened' = opened
           \/ page' = "team" /\ opened' = calls[n].made /\ calls[n].op = "team"
        /\ calls[n].phase = "refreshed"
        /\ UNCHANGED <<select, raced>>
    BY <1>5 DEF Return
  <2>2. calls[n].made \in used \cup {None} /\ (calls[n].op = "team" => calls[n].made # None)
    BY <2>1 DEF Typed, CallsTyped
  <2> QED BY <1>1, <1>2, <2>1, <2>2
<1>6. ASSUME NEW i \in Ids, ChooseWorkspace(i) PROVE PageTyped'
  <2>1. active' = i /\ wanted' = i /\ i \in Listed /\ UNCHANGED <<page, opened, select, raced>>
    BY <1>6 DEF ChooseWorkspace
  <2>2. Workspaces \in DOMAIN data /\ i \in DOMAIN data[Workspaces]
    BY <2>1 DEF Listed, Data
  <2>3. i \in used
    BY <2>2 DEF Typed, CacheTyped
  <2> QED BY <1>1, <1>2, <2>1, <2>3
<1>7. ASSUME NEW call, Mutated(call), Picked PROVE PageTyped'
  <2>1. UNCHANGED <<page, opened, active, wanted, raced>>
    BY <1>7 DEF Mutated
  <2>2. Boxes'
    <3>1. CASE select' = select
      BY <1>1, <3>1
    <3>2. ASSUME NEW p \in Byok, NEW model,
                 select' = [select EXCEPT ![p].value = model, ![p].lost = FALSE]
          PROVE  Boxes'
      <4>1. DOMAIN select' = Byok
        BY <1>1, <3>2
      <4>2. \A q \in Byok \ {p} : select'[q] = select[q]
        BY <1>1, <3>2
      <4>3. select'[p] = [select[p] EXCEPT !.value = model, !.lost = FALSE]
        BY <1>1, <3>2
      <4>4. select[p] = [key |-> select[p].key, value |-> select[p].value, lost |-> select[p].lost]
        BY <1>1
      <4>5. select'[p] = [key |-> select[p].key, value |-> model, lost |-> FALSE]
        BY <4>3, <4>4
      <4> QED BY <1>1, <4>1, <4>2, <4>5
    <3> QED BY <1>7, <3>1, <3>2 DEF Picked
  <2> QED BY <1>1, <2>1, <2>2 DEF PageTyped
<1>8. ASSUME NEW route \in Pages, Visit(route) PROVE PageTyped'
  <2>1. page' = route /\ UNCHANGED <<opened, active, select, wanted, raced>>
    BY <1>8 DEF Visit
  <2>2. route # "team"
    BY DesktopDataConstantsOK
  <2> QED BY <1>1, <1>2, <2>1, <2>2
<1>9. CASE Restart
  <2>1. /\ page' = "chat" /\ opened' = None /\ raced' = {} /\ UNCHANGED <<active, wanted>>
        /\ select' = [p \in Byok |-> NoSelect]
    BY <1>9 DEF Restart
  <2>2. Boxes'
    BY <2>1 DEF NoSelect
  <2> QED BY <1>1, <2>1, <2>2 DEF PageTyped
<1>10. CASE UNCHANGED <<pageVars, raced>>
  BY <1>1, <1>2, <1>10 DEF pageVars
<1>11. ASSUME NEW n, Invalidate(n) \/ Refuse(n) PROVE UNCHANGED <<pageVars, raced>>
  BY <1>11 DEF Invalidate, Refuse
<1>12. Focus \/ UNCHANGED vars => UNCHANGED <<pageVars, raced>>
  BY DEF Focus, vars
<1> HIDE DEF Boxes
<1> QED BY <1>3, <1>4, <1>5, <1>6, <1>7, <1>8, <1>9, <1>10, <1>11, <1>12, Steps

\* ... so all is typed after every step ...
LEMMA TypedStep ==
  ASSUME Typed, [DesktopDataNext]_vars
  PROVE  Typed'
BY TablesStep, CacheStep, CallsStep, PageStep DEF Typed

\* ... and at the start.
LEMMA TypedInit ==
  ASSUME DesktopDataInit
  PROVE  Typed
<1>1. PICK i \in Ids : used = {i}
  BY DesktopDataConstantsOK DEF DesktopDataInit
<1>2. workspaces = [j \in used |-> MyWorkspace] /\ MyWorkspace \in Nat
  BY DEF DesktopDataInit, MyWorkspace
<1>3. workspaces \in TablesOf(Nat)
  <2>1. workspaces = [j \in used |-> workspaces[j]] /\ \A j \in used : workspaces[j] \in Nat
    BY <1>2
  <2> QED BY <1>1, <2>1, TableIs
<1>4. teams = <<>> /\ schedules = <<>> /\ DOMAIN teams = {} /\ DOMAIN schedules = {}
  BY DEF DesktopDataInit
<1>5. teams \in TablesOf(TeamRows)
  <2>1. teams = [j \in {} |-> teams[j]]
    BY <1>4
  <2> QED BY <2>1, TableIs
<1>6. TablesTyped
  BY <1>1, <1>2, <1>3, <1>4, <1>5 DEF TablesTyped, DatabaseTypeOK, DesktopDataInit
<1>7. CacheTyped
  <2>1. data = <<>> /\ fetch = <<>> /\ joined = {} /\ mounted = {}
    BY DEF DesktopDataInit
  <2>2. DOMAIN data = {} /\ DOMAIN fetch = {}
    BY <2>1
  <2> QED BY <2>1, <2>2 DEF CacheTyped, Fetches
<1>8. CallsTyped
  <2>1. calls = <<>>
    BY DEF DesktopDataInit
  <2>2. calls \in Seq(Calls) /\ DOMAIN calls = {}
    BY <2>1
  <2> QED BY <2>2 DEF CallsTyped
<1>9. PageTyped
  BY DEF PageTyped, DesktopDataInit, NoSelect
<1> QED BY <1>6, <1>7, <1>8, <1>9 DEF Typed

\* Every variable has its type.
THEOREM DataTypesHold == DesktopDataSpec => []TypeOK
<1>1. Typed => TypeOK
  <2> SUFFICES ASSUME Typed PROVE TypeOK
    OBVIOUS
  <2>1. DatabaseTypeOK /\ used \subseteq Ids
    BY DEF Typed, TablesTyped, DatabaseTypeOK
  <2>2. /\ DOMAIN fetch \subseteq Keys
        /\ \A k \in DOMAIN fetch : fetch[k].outrun \in BOOLEAN
        /\ DOMAIN data \subseteq Keys /\ joined \subseteq Keys /\ mounted \subseteq Keys
    BY DEF Typed, CacheTyped, Fetches, Askable
  <2>3. \A n \in DOMAIN calls :
          calls[n].phase \in {"done", "failed", "refreshing", "refreshed", "over"}
    BY CallHas
  <2> QED BY <2>1, <2>2, <2>3 DEF TypeOK, Typed, PageTyped
<1> QED BY TypedInit, TypedStep, <1>1, PTL DEF DesktopDataSpec

-----------------------------------------------------------------------------
(* The lists on screen are those of the database.                           *)

\* A mutation is called from a screen that has asked for the workspaces.
LEMMA AskingStep ==
  ASSUME Typed, Asking, [DesktopDataNext]_vars
  PROVE  Asking'
<1>1. Workspaces \in Observed
  BY DEF Observed
<1>2. CASE calls' = calls /\ (mounted' = mounted \/ mounted' = Observed)
  BY <1>1, <1>2 DEF Asking
<1>3. ASSUME mounted' = mounted, DOMAIN calls' = DOMAIN calls,
             \A n \in DOMAIN calls : calls'[n].phase # "over" => calls[n].phase # "over"
      PROVE  Asking'
  BY <1>3 DEF Asking
<1>4. ASSUME NEW k, Arrive(k) PROVE Asking'
  <2>1. mounted' = mounted
    BY <1>4 DEF Arrive
  <2> QED BY <1>3, <1>4, <2>1, ArriveCalls DEF KeptCall
<1>5. ASSUME NEW n \in DOMAIN calls, Invalidate(n) PROVE Asking'
  <2>1. mounted' = mounted
    BY <1>5 DEF Invalidate
  <2> QED BY <1>3, <1>5, <2>1, InvalidateCalls
<1>6. ASSUME NEW n \in DOMAIN calls, Return(n) \/ Refuse(n) PROVE Asking'
  <2>1. mounted' = mounted
    BY <1>6 DEF Return, Refuse, cacheVars
  <2> QED BY <1>3, <1>6, <2>1, EndCalls DEF KeptCall
<1>7. ASSUME NEW route, Visit(route) PROVE Asking'
  <2>1. mounted' = mounted
    BY <1>7 DEF Visit, cacheVars
  <2> QED BY <1>3, <1>7, <2>1, VisitCalls DEF KeptCall
<1>8. ASSUME Restart PROVE Asking'
  BY <1>8, RestartCalls DEF Asking
<1>9. ASSUME NEW call, Mutated(call) PROVE Asking'
  <2>1. mounted' = mounted /\ mounted = Observed
    BY <1>9 DEF Mutated, Rendered, cacheVars
  <2> QED BY <1>1, <2>1 DEF Asking
<1>10. ASSUME NEW i, ChooseWorkspace(i) PROVE calls' = calls /\ mounted' = mounted
  BY <1>10 DEF ChooseWorkspace, cacheVars
<1>11. Render \/ Focus \/ UNCHANGED vars => calls' = calls /\ (mounted' = mounted \/ mounted' = Observed)
  BY DEF Render, Focus, vars, cacheVars
<1> QED BY <1>2, <1>4, <1>5, <1>6, <1>7, <1>8, <1>9, <1>10, <1>11, Steps

\* What is read of the database changes only with a mutation.
LEMMA ReadKept ==
  ASSUME UNCHANGED dbVars
  PROVE  \A k : Read(k)' = Read(k)
BY DEF dbVars, Read, ListWorkspaces, OfferableProviders, ListProviders, GetKey, ListTeams,
   ListSchedules, GetTeam, GetModel

\* An invalidation that was due stays due until it is made.
LEMMA DueKept ==
  ASSUME NEW k, Due(k), DOMAIN calls \subseteq DOMAIN calls',
         \A n \in DOMAIN calls : calls[n].phase = "done" =>
           /\ calls'[n].op = calls[n].op /\ calls'[n].of = calls[n].of
           /\ calls'[n].phase = "done"
  PROVE  Due(k)'
<1>1. PICK n \in DOMAIN calls : calls[n].phase = "done" /\ Invalidates(calls[n]) = k
  BY DEF Due
<1>2. calls'[n].phase = "done" /\ Invalidates(calls'[n]) = k
  BY <1>1 DEF Invalidates
<1> QED BY <1>1, <1>2 DEF Due

\* Every step keeps the lists current.
LEMMA CurrentStep ==
  ASSUME Typed, Current, [DesktopDataNext]_vars
  PROVE  Current'
<1>1. SUFFICES ASSUME NEW k \in ListKeys
               PROVE  /\ InFlight(k)' => fetch'[k].rows = Read(k)' \/ fetch'[k].outrun \/ Due(k)'
                      /\ k \in mounted' /\ ~InFlight(k)' => Data(k)' = Read(k)' \/ k \in joined' \/ Due(k)'
  BY DEF Current
<1>2. /\ InFlight(k) => fetch[k].rows = Read(k) \/ fetch[k].outrun \/ Due(k)
      /\ k \in mounted /\ ~InFlight(k) => Data(k) = Read(k) \/ k \in joined \/ Due(k)
      /\ k \in Keys /\ k.query \notin {"models", "savedModel"}
  BY DEF Current, ListKeys
<1> DEFINE Goal == /\ InFlight(k)' => fetch'[k].rows = Read(k)' \/ fetch'[k].outrun \/ Due(k)'
                   /\ k \in mounted' /\ ~InFlight(k)' => Data(k)' = Read(k)' \/ k \in joined' \/ Due(k)'
<1>3. ASSUME fetch' = fetch, data' = data, joined' = joined, mounted' = mounted,
             Read(k)' = Read(k), Due(k) => Due(k)'
      PROVE  Goal
  BY <1>2, <1>3 DEF InFlight, Data
<1>4. ASSUME calls' = calls, Due(k) PROVE Due(k)'
  <2>1. DOMAIN calls' = DOMAIN calls /\ \A n \in DOMAIN calls : calls'[n] = calls[n]
    BY <1>4
  <2> QED BY <1>4, <2>1, DueKept
<1>5. ASSUME Render PROVE Goal
  <2>1. /\ calls' = calls /\ data' = data /\ joined' = joined
        /\ mounted' = Observed
        /\ fetch' = Ask({j \in Observed \ mounted : ~InFlight(j)})
        /\ UNCHANGED dbVars
    BY <1>5 DEF Render
  <2>2. Read(k)' = Read(k)
    BY <2>1, ReadKept
  <2>3. /\ DOMAIN fetch' = DOMAIN fetch \cup {j \in Observed \ mounted : ~InFlight(j)}
        /\ \A j \in {i \in Observed \ mounted : ~InFlight(i)} : fetch'[j] = [rows |-> Read(j), outrun |-> FALSE]
        /\ \A j \in DOMAIN fetch \ {i \in Observed \ mounted : ~InFlight(i)} : fetch'[j] = fetch[j]
    BY <2>1, AskDoes
  <2>4. CASE k \in Observed \ mounted /\ ~InFlight(k)
    <3>1. k \in DOMAIN fetch' /\ fetch'[k] = [rows |-> Read(k), outrun |-> FALSE]
      BY <2>3, <2>4
    <3>2. fetch'[k].rows = Read(k)'
      BY <2>2, <3>1
    <3> QED BY <3>1, <3>2 DEF InFlight
  <2>5. CASE ~(k \in Observed \ mounted /\ ~InFlight(k))
    <3>1. InFlight(k)' <=> InFlight(k)
      BY <2>3, <2>5 DEF InFlight
    <3>2. InFlight(k) => fetch'[k] = fetch[k]
      BY <2>3, <2>5 DEF InFlight
    <3>3. k \in mounted' /\ ~InFlight(k)' => k \in mounted
      BY <2>1, <2>5, <3>1
    <3>4. Data(k)' = Data(k)
      BY <2>1 DEF Data
    <3>5. Due(k) => Due(k)'
      BY <1>4, <2>1
    <3> QED BY <1>2, <2>1, <2>2, <3>1, <3>2, <3>3, <3>4, <3>5
  <2> QED BY <2>4, <2>5
<1>6. ASSUME Focus PROVE Goal
  <2>1. /\ calls' = calls /\ data' = data /\ joined' = joined /\ mounted' = mounted
        /\ fetch' = Ask({j \in mounted : ~InFlight(j)})
        /\ UNCHANGED dbVars
    BY <1>6 DEF Focus
  <2>2. Read(k)' = Read(k)
    BY <2>1, ReadKept
  <2>3. /\ DOMAIN fetch' = DOMAIN fetch \cup {j \in mounted : ~InFlight(j)}
        /\ \A j \in {i \in mounted : ~InFlight(i)} : fetch'[j] = [rows |-> Read(j), outrun |-> FALSE]
        /\ \A j \in DOMAIN fetch \ {i \in mounted : ~InFlight(i)} : fetch'[j] = fetch[j]
    BY <2>1, AskDoes
  <2>4. Due(k) => Due(k)'
    BY <1>4, <2>1
  <2>5. CASE k \in mounted /\ ~InFlight(k)
    <3>1. k \in DOMAIN fetch' /\ fetch'[k] = [rows |-> Read(k), outrun |-> FALSE]
      BY <2>3, <2>5
    <3>2. fetch'[k].rows = Read(k)'
      BY <2>2, <3>1
    <3> QED BY <3>1, <3>2 DEF InFlight
  <2>6. CASE ~(k \in mounted /\ ~InFlight(k))
    <3>1. (InFlight(k)' <=> InFlight(k)) /\ (InFlight(k) => fetch'[k] = fetch[k])
      BY <2>3, <2>6 DEF InFlight
    <3> QED BY <1>2, <2>1, <2>2, <2>4, <2>6, <3>1
  <2> QED BY <2>5, <2>6
<1>7. ASSUME NEW j \in DOMAIN fetch, Arrive(j) PROVE Goal
  <2>1. UNCHANGED dbVars /\ mounted' = mounted
    BY <1>7 DEF Arrive
  <2>2. Read(k)' = Read(k)
    BY <2>1, ReadKept
  <2>3. Due(k) => Due(k)'
    BY <1>7, ArriveCalls, DueKept DEF KeptCall
  <2>4. /\ fetch' = Restrict(fetch, DOMAIN fetch \ {j})
        /\ joined' = IF fetch[j].outrun THEN joined \cup {j} ELSE joined \ {j}
    BY <1>7 DEF Arrive
  <2>5. DOMAIN fetch' = DOMAIN fetch \ {j} /\ \A i \in DOMAIN fetch' : fetch'[i] = fetch[i]
    BY <2>4 DEF Restrict
  <2>6. PICK rows \in IF j.query = "models" THEN ModelsAnswers(j.of) ELSE {fetch[j].rows} :
          data' = IF rows = Failed THEN data ELSE With(data, j, rows)
    BY <1>7 DEF Arrive
  <2>7. CASE j = k
    <3>1. rows = fetch[k].rows
      BY <1>2, <2>6, <2>7
    <3>2. rows # Failed
      <4>1. rows \in Answers(k)
        BY <1>2, <1>7, <2>7, <3>1 DEF Typed, CacheTyped, Fetches
      <4> QED BY <1>2, <4>1, AnswersSigned
    <3>3. Data(k)' = rows
      BY <2>6, <2>7, <3>2 DEF Data, With
    <3>4. ~InFlight(k)' /\ InFlight(k)
      BY <1>7, <2>5, <2>7 DEF InFlight
    <3>5. fetch[k].outrun => k \in joined'
      BY <2>4, <2>7
    <3> QED BY <1>2, <2>2, <2>3, <3>1, <3>3, <3>4, <3>5
  <2>8. CASE j # k
    <3>1. Data(k)' = Data(k)
      BY <2>6, <2>8 DEF Data, With
    <3>2. (InFlight(k)' <=> InFlight(k)) /\ (InFlight(k) => fetch'[k] = fetch[k])
      BY <2>5, <2>8 DEF InFlight
    <3>3. k \in joined' <=> k \in joined
      BY <2>4, <2>8
    <3> QED BY <1>2, <2>1, <2>2, <2>3, <3>1, <3>2, <3>3
  <2> QED BY <2>7, <2>8
<1>8. ASSUME NEW n \in DOMAIN calls, Invalidate(n) PROVE Goal
  <2> DEFINE j == Invalidates(calls[n])
  <2>1. Refetch(j) /\ UNCHANGED <<dbVars, data, joined, mounted>>
    BY <1>8 DEF Invalidate
  <2>2. Read(k)' = Read(k) /\ Data(k)' = Data(k)
    BY <2>1, ReadKept DEF Data
  <2> HIDE DEF j
  <2>3. CASE j = k
    <3>1. k \in mounted => k \in DOMAIN fetch'
      BY <2>1, <2>3, RefetchDoes
    <3>2. k \in DOMAIN fetch' => fetch'[k].rows = Read(k) \/ fetch'[k].outrun
      <4>1. k \in DOMAIN fetch' =>
              \/ fetch'[k] = [rows |-> Read(k), outrun |-> FALSE]
              \/ fetch'[k] = [rows |-> fetch[k].rows, outrun |-> (fetch[k].rows # Read(k))]
        BY <2>1, <2>3, RefetchDoes
      <4>2. ASSUME fetch'[k] = [rows |-> Read(k), outrun |-> FALSE]
            PROVE  fetch'[k].rows = Read(k)
        BY <4>2
      <4>3. ASSUME fetch[k].rows # Read(k),
                   fetch'[k] = [rows |-> fetch[k].rows, outrun |-> (fetch[k].rows # Read(k))]
            PROVE  fetch'[k].outrun
        <5>1. fetch'[k] = [rows |-> fetch[k].rows, outrun |-> TRUE]
          BY <4>3
        <5> QED BY <5>1
      <4>4. ASSUME fetch[k].rows = Read(k),
                   fetch'[k] = [rows |-> fetch[k].rows, outrun |-> (fetch[k].rows # Read(k))]
            PROVE  fetch'[k].rows = Read(k)
        BY <4>4
      <4> QED BY <4>1, <4>2, <4>3, <4>4
    <3> QED BY <2>1, <2>2, <3>1, <3>2 DEF InFlight
  <2>4. CASE j # k
    <3>0. \A i : i # j => /\ i \in DOMAIN fetch' <=> i \in DOMAIN fetch
                          /\ i \in DOMAIN fetch => fetch'[i] = fetch[i]
      BY <2>1, RefetchDoes
    <3>1. (InFlight(k)' <=> InFlight(k)) /\ (InFlight(k) => fetch'[k] = fetch[k])
      BY <2>4, <3>0 DEF InFlight
    <3>2. Due(k) => Due(k)'
      <4> HAVE Due(k)
      <4>1. PICK m \in DOMAIN calls : calls[m].phase = "done" /\ Invalidates(calls[m]) = k
        BY DEF Due
      <4>2. m # n
        BY <2>4, <4>1 DEF j
      <4>3. m \in DOMAIN calls' /\ calls'[m] = calls[m]
        BY <1>8, <4>1, <4>2, InvalidateCalls
      <4> QED BY <4>1, <4>3 DEF Due
    <3> QED BY <1>2, <2>1, <2>2, <3>1, <3>2
  <2> QED BY <2>3, <2>4
<1>9. ASSUME NEW n \in DOMAIN calls, Return(n) \/ Refuse(n) PROVE Goal
  <2>1. UNCHANGED dbVars /\ UNCHANGED cacheVars
    BY <1>9 DEF Return, Refuse
  <2>2. \A m \in DOMAIN calls : calls[m].phase = "done" => m # n
    BY <1>9 DEF Return, Refuse
  <2>3. Due(k) => Due(k)'
    BY <1>9, <2>2, EndCalls, DueKept DEF KeptCall
  <2> QED BY <1>3, <2>1, <2>3, ReadKept DEF cacheVars
<1>10. ASSUME NEW i, ChooseWorkspace(i) PROVE Goal
  <2>1. UNCHANGED dbVars /\ UNCHANGED cacheVars /\ calls' = calls
    BY <1>10 DEF ChooseWorkspace
  <2> QED BY <1>3, <1>4, <2>1, ReadKept DEF cacheVars
<1>11. ASSUME NEW call, Mutated(call) PROVE Goal
  <2>1. UNCHANGED cacheVars
    BY <1>11 DEF Mutated
  <2>2. Due(k) => Due(k)'
    BY <1>11, MutatedCalls, DueKept
  <2>3. call.phase = "done" /\ Invalidates(call) = k => Due(k)'
    BY <1>11, MutatedCalls DEF Due
  <2>4. Askable(k) => Read(k)' = Read(k) \/ Due(k)'
    BY <1>11, <2>3 DEF Mutated
  <2>5. InFlight(k) \/ k \in mounted => Askable(k)
    BY DEF Typed, CacheTyped, Fetches, InFlight
  <2> QED BY <1>2, <2>1, <2>2, <2>4, <2>5 DEF cacheVars, InFlight, Data
<1>12. ASSUME NEW route, Visit(route) PROVE Goal
  <2>1. UNCHANGED dbVars /\ UNCHANGED cacheVars
    BY <1>12 DEF Visit
  <2>2. Due(k) => Due(k)'
    BY <1>12, VisitCalls, DueKept DEF KeptCall
  <2> QED BY <1>3, <2>1, <2>2, ReadKept DEF cacheVars
<1>13. ASSUME Restart PROVE Goal
  <2>1. fetch' = <<>> /\ mounted' = {}
    BY <1>13 DEF Restart
  <2>2. DOMAIN fetch' = {}
    BY <2>1
  <2> QED BY <2>1, <2>2 DEF InFlight
<1>14. ASSUME UNCHANGED vars PROVE Goal
  <2>1. UNCHANGED dbVars /\ UNCHANGED cacheVars /\ calls' = calls
    BY <1>14 DEF vars
  <2> QED BY <1>3, <1>4, <2>1, ReadKept DEF cacheVars
<1> HIDE DEF Goal
<1>15. Goal
  <2>1. ASSUME NEW n \in DOMAIN calls, Invalidate(n) \/ Return(n) \/ Refuse(n) PROVE Goal
    BY <1>8, <1>9, <2>1
  <2> QED BY <1>5, <1>6, <1>7, <1>10, <1>11, <1>12, <1>13, <1>14, <2>1, Steps
<1> QED BY <1>15 DEF Goal

\* They are at the start.
LEMMA CurrentInit ==
  ASSUME DesktopDataInit
  PROVE  Asking /\ Current
<1>1. fetch = <<>> /\ mounted = {} /\ calls = <<>>
  BY DEF DesktopDataInit
<1>2. DOMAIN fetch = {} /\ DOMAIN calls = {}
  BY <1>1
<1> QED BY <1>1, <1>2 DEF Asking, Current, InFlight

\* While nothing is under way no list is out of date.
LEMMA QuietCurrent ==
  ASSUME Typed, Current, Quiet
  PROVE  SettledTrue
<1>1. fetch = <<>> /\ \A n \in DOMAIN calls : calls[n].phase = "over"
  BY DEF Quiet
<1>2. \A k : ~InFlight(k) /\ ~Due(k)
  <2>1. DOMAIN fetch = {}
    BY <1>1
  <2> QED BY <1>1, <2>1 DEF InFlight, Due
<1>3. \A k \in mounted : k \in Keys
  BY DEF Typed, CacheTyped, Askable
<1> QED BY <1>2, <1>3 DEF SettledTrue, Current, ListKeys

\* Once nothing is under way the lists on screen are those of the database,
\* whatever was changed while a fetch was in flight and whichever page was open
\* (onSuccess of the hooks in queries.ts); but for a list that an invalidation
\* met on its way and that was not asked for again.
THEOREM SettledHolds == DesktopDataSpec => []SettledTrue
<1>1. Typed /\ Current => SettledTrue
  BY QuietCurrent DEF SettledTrue
<1> QED BY TypedInit, TypedStep, CurrentInit, CurrentStep, <1>1, PTL DEF DesktopDataSpec

\* Once nothing is under way the active workspace is one that is listed, if any
\* is, and one of the database, if that has any and its list is up to date
\* (the effect of WorkspaceBar.tsx).
THEOREM ActiveHolds == DesktopDataSpec => []ActiveExists
<1>1. Typed /\ Current => ActiveExists
  <2> SUFFICES ASSUME Typed, Current, Quiet
               PROVE  /\ Listed # {} => active \in Listed
                      /\ workspaces # <<>> /\ Workspaces \notin joined => active \in DOMAIN workspaces
    BY DEF ActiveExists
  <2>1. ~EffectDue /\ Workspaces \in mounted
    BY DEF Quiet, Rendered, Observed
  <2>2. ASSUME Listed # {} PROVE active \in Listed
    <3>1. Data(Workspaces) # NoData /\ Listed = DOMAIN Data(Workspaces)
      BY <2>2 DEF Listed
    <3>2. Data(Workspaces) # <<>>
      BY <2>2, <3>1
    <3> QED BY <2>1, <3>1, <3>2 DEF EffectDue
  <2>3. ASSUME workspaces # <<>>, Workspaces \notin joined PROVE active \in DOMAIN workspaces
    <3>1. Data(Workspaces) = Read(Workspaces)
      BY <2>1, <2>3, QuietCurrent, KeyKinds DEF SettledTrue
    <3>2. Data(Workspaces) = workspaces
      BY <3>1, KeyKinds DEF Read, ListWorkspaces
    <3>3. workspaces # NoData
      BY SignsApart DEF Typed, TablesTyped, TablesOf
    <3> QED BY <2>1, <2>3, <3>2, <3>3 DEF EffectDue
  <2> QED BY <2>2, <2>3
<1> QED BY TypedInit, TypedStep, CurrentInit, CurrentStep, <1>1, PTL DEF DesktopDataSpec

-----------------------------------------------------------------------------
(* The workspace wanted is the active one.                                  *)

\* A step makes no id of before a workspace.
LEMMA OldIds ==
  ASSUME Typed, TablesTyped', DOMAIN workspaces' \cap used \subseteq DOMAIN workspaces,
         NEW i \in used \cup {None}, i \in DOMAIN workspaces'
  PROVE  i \in DOMAIN workspaces
<1>1. DOMAIN workspaces' \subseteq Ids
  BY DEF TablesTyped, DatabaseTypeOK
<1> QED BY <1>1, SignsApart

\* A cache left alone shows what it did.
LEMMA ShownKept ==
  ASSUME UNCHANGED cacheVars, NEW i, i \in DOMAIN workspaces' => i \in DOMAIN workspaces
  PROVE  (Coming(i) => Coming(i)') /\ (Shown(i) => Shown(i)')
BY DEF cacheVars, Coming, Shown, InFlight, Data, Listed

\* A fetch that starts brings every workspace there is.
LEMMA ShownAsked ==
  ASSUME NEW ks, fetch' = Ask(ks), workspaces' = workspaces, data' = data, joined' = joined
  PROVE  /\ \A i : (Coming(i) => Coming(i)') /\ (Shown(i) => Shown(i)')
         /\ Remembered => Remembered'
<1>1. CASE Workspaces \in ks
  <2>1. fetch'[Workspaces] = [rows |-> Read(Workspaces), outrun |-> FALSE]
    BY <1>1, AskDoes
  <2>2. fetch'[Workspaces].rows = workspaces
    BY <2>1, KeyKinds DEF Read, ListWorkspaces
  <2> QED BY <2>2 DEF Coming, Shown, Remembered, Data, Listed
<1>2. CASE Workspaces \notin ks
  <2>1. /\ Workspaces \in DOMAIN fetch' <=> Workspaces \in DOMAIN fetch
        /\ Workspaces \in DOMAIN fetch => fetch'[Workspaces] = fetch[Workspaces]
    BY <1>2, AskDoes
  <2> QED BY <2>1 DEF Coming, Shown, Remembered, InFlight, Data, Listed
<1> QED BY <1>1, <1>2

\* So does an invalidation, or it marks the fetch that goes on without them.
LEMMA ShownRefetched ==
  ASSUME Typed, NEW k, Refetch(k), workspaces' = workspaces, data' = data, joined' = joined
  PROVE  /\ \A i : (Coming(i) => Coming(i)') /\ (Shown(i) => Shown(i)')
         /\ Remembered => Remembered'
         /\ k = Workspaces => \A i : Coming(i)'
<1>1. CASE k = Workspaces
  <2>1. Read(k) = workspaces
    BY <1>1, KeyKinds DEF Read, ListWorkspaces
  <2>2. CASE k \in DOMAIN fetch' /\ fetch'[k] = [rows |-> Read(k), outrun |-> FALSE]
    <3>1. fetch'[k].rows = workspaces
      BY <2>1, <2>2
    <3> QED BY <1>1, <3>1 DEF Coming, Shown, Remembered, Data, Listed
  <2>3. CASE /\ k \in DOMAIN fetch' /\ k \in DOMAIN fetch /\ fetch'[k].rows = fetch[k].rows
             /\ fetch'[k] = [rows |-> fetch[k].rows, outrun |-> (fetch[k].rows # Read(k))]
    <3>1. ASSUME NEW i PROVE Coming(i)'
      <4>1. CASE fetch[k].rows = workspaces
        BY <1>1, <2>3, <4>1 DEF Coming
      <4>2. CASE fetch[k].rows # workspaces
        <5>1. fetch'[k] = [rows |-> fetch[k].rows, outrun |-> TRUE]
          BY <2>1, <2>3, <4>2
        <5>2. fetch'[k].outrun
          BY <5>1
        <5> QED BY <1>1, <5>2 DEF Coming
      <4> QED BY <4>1, <4>2
    <3>2. Remembered => Remembered'
      BY <1>1, <2>3 DEF Remembered, InFlight, Data, Listed
    <3>3. \A i : Shown(i) => Shown(i)'
      BY DEF Shown, Data, Listed
    <3> QED BY <3>1, <3>2, <3>3
  <2>4. CASE k \notin DOMAIN fetch'
    BY <1>1, <2>4 DEF Coming, Shown, Remembered, InFlight, Data, Listed
  <2>5. k \in DOMAIN fetch' =>
          \/ fetch'[k] = [rows |-> Read(k), outrun |-> FALSE]
          \/ /\ k \in DOMAIN fetch /\ fetch'[k].rows = fetch[k].rows
             /\ fetch'[k] = [rows |-> fetch[k].rows, outrun |-> (fetch[k].rows # Read(k))]
    BY RefetchDoes
  <2> QED BY <2>2, <2>3, <2>4, <2>5
<1>2. CASE k # Workspaces
  <2>0. \A j : j # k => /\ j \in DOMAIN fetch' <=> j \in DOMAIN fetch
                        /\ j \in DOMAIN fetch => fetch'[j] = fetch[j]
    BY RefetchDoes
  <2>1. /\ Workspaces \in DOMAIN fetch' <=> Workspaces \in DOMAIN fetch
        /\ Workspaces \in DOMAIN fetch => fetch'[Workspaces] = fetch[Workspaces]
    BY <1>2, <2>0
  <2> QED BY <1>2, <2>1 DEF Coming, Shown, Remembered, InFlight, Data, Listed
<1> QED BY <1>1, <1>2

\* A list that arrives shows what was coming.
LEMMA ShownArrived ==
  ASSUME Typed, NEW k \in DOMAIN fetch, Arrive(k)
  PROVE  /\ \A i : (Coming(i) => Coming(i)') /\ (Shown(i) /\ Coming(i) => Shown(i)')
         /\ k = Workspaces => \A i : Coming(i) => Shown(i)'
         /\ Remembered => Remembered'
<1>1. /\ fetch' = Restrict(fetch, DOMAIN fetch \ {k})
      /\ joined' = IF fetch[k].outrun THEN joined \cup {k} ELSE joined \ {k}
      /\ workspaces' = workspaces
  BY DEF Arrive, dbVars
<1>2. PICK rows \in IF k.query = "models" THEN ModelsAnswers(k.of) ELSE {fetch[k].rows} :
        data' = IF rows = Failed THEN data ELSE With(data, k, rows)
  BY DEF Arrive
<1>3. DOMAIN fetch' = DOMAIN fetch \ {k} /\ \A j \in DOMAIN fetch' : fetch'[j] = fetch[j]
  BY <1>1 DEF Restrict
<1>4. \A i : Coming(i) => Coming(i)'
  BY <1>1, <1>3 DEF Coming, InFlight
<1>5. CASE k = Workspaces
  <2>1. rows = fetch[k].rows
    BY <1>2, <1>5, KeyKinds
  <2>2. rows # Failed /\ rows # NoData
    <3>1. rows \in Answers(k) /\ k \in Keys
      BY <1>5, <2>1, KeyKinds DEF Typed, CacheTyped, Fetches, Askable
    <3> QED BY <1>5, <3>1, AnswersSigned, KeyKinds
  <2>3. Data(Workspaces)' = rows
    BY <1>2, <1>5, <2>2 DEF Data, With
  <2>4. ~InFlight(Workspaces)'
    BY <1>3, <1>5 DEF InFlight
  <2>5. ASSUME NEW i, Coming(i) PROVE Shown(i)'
    <3>1. i \in DOMAIN workspaces => i \in DOMAIN rows \/ fetch[k].outrun
      BY <1>5, <2>1, <2>5 DEF Coming, InFlight
    <3> QED BY <1>1, <1>5, <2>2, <2>3, <3>1 DEF Shown, Listed
  <2> QED BY <1>4, <2>4, <2>5 DEF Remembered
<1>6. CASE k # Workspaces
  <2>1. Data(Workspaces)' = Data(Workspaces)
    BY <1>2, <1>6 DEF Data, With
  <2>2. Listed' = Listed
    BY <2>1 DEF Listed
  <2>3. Workspaces \in joined' <=> Workspaces \in joined
    BY <1>1, <1>6
  <2>4. \A i : Shown(i) => Shown(i)'
    BY <1>1, <2>1, <2>2, <2>3 DEF Shown
  <2>5. /\ Workspaces \in DOMAIN fetch' <=> Workspaces \in DOMAIN fetch
        /\ Workspaces \in DOMAIN fetch => fetch'[Workspaces] = fetch[Workspaces]
    BY <1>3, <1>6
  <2>6. Remembered => Remembered'
    BY <1>1, <2>2, <2>5 DEF Remembered, InFlight
  <2> QED BY <1>4, <1>6, <2>4, <2>6
<1> QED BY <1>5, <1>6

\* A call left as it is announces what it did.
LEMMA AnnouncedKept ==
  ASSUME NEW n, Announced(n), KeptCall(n), NEW m, m = calls[n].made,
         Coming(m) => Coming(m)',
         Coming(m) /\ Shown(m) => Shown(m)'
  PROVE  Announced(n)'
<1>1. /\ calls'[n].op = calls[n].op /\ calls'[n].made = m
      /\ calls'[n].phase = calls[n].phase /\ calls'[n].awaits = calls[n].awaits
  BY DEF KeptCall
<1>2. ASSUME calls[n].op = "create"
      PROVE  /\ calls[n].phase = "refreshing" => calls[n].awaits = Workspaces
             /\ calls[n].phase \in {"refreshing", "refreshed"} => Coming(m)'
             /\ calls[n].phase = "refreshed" => Shown(m)'
  BY <1>2 DEF Announced
<1>3. calls[n].phase \in {"refreshing", "refreshed"} /\ Coming(m)' => Coming(calls[n].made)'
  BY <1>1
<1>4. Shown(m)' => Shown(calls[n].made)'
  BY <1>1
<1> QED BY <1>1, <1>2, <1>3, <1>4 DEF Announced

\* Every step keeps the workspace wanted active.
LEMMA ChosenStep ==
  ASSUME Typed, Typed', Asking, Chosen, [DesktopDataNext]_vars
  PROVE  Chosen'
<1> DEFINE Old == used \cup {None}
           Stays == \A i \in Old : /\ i \in DOMAIN workspaces' => i \in DOMAIN workspaces
                                   /\ Coming(i) => Coming(i)'
                                   /\ Coming(i) /\ Shown(i) => Shown(i)'
<1>1. /\ wanted \in Old /\ \A n \in DOMAIN calls : calls[n].made \in Old
      /\ wanted \in DOMAIN workspaces => active = wanted
      /\ Shown(wanted) /\ Coming(wanted) /\ Remembered
      /\ \A n \in DOMAIN calls : Announced(n)
  BY DEF Typed, PageTyped, CallsTyped, Chosen
<1>2. Coming(None) /\ Shown(None) /\ None \notin DOMAIN workspaces
      /\ Coming(None)' /\ Shown(None)' /\ None \notin DOMAIN workspaces'
  <2>1. None \notin DOMAIN workspaces /\ None \notin DOMAIN workspaces'
    BY SignsApart DEF Typed, TablesTyped, DatabaseTypeOK
  <2> QED BY <2>1 DEF Coming, Shown
<1>3. ASSUME Stays, wanted' = wanted, active' = active, Remembered', \A n \in DOMAIN calls' : Announced(n)'
      PROVE  Chosen'
  <2> DEFINE w == wanted
  <2>1. (w \in DOMAIN workspaces' => w \in DOMAIN workspaces) /\ Coming(w)' /\ Shown(w)'
    <3> PICK i \in Old : i = wanted
      BY <1>1
    <3>1. Coming(i)' /\ Shown(i)' /\ (i \in DOMAIN workspaces' => i \in DOMAIN workspaces)
      BY <1>1, <1>3
    <3>2. Coming(wanted)' /\ Shown(wanted)'
      BY <1>3, <3>1 DEF Coming, Shown
    <3> QED BY <3>1, <3>2
  <2>2. wanted' \in DOMAIN workspaces' => active' = wanted'
    BY <1>1, <1>3, <2>1
  <2> QED BY <1>3, <2>1, <2>2 DEF Chosen
<1>4. ASSUME Stays, NEW n \in DOMAIN calls, KeptCall(n) PROVE Announced(n)'
  BY <1>1, <1>4, AnnouncedKept
<1>5. ASSUME Stays, NEW n \in DOMAIN calls, calls'[n] = calls[n] PROVE Announced(n)'
  BY <1>4, <1>5 DEF KeptCall
<1>6. ASSUME NEW n, calls'[n].phase \in {"done", "failed", "over"} PROVE Announced(n)'
  BY <1>6 DEF Announced
<1>7. ASSUME UNCHANGED <<cacheVars, workspaces>> PROVE Stays /\ Remembered'
  <2>1. Stays
    BY <1>7, ShownKept
  <2>2. Remembered'
    BY <1>1, <1>7 DEF Remembered, cacheVars, InFlight, Listed, Data
  <2> QED BY <2>1, <2>2
<1> HIDE DEF Stays
<1>8. ASSUME Render PROVE Chosen'
  <2>1. /\ fetch' = Ask({k \in Observed \ mounted : ~InFlight(k)})
        /\ workspaces' = workspaces /\ data' = data /\ joined' = joined /\ calls' = calls
        /\ active' \in IF EffectDue THEN First(Data(Workspaces)) ELSE {active}
        /\ wanted' = IF EffectDue /\ Workspaces \in joined THEN None ELSE wanted
    BY <1>8 DEF Render, dbVars
  <2>2. Stays /\ Remembered'
    BY <1>1, <2>1, ShownAsked DEF Stays
  <2>3. \A n \in DOMAIN calls' : Announced(n)'
    BY <1>5, <2>1, <2>2
  <2>4. CASE ~EffectDue
    BY <1>3, <2>1, <2>2, <2>3, <2>4
  <2>5. CASE EffectDue /\ Workspaces \in joined
    <3>1. wanted' = None
      BY <2>1, <2>5
    <3>2. Shown(wanted)' /\ Coming(wanted)'
      BY <1>2, <3>1 DEF Shown, Coming
    <3> QED BY <1>2, <2>2, <2>3, <3>1, <3>2 DEF Chosen
  <2>6. CASE EffectDue /\ Workspaces \notin joined
    <3>1. wanted \notin DOMAIN workspaces
      BY <1>1, <2>6 DEF EffectDue, Shown, Listed
    <3>2. wanted' = wanted /\ workspaces' = workspaces
      BY <2>1, <2>6
    <3>3. Shown(wanted)' /\ Coming(wanted)'
      BY <3>1, <3>2 DEF Shown, Coming
    <3> QED BY <2>2, <2>3, <3>1, <3>2, <3>3 DEF Chosen
  <2> QED BY <2>4, <2>5, <2>6
<1>9. ASSUME Focus PROVE Chosen'
  <2>1. /\ fetch' = Ask({k \in mounted : ~InFlight(k)})
        /\ workspaces' = workspaces /\ data' = data /\ joined' = joined /\ calls' = calls
        /\ active' = active /\ wanted' = wanted
    BY <1>9 DEF Focus, dbVars, pageVars
  <2>2. Stays /\ Remembered'
    BY <1>1, <2>1, ShownAsked DEF Stays
  <2> QED BY <1>3, <1>5, <2>1, <2>2
<1>10. ASSUME NEW k \in DOMAIN fetch, Arrive(k) PROVE Chosen'
  <2>1. workspaces' = workspaces /\ active' = active /\ wanted' = wanted
    BY <1>10 DEF Arrive, dbVars, pageVars
  <2>2. Stays /\ Remembered'
    BY <1>1, <1>10, <2>1, ShownArrived DEF Stays
  <2>3. ASSUME NEW n \in DOMAIN calls PROVE Announced(n)'
    <3>1. CASE KeptCall(n)
      BY <1>4, <2>2, <3>1
    <3>2. CASE /\ calls[n].phase = "refreshing" /\ calls[n].awaits = k
               /\ calls'[n].phase = "refreshed"
               /\ calls'[n].op = calls[n].op
               /\ calls'[n].made = calls[n].made
      <4>1. CASE calls[n].op # "create"
        BY <3>2, <4>1 DEF Announced
      <4>2. CASE calls[n].op = "create"
        <5>1. PICK m \in Old : m = calls[n].made
          BY <1>1
        <5>2. k = Workspaces /\ Coming(m)
          BY <1>1, <3>2, <4>2, <5>1 DEF Announced
        <5>3. Coming(m)' /\ Shown(m)'
          BY <1>10, <5>2, ShownArrived
        <5>4. Coming(calls[n].made)' /\ Shown(calls[n].made)'
          BY <3>2, <5>1, <5>3 DEF Coming, Shown
        <5> QED BY <3>2, <5>4 DEF Announced
      <4> QED BY <4>1, <4>2
    <3> QED BY <1>10, <3>1, <3>2, ArriveCalls
  <2>4. DOMAIN calls' = DOMAIN calls
    BY <1>10, ArriveCalls
  <2> QED BY <1>3, <2>1, <2>2, <2>3, <2>4
<1>11. ASSUME NEW n \in DOMAIN calls, Invalidate(n) PROVE Chosen'
  <2> DEFINE k == Invalidates(calls[n])
  <2>1. /\ Refetch(k) /\ workspaces' = workspaces /\ data' = data /\ joined' = joined
        /\ active' = active /\ wanted' = wanted
    BY <1>11 DEF Invalidate, dbVars, pageVars
  <2>2. Stays /\ Remembered'
    BY <1>1, <2>1, ShownRefetched DEF Stays
  <2>3. Announced(n)'
    <3>1. CASE calls[n].op # "create"
      BY <1>11, <3>1, InvalidateCalls DEF Announced
    <3>2. CASE calls[n].op = "create"
      <4>1. k = Workspaces
        BY <3>2 DEF Invalidates
      <4>2. Workspaces \in mounted
        BY <1>11, InvalidateCalls DEF Asking
      <4>3. calls'[n].phase = "refreshing" /\ calls'[n].awaits = Workspaces /\ calls'[n].made = calls[n].made
        BY <1>11, <4>1, <4>2, InvalidateCalls
      <4>4. PICK m : m = calls[n].made
        OBVIOUS
      <4>5. Coming(m)'
        BY <2>1, <4>1, ShownRefetched
      <4>6. Coming(calls[n].made)'
        BY <4>3, <4>4, <4>5 DEF Coming
      <4> QED BY <4>3, <4>6 DEF Announced
    <3> QED BY <3>1, <3>2
  <2>4. \A m \in DOMAIN calls' : Announced(m)'
    BY <1>5, <1>11, <2>2, <2>3, InvalidateCalls
  <2> QED BY <1>3, <2>1, <2>2, <2>4
<1>12. ASSUME NEW n \in DOMAIN calls, Return(n) \/ Refuse(n) PROVE Chosen'
  <2>1. UNCHANGED <<cacheVars, workspaces>>
    BY <1>12 DEF Return, Refuse, dbVars
  <2>2. Stays /\ Remembered'
    BY <1>7, <2>1
  <2>3. \A m \in DOMAIN calls' : Announced(m)'
    BY <1>4, <1>6, <1>12, <2>2, EndCalls
  <2>4. CASE active' = active /\ wanted' = wanted
    BY <1>3, <2>2, <2>3, <2>4
  <2>5. CASE ~(active' = active /\ wanted' = wanted)
    <3>1. /\ calls[n].op = "create" /\ calls[n].phase = "refreshed"
          /\ active' = calls[n].made /\ wanted' = calls[n].made
      BY <1>12, <2>5 DEF Return, Refuse, pageVars
    <3>2. PICK m \in Old : m = calls[n].made
      BY <1>1
    <3>3. Coming(m)' /\ Shown(m)'
      <4>1. Coming(m) /\ Shown(m)
        BY <1>1, <3>1, <3>2 DEF Announced
      <4> QED BY <2>2, <4>1 DEF Stays
    <3>4. Coming(wanted)' /\ Shown(wanted)'
      BY <3>1, <3>2, <3>3 DEF Coming, Shown
    <3> QED BY <2>2, <2>3, <3>1, <3>4 DEF Chosen
  <2> QED BY <2>4, <2>5
<1>13. ASSUME NEW i \in Ids, ChooseWorkspace(i) PROVE Chosen'
  <2>1. /\ UNCHANGED <<cacheVars, workspaces>> /\ calls' = calls
        /\ active' = i /\ wanted' = i /\ i \in Listed
    BY <1>13 DEF ChooseWorkspace, dbVars
  <2>2. Stays /\ Remembered'
    BY <1>7, <2>1
  <2>3. \A n \in DOMAIN calls' : Announced(n)'
    BY <1>5, <2>1, <2>2
  <2>4. Shown(i) /\ Coming(i)
    BY <1>1, <2>1 DEF Shown, Coming, Remembered
  <2>5. Shown(i)' /\ Coming(i)'
    BY <2>1, <2>4, ShownKept
  <2>6. Shown(wanted)' /\ Coming(wanted)'
    BY <2>1, <2>5 DEF Shown, Coming
  <2> QED BY <2>1, <2>2, <2>3, <2>6 DEF Chosen
<1>14. ASSUME NEW call, Mutated(call) PROVE Chosen'
  <2>1. /\ UNCHANGED cacheVars /\ active' = active /\ wanted' = wanted
        /\ DOMAIN workspaces' \cap used \subseteq DOMAIN workspaces
        /\ TablesTyped'
    BY <1>14 DEF Mutated
  <2>2. \A i \in Old : i \in DOMAIN workspaces' => i \in DOMAIN workspaces
    BY <2>1, OldIds
  <2>3. Stays
    BY <2>1, <2>2, ShownKept DEF Stays
  <2>4. Remembered'
    <3>1. Listed \subseteq used
      BY DEF Typed, CacheTyped, Listed, Data
    <3> QED BY <1>1, <2>1, <3>1 DEF Remembered, cacheVars, InFlight, Listed, Data
  <2>5. \A n \in DOMAIN calls' : Announced(n)'
    <3>1. call.phase \in {"done", "failed"}
      BY <1>14 DEF Mutated
    <3> QED BY <1>5, <1>6, <1>14, <2>3, <3>1, MutatedCalls
  <2> QED BY <1>3, <2>1, <2>3, <2>4, <2>5
<1>15. ASSUME NEW route, Visit(route) PROVE Chosen'
  <2>1. UNCHANGED <<cacheVars, workspaces>> /\ active' = active /\ wanted' = wanted
    BY <1>15 DEF Visit, dbVars
  <2>2. Stays /\ Remembered'
    BY <1>7, <2>1
  <2> QED BY <1>3, <1>4, <1>15, <2>1, <2>2, VisitCalls
<1>16. ASSUME Restart PROVE Chosen'
  <2>1. /\ data' = <<>> /\ fetch' = <<>> /\ active' = active /\ wanted' = wanted
        /\ DOMAIN workspaces' \cap used \subseteq DOMAIN workspaces
        /\ TablesTyped'
    BY <1>16, SeedDoes DEF Restart
  <2>2. DOMAIN data' = {} /\ DOMAIN fetch' = {}
    BY <2>1
  <2>3. \A i : Coming(i)' /\ Shown(i)'
    BY <2>2 DEF Coming, Shown, InFlight, Data
  <2>4. Stays
    BY <2>1, <2>3, OldIds DEF Stays
  <2>5. Remembered'
    BY <2>2 DEF Remembered, InFlight
  <2>6. \A n \in DOMAIN calls' : Announced(n)'
    BY <1>6, <1>16, RestartCalls
  <2> QED BY <1>3, <2>1, <2>4, <2>5, <2>6
<1>17. ASSUME UNCHANGED vars PROVE Chosen'
  <2>1. UNCHANGED <<cacheVars, workspaces>> /\ active' = active /\ wanted' = wanted /\ calls' = calls
    BY <1>17 DEF vars, dbVars, pageVars
  <2>2. Stays /\ Remembered'
    BY <1>7, <2>1
  <2> QED BY <1>3, <1>5, <2>1, <2>2
<1>18. ASSUME NEW n \in DOMAIN calls, Invalidate(n) \/ Return(n) \/ Refuse(n) PROVE Chosen'
  BY <1>11, <1>12, <1>18
<1> QED BY <1>8, <1>9, <1>10, <1>13, <1>14, <1>15, <1>16, <1>17, <1>18, Steps

\* It is so at the start.
LEMMA ChosenInit ==
  ASSUME DesktopDataInit
  PROVE  Chosen
<1>1. wanted = None /\ data = <<>> /\ fetch = <<>> /\ calls = <<>>
  BY DEF DesktopDataInit
<1>2. DOMAIN data = {} /\ DOMAIN fetch = {} /\ DOMAIN calls = {}
  BY <1>1
<1>3. None \notin DOMAIN workspaces
  BY TypedInit, SignsApart DEF Typed, TablesTyped, DatabaseTypeOK
<1> QED BY <1>1, <1>2, <1>3 DEF Chosen, Coming, Shown, Remembered, InFlight, Data, Announced

\* The workspace the user last chose, or created, stays the active one for as
\* long as it exists: the effect of WorkspaceBar.tsx does not take the user
\* elsewhere because the list does not show the new workspace yet, unless the
\* first load of the list, which is not asked for again, was overtaken by a create.
THEOREM LastChosenHolds == DesktopDataSpec => []LastChosenActive
<1>1. Chosen => LastChosenActive
  BY DEF Chosen, LastChosenActive
<1> QED BY TypedInit, TypedStep, CurrentInit, AskingStep, ChosenInit, ChosenStep, <1>1,
           PTL DEF DesktopDataSpec

-----------------------------------------------------------------------------
(* The models listed are those of a response.  Kept is a recursive function: *)
(* what it computes is proved of its values one after the other.             *)

\* The values of the recursion, up to m.
Keeping(entries, places, m, kept) ==
  kept = [n \in 0..m |->
            IF n = 0 THEN <<>>
            ELSE IF n \in places THEN Append(kept[n - 1], entries[n]) ELSE kept[n - 1]]

\* There are such values.
LEMMA KeepingExists ==
  ASSUME NEW entries, NEW places, NEW m \in Nat
  PROVE  \E kept : Keeping(entries, places, m, kept)
<1> DEFINE S == {n \in 0..m : \E kept : Keeping(entries, places, n, kept)}
<1>1. 0 \in S
  <2>1. Keeping(entries, places, 0, [n \in 0..0 |-> <<>>])
    BY DEF Keeping
  <2> QED BY <2>1
<1>2. ASSUME NEW n \in 0..m, n \in S, n < m PROVE n + 1 \in S
  <2>1. PICK kept : Keeping(entries, places, n, kept)
    BY <1>2
  <2> DEFINE last == IF n + 1 \in places THEN Append(kept[n], entries[n + 1]) ELSE kept[n]
             longer == [k \in 0..(n + 1) |-> IF k = n + 1 THEN last ELSE kept[k]]
  <2>2. \A k \in 0..n : kept[k] = IF k = 0 THEN <<>>
                                  ELSE IF k \in places THEN Append(kept[k - 1], entries[k]) ELSE kept[k - 1]
    BY <2>1 DEF Keeping
  <2> HIDE DEF last
  <2>3. ASSUME NEW k \in 0..(n + 1)
        PROVE  longer[k] = IF k = 0 THEN <<>>
                           ELSE IF k \in places THEN Append(longer[k - 1], entries[k]) ELSE longer[k - 1]
    <3>1. CASE k = n + 1
      <4>1. longer[k] = last /\ k # 0 /\ k - 1 \in 0..(n + 1) /\ k - 1 = n /\ k - 1 # n + 1
        BY <3>1
      <4>2. longer[k - 1] = kept[n]
        BY <4>1
      <4> QED BY <3>1, <4>1, <4>2 DEF last
    <3>2. CASE k # n + 1
      <4>1. k \in 0..n /\ longer[k] = kept[k]
        BY <3>2
      <4>2. k # 0 => k - 1 \in 0..(n + 1) /\ k - 1 # n + 1
        BY <4>1
      <4>3. k # 0 => longer[k - 1] = kept[k - 1]
        BY <4>2
      <4> HIDE DEF longer
      <4> QED BY <2>2, <4>1, <4>3
    <3> QED BY <3>1, <3>2
  <2>4. DOMAIN longer = 0..(n + 1) /\ longer = [k \in 0..(n + 1) |-> longer[k]]
    OBVIOUS
  <2> HIDE DEF longer
  <2>5. Keeping(entries, places, n + 1, longer)
    BY <2>3, <2>4 DEF Keeping
  <2>6. n + 1 \in 0..m
    BY <1>2
  <2> QED BY <2>5, <2>6
<1> HIDE DEF S
<1>3. 0..m \subseteq S
  BY <1>1, <1>2, Reached
<1>4. m \in S
  BY <1>3
<1> QED BY <1>4 DEF S

\* What is kept is a list of entries at those places.
LEMMA KeptHas ==
  ASSUME NEW entries, Len(entries) \in Nat, DOMAIN entries = 1..Len(entries), NEW places
  PROVE  Kept(entries, places) \in Seq({entries[i] : i \in places \cap DOMAIN entries})
<1> DEFINE kept == CHOOSE f : f = [n \in 0..Len(entries) |->
                     IF n = 0 THEN <<>>
                     ELSE IF n \in places THEN Append(f[n - 1], entries[n]) ELSE f[n - 1]]
           E == {entries[i] : i \in places \cap DOMAIN entries}
           S == {n \in 0..Len(entries) : kept[n] \in Seq(E)}
<1>1. kept = [n \in 0..Len(entries) |->
                     IF n = 0 THEN <<>>
                     ELSE IF n \in places THEN Append(kept[n - 1], entries[n]) ELSE kept[n - 1]]
  <2>1. \E f : f = [n \in 0..Len(entries) |->
                     IF n = 0 THEN <<>>
                     ELSE IF n \in places THEN Append(f[n - 1], entries[n]) ELSE f[n - 1]]
    <3>1. \E f : Keeping(entries, places, Len(entries), f)
      BY KeepingExists
    <3> QED BY <3>1 DEF Keeping
  <2> QED BY <2>1
<1>2. Kept(entries, places) = kept[Len(entries)]
  BY DEF Kept
<1> HIDE DEF kept
<1>3. kept[0] = <<>>
  <2>1. 0 \in 0..Len(entries)
    OBVIOUS
  <2> QED BY <1>1, <2>1
<1>4. 0 \in S
  <2> HIDE DEF E
  <2>1. kept[0] \in Seq(E) /\ 0 \in 0..Len(entries)
    BY <1>3
  <2> QED BY <2>1
<1>5. ASSUME NEW n \in 0..Len(entries), n \in S, n < Len(entries) PROVE n + 1 \in S
  <2>1. kept[n] \in Seq(E) /\ n + 1 \in 0..Len(entries) /\ n + 1 # 0 /\ (n + 1) - 1 = n
    BY <1>5
  <2>2. kept[n + 1] = IF n + 1 \in places THEN Append(kept[n], entries[n + 1]) ELSE kept[n]
    BY <1>1, <2>1
  <2>3. n + 1 \in places => entries[n + 1] \in E
    BY <2>1
  <2> HIDE DEF E
  <2>4. kept[n + 1] \in Seq(E)
    BY <2>1, <2>2, <2>3
  <2> QED BY <2>1, <2>4
<1> HIDE DEF S, E
<1>6. 0..Len(entries) \subseteq S
  BY <1>4, <1>5, Reached
<1>7. kept[Len(entries)] \in Seq(E)
  BY <1>6 DEF S
<1> QED BY <1>2, <1>7 DEF E

\* The model a dialect makes of an entry.
ModelOf(d, e) ==
  CASE d = "anthropic" -> AnthropicModel(e)
    [] d = "gemini" -> GeminiModel(e)
    [] d = "openai" -> OpenAiModel(e)
    [] d = "fireworks" -> FireworksModel(e)

\* Models made of the entries in a list.
LEMMA MadeOf ==
  ASSUME NEW entries, NEW E, NEW s \in Seq(E), NEW d, NEW models,
         models = [i \in DOMAIN s |-> models[i]],
         \A i \in DOMAIN s : models[i] = ModelOf(d, s[i]),
         \A e \in E : \E j \in DOMAIN entries : e = entries[j] /\ Parsed(d, e)
  PROVE  /\ models = <<>> \/ 1 \in DOMAIN models
         /\ \A i \in DOMAIN models : \E j \in DOMAIN entries :
              Parsed(d, entries[j]) /\ models[i] = ModelOf(d, entries[j])
<1>1. Len(s) \in Nat /\ DOMAIN s = 1..Len(s) /\ \A i \in DOMAIN s : s[i] \in E
  OBVIOUS
<1>2. models = <<>> \/ 1 \in DOMAIN models
  <2>1. CASE Len(s) = 0
    <3>1. models \in [1..0 -> {1}]
      BY <1>1, <2>1
    <3>2. models \in Seq({1}) /\ Len(models) = 0
      BY <3>1
    <3> QED BY <3>2
  <2>2. CASE Len(s) # 0
    BY <1>1, <2>2
  <2> QED BY <2>1, <2>2
<1>3. ASSUME NEW i \in DOMAIN models
      PROVE  \E j \in DOMAIN entries : Parsed(d, entries[j]) /\ models[i] = ModelOf(d, entries[j])
  <2>1. i \in DOMAIN s /\ s[i] \in E /\ models[i] = ModelOf(d, s[i])
    BY <1>1
  <2>2. PICK j \in DOMAIN entries : s[i] = entries[j] /\ Parsed(d, s[i])
    BY <2>1
  <2> QED BY <2>1, <2>2
<1> QED BY <1>2, <1>3

\* What each dialect makes of a response.
LEMMA Parses ==
  ASSUME NEW entries, Len(entries) \in Nat, DOMAIN entries = 1..Len(entries), NEW d \in Dialects
  PROVE  LET models == ParseModels(d, entries)
         IN  /\ models = <<>> \/ 1 \in DOMAIN models
             /\ \A i \in DOMAIN models : \E j \in DOMAIN entries :
                  Parsed(d, entries[j]) /\ models[i] = ModelOf(d, entries[j])
<1> DEFINE models == ParseModels(d, entries)
           E1 == {entries[i] : i \in {j \in DOMAIN entries : entries[j].id # None} \cap DOMAIN entries}
<1>1. Named(entries) \in Seq(E1)
  BY KeptHas DEF Named
<1>2. \A e \in E1 : \E j \in DOMAIN entries : e = entries[j] /\ e.id # None
  OBVIOUS
<1> HIDE DEF E1
<1>3. CASE d = "anthropic"
  <2>1. models = [i \in DOMAIN Named(entries) |-> AnthropicModel(Named(entries)[i])]
    BY <1>3 DEF ParseModels, Mapped
  <2>2. /\ models = [i \in DOMAIN Named(entries) |-> models[i]]
        /\ \A i \in DOMAIN Named(entries) : models[i] = ModelOf(d, Named(entries)[i])
    BY <1>3, <2>1 DEF ModelOf
  <2>3. \A e \in E1 : \E j \in DOMAIN entries : e = entries[j] /\ Parsed(d, e)
    BY <1>2, <1>3 DEF Parsed
  <2> HIDE DEF models
  <2> QED BY <1>1, <2>2, <2>3, MadeOf, SMTT(30) DEF models
<1>4. CASE d = "fireworks"
  <2>1. models = [i \in DOMAIN Named(entries) |-> FireworksModel(Named(entries)[i])]
    BY <1>4 DEF ParseModels, Mapped
  <2>2. /\ models = [i \in DOMAIN Named(entries) |-> models[i]]
        /\ \A i \in DOMAIN Named(entries) : models[i] = ModelOf(d, Named(entries)[i])
    BY <1>4, <2>1 DEF ModelOf
  <2>3. \A e \in E1 : \E j \in DOMAIN entries : e = entries[j] /\ Parsed(d, e)
    BY <1>2, <1>4 DEF Parsed
  <2> HIDE DEF models
  <2> QED BY <1>1, <2>2, <2>3, MadeOf, SMTT(30) DEF models
<1>5. CASE d = "openai"
  <2> DEFINE s == Named(entries)
             E2 == {s[i] : i \in {j \in DOMAIN s : IsChatModel(s[j])} \cap DOMAIN s}
  <2>1. Len(s) \in Nat /\ DOMAIN s = 1..Len(s) /\ \A i \in DOMAIN s : s[i] \in E1
    BY <1>1
  <2> HIDE DEF s
  <2>2. Chatting(s) \in Seq(E2)
    BY <2>1, KeptHas DEF Chatting
  <2>3. models = [i \in DOMAIN Chatting(s) |-> OpenAiModel(Chatting(s)[i])]
    BY <1>5 DEF ParseModels, Mapped, s
  <2>4. /\ models = [i \in DOMAIN Chatting(s) |-> models[i]]
        /\ \A i \in DOMAIN Chatting(s) : models[i] = ModelOf(d, Chatting(s)[i])
    BY <1>5, <2>3 DEF ModelOf
  <2>5. \A e \in E2 : e \in E1 /\ IsChatModel(e)
    BY <2>1
  <2> HIDE DEF E2
  <2>6. \A e \in E2 : \E j \in DOMAIN entries : e = entries[j] /\ Parsed(d, e)
    BY <1>2, <1>5, <2>5 DEF Parsed
  <2> HIDE DEF models
  <2> QED BY <2>2, <2>4, <2>6, MadeOf, SMTT(30) DEF models
<1>6. CASE d = "gemini"
  <2> DEFINE E2 == {entries[i] : i \in {j \in DOMAIN entries : SupportsStreaming(entries[j])} \cap DOMAIN entries}
             s == Streaming(entries)
             E3 == {s[i] : i \in {j \in DOMAIN s : s[j].id # None} \cap DOMAIN s}
  <2>1. s \in Seq(E2)
    BY KeptHas DEF Streaming
  <2>2. \A e \in E2 : \E j \in DOMAIN entries : e = entries[j] /\ SupportsStreaming(e)
    OBVIOUS
  <2> HIDE DEF E2
  <2>3. Len(s) \in Nat /\ DOMAIN s = 1..Len(s) /\ \A i \in DOMAIN s : s[i] \in E2
    BY <2>1
  <2> HIDE DEF s
  <2>4. Named(s) \in Seq(E3)
    BY <2>3, KeptHas DEF Named
  <2>5. models = [i \in DOMAIN Named(s) |-> GeminiModel(Named(s)[i])]
    BY <1>6 DEF ParseModels, Mapped, s
  <2>6. /\ models = [i \in DOMAIN Named(s) |-> models[i]]
        /\ \A i \in DOMAIN Named(s) : models[i] = ModelOf(d, Named(s)[i])
    BY <1>6, <2>5 DEF ModelOf
  <2>7. \A e \in E3 : e \in E2 /\ e.id # None
    BY <2>3
  <2> HIDE DEF E3
  <2>8. \A e \in E3 : \E j \in DOMAIN entries : e = entries[j] /\ Parsed(d, e)
    BY <1>6, <2>2, <2>7 DEF Parsed
  <2> HIDE DEF models
  <2> QED BY <2>4, <2>6, <2>8, MadeOf, SMTT(30) DEF models
<1> QED BY <1>3, <1>4, <1>5, <1>6 DEF Dialects

\* A list of models is not empty; each is one of the response's or the default.
LEMMA Lists ==
  ASSUME NEW d \in Dialects, NEW r \in Responses, ListModelsAt(d, r) # None
  PROVE  LET models == ListModelsAt(d, r)
         IN  /\ 1 \in DOMAIN models
             /\ \A i \in DOMAIN models :
                  \/ models[i] = FallbackModel
                  \/ /\ r.kind = "list"
                     /\ \E j \in DOMAIN r.entries :
                          Parsed(d, r.entries[j]) /\ models[i] = ModelOf(d, r.entries[j])
<1> DEFINE models == ListModelsAt(d, r)
<1>1. models = ListModelsWith(d, r)
  BY DEF ListModelsAt
<1>2. CASE models = <<FallbackModel>>
  <2>1. DOMAIN models = {1} /\ models[1] = FallbackModel
    BY <1>2
  <2> QED BY <2>1
<1>3. CASE r.kind = "list" /\ models = ParseModels(d, r.entries) /\ models # <<>>
  <2>1. Len(r.entries) \in Nat /\ DOMAIN r.entries = 1..Len(r.entries)
    BY <1>3, ResponsesOK
  <2> HIDE DEF models
  <2>2. /\ models = <<>> \/ 1 \in DOMAIN models
        /\ \A i \in DOMAIN models : \E j \in DOMAIN r.entries :
                  Parsed(d, r.entries[j]) /\ models[i] = ModelOf(d, r.entries[j])
    BY <1>3, <2>1, Parses
  <2> QED BY <1>3, <2>2 DEF models
<1>4. r.kind \in {"list", "not json", "failed"}
  BY ResponsesOK
<1>5. r.kind = "list" => models = <<FallbackModel>> \/ (models = ParseModels(d, r.entries) /\ models # <<>>)
  BY <1>1 DEF ListModelsWith
<1>6. r.kind = "failed" => models = <<FallbackModel>>
  BY <1>1 DEF ListModelsWith
<1>7. r.kind # "not json"
  BY <1>1 DEF ListModelsWith
<1> QED BY <1>2, <1>3, <1>4, <1>5, <1>6, <1>7

\* What a model says of itself is what its entry says, or nothing.
LEMMA Truthful ==
  ASSUME NEW d \in Dialects, NEW e, e.window \in Nat \cup {None}
  PROVE  LET model == ModelOf(d, e)
         IN  /\ model.id = e.id
             /\ model.tools \in {None, e.tools}
             /\ model.images \in {None, e.images}
             /\ model.reasoning \in {None, e.thinking}
             /\ model.window \in {None, e.window} \/ e.window >= U32
             /\ model.kind = "embedding" <=> d = "fireworks" /\ e.kind = "EMBEDDING_MODEL"
<1>1. Narrow(e.window) \in {None, e.window} \/ e.window >= U32
  <2>1. CASE e.window = None
    BY <2>1 DEF Narrow
  <2>2. CASE e.window # None /\ e.window < U32
    <3>1. e.window \in Nat /\ U32 \in Nat \ {0}
      BY <2>2, CatalogueConstantsOK
    <3>2. e.window % U32 = e.window
      BY <2>2, <3>1
    <3> QED BY <2>2, <3>2 DEF Narrow
  <2>3. CASE e.window # None /\ ~(e.window < U32)
    BY <2>3, CatalogueConstantsOK
  <2> QED BY <2>1, <2>2, <2>3
<1>2. CASE d = "anthropic"
  BY <1>2 DEF ModelOf, AnthropicModel, ModelInfo
<1>3. CASE d = "gemini"
  BY <1>1, <1>3 DEF ModelOf, GeminiModel, ModelInfo
<1>4. CASE d = "openai"
  BY <1>4 DEF ModelOf, OpenAiModel, ModelInfo
<1>5. CASE d = "fireworks"
  BY <1>1, <1>5 DEF ModelOf, FireworksModel, ModelInfo, ModelKind
<1> QED BY <1>2, <1>3, <1>4, <1>5 DEF Dialects

\* The models on screen were listed.
LEMMA OnScreen ==
  ASSUME Typed, NEW p \in Byok, Data(ModelsOf(p)) # NoData
  PROVE  \E r \in Responses :
           Data(ModelsOf(p)) = ListModelsAt(p, r) /\ ListModelsAt(p, r) # None
<1>1. ModelsOf(p) \in DOMAIN data /\ Data(ModelsOf(p)) = data[ModelsOf(p)]
  BY DEF Data
<1>2. data[ModelsOf(p)] \in Answers(ModelsOf(p))
  BY <1>1 DEF Typed, CacheTyped
<1> QED BY <1>1, <1>2, KeyKinds DEF Answers

\* A model select has an option, and each can be prompted, or is the provider's
\* default; and what a list says of a model the provider has published of it
\* (parse_models and list_models_with in manch-llm).
THEOREM OffersHold == DesktopDataSpec => []OffersTrue
<1>1. ASSUME NEW d \in Dialects, NEW r \in Responses, r.kind = "list", NEW i \in DOMAIN ListModelsAt(d, r)
      PROVE  LET models == ListModelsAt(d, r)
             IN  \/ models[i] = FallbackModel
                 \/ \E j \in DOMAIN r.entries : LET e == r.entries[j] IN
                      /\ e.id = models[i].id
                      /\ models[i].tools \in {None, e.tools}
                      /\ models[i].images \in {None, e.images}
                      /\ models[i].reasoning \in {None, e.thinking}
                      /\ models[i].window \in {None, e.window} \/ e.window >= U32
                      /\ models[i].kind = "embedding" <=> d = "fireworks" /\ e.kind = "EMBEDDING_MODEL"
  <2> DEFINE models == ListModelsAt(d, r)
  <2>0. CASE models = <<FallbackModel>>
    BY <1>1, <2>0
  <2>1. CASE models = ParseModels(d, r.entries)
    <3>1. Len(r.entries) \in Nat /\ DOMAIN r.entries = 1..Len(r.entries)
      BY <1>1, ResponsesOK
    <3>2. PICK j \in DOMAIN r.entries : models[i] = ModelOf(d, r.entries[j])
      BY <1>1, <2>1, <3>1, Parses, SMTT(30)
    <3>3. r.entries[j].window \in Nat \cup {None}
      BY <1>1, ResponsesOK
    <3> DEFINE e == r.entries[j]
    <3> HIDE DEF models
    <3>4. /\ e.id = models[i].id
          /\ models[i].tools \in {None, e.tools}
          /\ models[i].images \in {None, e.images}
          /\ models[i].reasoning \in {None, e.thinking}
          /\ models[i].window \in {None, e.window} \/ e.window >= U32
          /\ models[i].kind = "embedding" <=> d = "fireworks" /\ e.kind = "EMBEDDING_MODEL"
      BY <3>2, <3>3, Truthful
    <3> QED BY <3>4 DEF models
  <2>2. models = <<FallbackModel>> \/ models = ParseModels(d, r.entries)
    BY <1>1 DEF ListModelsAt, ListModelsWith
  <2> QED BY <2>0, <2>1, <2>2
<1>2. ASSUME Typed, NEW p \in Byok, Data(ModelsOf(p)) # NoData
      PROVE  LET models == Data(ModelsOf(p))
             IN  /\ models # <<>>
                 /\ \A i \in DOMAIN models :
                      \/ models[i] = FallbackModel
                      \/ \E r \in Responses : r.kind = "list" /\ \E j \in DOMAIN r.entries :
                           r.entries[j].id = models[i].id /\ r.entries[j].chat
  <2>1. PICK r \in Responses : Data(ModelsOf(p)) = ListModelsAt(p, r) /\ ListModelsAt(p, r) # None
    BY <1>2, OnScreen
  <2> DEFINE models == Data(ModelsOf(p))
  <2>2. p \in Dialects
    BY DesktopDataConstantsOK
  <2>3. /\ 1 \in DOMAIN models
        /\ \A i \in DOMAIN models :
             \/ models[i] = FallbackModel
             \/ /\ r.kind = "list"
                /\ \E j \in DOMAIN r.entries :
                     Parsed(p, r.entries[j]) /\ models[i] = ModelOf(p, r.entries[j])
    BY <2>1, <2>2, Lists
  <2> HIDE DEF models
  <2>4. models # <<>>
    BY <2>3
  <2>5. ASSUME NEW i \in DOMAIN models, models[i] # FallbackModel
        PROVE  \E j \in DOMAIN r.entries : r.kind = "list" /\ r.entries[j].id = models[i].id /\ r.entries[j].chat
    <3>1. PICK j \in DOMAIN r.entries : Parsed(p, r.entries[j]) /\ models[i] = ModelOf(p, r.entries[j])
      BY <2>3, <2>5
    <3>2. r.kind = "list"
      BY <2>3, <2>5
    <3>3. r.entries[j].chat /\ r.entries[j].window \in Nat \cup {None}
      BY <3>1, <3>2, ResponsesOK
    <3>4. models[i].id = r.entries[j].id
      BY <2>2, <3>1, <3>3, Truthful
    <3> QED BY <3>2, <3>3, <3>4
  <2> QED BY <2>4, <2>5 DEF models
<1>3. Typed => OffersTrue
  <2> SUFFICES ASSUME Typed PROVE OffersTrue
    OBVIOUS
  <2>1. \A r \in Served : r \in Responses /\ r.kind = "list"
    BY DEF Served
  <2> QED BY <1>1, <1>2, <2>1 DEF OffersTrue
<1> QED BY TypedInit, TypedStep, <1>3, PTL DEF DesktopDataSpec

-----------------------------------------------------------------------------
(* The select shows the model in use.                                       *)

\* A list on screen has an option, and every option is a model's id.
LEMMA Options ==
  ASSUME Typed, NEW p \in Byok, Data(ModelsOf(p)) # NoData
  PROVE  /\ FirstOption(p) \in OptionIds(p)
         /\ None \notin OptionIds(p) /\ NoData \notin OptionIds(p)
<1> DEFINE models == Data(ModelsOf(p))
<1>1. PICK r \in Responses : models = ListModelsAt(p, r) /\ ListModelsAt(p, r) # None
  BY OnScreen
<1>2. p \in Dialects
  BY DesktopDataConstantsOK
<1>3. /\ 1 \in DOMAIN models
      /\ \A i \in DOMAIN models :
           \/ models[i] = FallbackModel
           \/ /\ r.kind = "list"
              /\ \E j \in DOMAIN r.entries :
                   Parsed(p, r.entries[j]) /\ models[i] = ModelOf(p, r.entries[j])
  BY <1>1, <1>2, Lists
<1> HIDE DEF models
<1>4. ASSUME NEW i \in DOMAIN models PROVE models[i].id \notin {None, NoData}
  <2>1. CASE models[i] = FallbackModel
    <3>1. models[i].id = Fallback
      BY <2>1 DEF FallbackModel, ModelInfo
    <3> QED BY <3>1, SignsApart
  <2>2. CASE models[i] # FallbackModel
    <3>1. PICK j \in DOMAIN r.entries : Parsed(p, r.entries[j]) /\ models[i] = ModelOf(p, r.entries[j])
      BY <1>3, <2>2
    <3>2. r.kind = "list"
      BY <1>3, <2>2
    <3>3. r.entries[j].id # NoData /\ r.entries[j].window \in Nat \cup {None}
      BY <3>1, <3>2, ResponsesOK
    <3>4. models[i].id = r.entries[j].id
      BY <1>2, <3>1, <3>3, Truthful
    <3> QED BY <3>1, <3>3, <3>4 DEF Parsed
  <2> QED BY <2>1, <2>2
<1>5. OptionIds(p) = {models[i].id : i \in DOMAIN models} /\ FirstOption(p) = models[1].id
  BY DEF OptionIds, FirstOption, models
<1> QED BY <1>3, <1>4, <1>5

\* A key of a select is a model's id.
LEMMA Defaults ==
  ASSUME Typed, NEW p \in Byok, Data(ModelsOf(p)) # NoData
  PROVE  DefaultModel(p) # NoData
BY Options DEF DefaultModel

\* A select is a record of three.
LEMMA SelectIs ==
  ASSUME Typed, NEW p \in Byok
  PROVE  select[p] = [key |-> select[p].key, value |-> select[p].value, lost |-> select[p].lost]
BY DEF Typed, PageTyped

\* The settings show a select for a provider whose saved choice is asked for.
LEMMA OnSettings ==
  ASSUME Typed, NEW p \in Byok
  PROVE  SavedModel(p) \in Observed <=> page = "settings" /\ p \in ByokConfigured
<1>1. \A q, of : Key(q, of).query = q /\ Key(q, of).of = of
  BY KeyKinds
<1>2. SavedModel(p).query = "savedModel" /\ SavedModel(p).of = p
  BY KeyKinds
<1>3. SavedModel(p) \notin {Workspaces, Configured}
  BY <1>2, KeyKinds
<1>4. CASE page = "settings"
  <2>1. SavedModel(p) \in PageKeys <=> \E q \in ByokConfigured : SavedModel(p) \in {ModelsOf(q), SavedModel(q)}
    BY <1>3, <1>4 DEF PageKeys
  <2>2. ASSUME NEW q \in ByokConfigured, SavedModel(p) \in {ModelsOf(q), SavedModel(q)}
        PROVE  p \in ByokConfigured
    <3>1. ModelsOf(q).query = "models" /\ SavedModel(q).of = q
      BY <1>1 DEF ModelsOf, SavedModel
    <3> QED BY <1>2, <2>2, <3>1
  <2>3. SavedModel(p) \in PageKeys <=> p \in ByokConfigured
    BY <2>1, <2>2
  <2> QED BY <1>2, <1>3, <1>4, <2>3 DEF Observed
<1>5. CASE page # "settings"
  <2>1. page \in {"chat", "team", "teams", "schedule"}
    BY <1>5, DesktopDataConstantsOK DEF Typed, PageTyped
  <2>2. CASE page = "chat"
    BY <1>3, <1>5, <2>2 DEF Observed, PageKeys
  <2>3. CASE page = "team"
    <3>1. PageKeys = {Key("team", opened)} /\ Key("team", opened).query = "team"
      BY <1>1, <2>3 DEF PageKeys
    <3> QED BY <1>2, <1>3, <1>5, <3>1 DEF Observed
  <2>4. CASE page = "teams"
    <3>1. PageKeys = {Configured, Key("teams", active)} /\ Key("teams", active).query = "teams"
      BY <1>1, <2>4 DEF PageKeys
    <3> QED BY <1>2, <1>3, <1>5, <3>1 DEF Observed
  <2>5. CASE page = "schedule"
    <3>1. PageKeys = {Key("schedules", active)} /\ Key("schedules", active).query = "schedules"
      BY <1>1, <2>5 DEF PageKeys
    <3> QED BY <1>2, <1>3, <1>5, <3>1 DEF Observed
  <2> QED BY <2>1, <2>2, <2>3, <2>4, <2>5
<1> QED BY <1>4, <1>5

\* A select that a render leaves on screen: made anew, or kept for its key.
LEMMA Rendering ==
  ASSUME Typed, NEW p \in Byok
  PROVE  LET s == SelectOf(p)
         IN  /\ s # NoSelect => HasSelect(p) /\ s.key = DefaultModel(p)
             /\ HasSelect(p) => s # NoSelect
             /\ s # NoSelect /\ s.key = saved[p] /\ ~s.lost =>
                  s.value = saved[p] \/ (s.value = select[p].value /\ s.key = select[p].key
                                          /\ ~select[p].lost /\ select[p] # NoSelect)
             /\ HasSelect(p) /\ select[p] # NoSelect /\ select[p].key = DefaultModel(p)
                  /\ (select[p].value = saved[p] \/ select[p].lost) =>
                  s.value = saved[p] \/ s.lost
<1> DEFINE s == SelectOf(p)
<1>1. CASE ~HasSelect(p)
  <2>1. s = NoSelect
    BY <1>1 DEF SelectOf
  <2> QED BY <1>1, <2>1
<1>2. CASE HasSelect(p) /\ (select[p] = NoSelect \/ select[p].key # DefaultModel(p))
  <2>1. s = Made(p)
    BY <1>2 DEF SelectOf
  <2>2. /\ s.key = DefaultModel(p)
        /\ s.value = Showing(p, DefaultModel(p))
        /\ s.lost <=> DefaultModel(p) \notin OptionIds(p)
    <3>1. CASE DefaultModel(p) \in OptionIds(p)
      <4>1. Made(p) = [key |-> DefaultModel(p), value |-> Showing(p, DefaultModel(p)), lost |-> FALSE]
        BY <3>1 DEF Made
      <4> QED BY <2>1, <3>1, <4>1
    <3>2. CASE DefaultModel(p) \notin OptionIds(p)
      <4>1. Made(p) = [key |-> DefaultModel(p), value |-> Showing(p, DefaultModel(p)), lost |-> TRUE]
        BY <3>2 DEF Made
      <4> QED BY <2>1, <3>2, <4>1
    <3> QED BY <3>1, <3>2
  <2>3. DefaultModel(p) # NoData
    BY <1>2, Defaults DEF HasSelect
  <2> HIDE DEF s
  <2>4. s # NoSelect
    BY <2>2, <2>3 DEF NoSelect
  <2> QED BY <1>2, <2>2, <2>4 DEF s, Showing
<1>3. CASE HasSelect(p) /\ select[p] # NoSelect /\ select[p].key = DefaultModel(p)
  <2>1. s = [select[p] EXCEPT !.value = Showing(p, @), !.lost = @ \/ select[p].value \notin OptionIds(p)]
    BY <1>3 DEF SelectOf
  <2>2. select[p] = [key |-> select[p].key, value |-> select[p].value, lost |-> select[p].lost]
    BY SelectIs
  <2>3. /\ s.key = DefaultModel(p)
        /\ s.value = Showing(p, select[p].value)
        /\ s.lost <=> select[p].lost \/ select[p].value \notin OptionIds(p)
    <3>1. CASE select[p].lost \/ select[p].value \notin OptionIds(p)
      <4>1. s = [key |-> select[p].key, value |-> Showing(p, select[p].value), lost |-> TRUE]
        BY <2>1, <2>2, <3>1
      <4> HIDE DEF s
      <4> QED BY <1>3, <3>1, <4>1
    <3>2. CASE ~(select[p].lost \/ select[p].value \notin OptionIds(p))
      <4>1. s = [key |-> select[p].key, value |-> Showing(p, select[p].value), lost |-> FALSE]
        BY <2>1, <2>2, <3>2
      <4> HIDE DEF s
      <4> QED BY <1>3, <3>2, <4>1
    <3> QED BY <3>1, <3>2
  <2>4. DefaultModel(p) # NoData
    BY <1>3, Defaults DEF HasSelect
  <2> HIDE DEF s
  <2>5. s # NoSelect
    BY <2>3, <2>4 DEF NoSelect
  <2> QED BY <1>3, <2>3, <2>5 DEF s, Showing
<1> QED BY <1>1, <1>2, <1>3

\* A step that leaves select and saved choice, and ends no fetch, keeps them.
LEMMA SelectsKept ==
  ASSUME Selects, UNCHANGED <<data, mounted, saved, select, raced>>, DOMAIN fetch \subseteq DOMAIN fetch'
  PROVE  Selects'
<1> SUFFICES ASSUME NEW p \in Byok PROVE SelectsAt(p)'
  BY DEF Selects
<1>1. SelectsAt(p)
  BY DEF Selects
<1>2. HasSaved(p)' => HasSaved(p)
  BY DEF HasSaved, InFlight
<1>3. /\ \A k : Data(k)' = Data(k)
      /\ DefaultModel(p)' = DefaultModel(p)
  BY DEF Data, DefaultModel, FirstOption
<1> QED BY <1>1, <1>2, <1>3 DEF SelectsAt

\* A render keeps a select, or makes one for the choice it has.
LEMMA SelectsRendered ==
  ASSUME Typed, Selects, Render
  PROVE  Selects'
<1> SUFFICES ASSUME NEW p \in Byok PROVE SelectsAt(p)'
  BY DEF Selects
<1> DEFINE S == SavedModel(p)
           s == SelectOf(p)
<1>1. SelectsAt(p)
  BY DEF Selects
<1>2. /\ mounted' = Observed
      /\ fetch' = Ask({k \in Observed \ mounted : ~InFlight(k)})
      /\ select' = [q \in Byok |-> SelectOf(q)]
      /\ data' = data /\ saved' = saved /\ raced' = raced
  BY DEF Render, dbVars
<1>3. select'[p] = s
  BY <1>2
<1>4. /\ \A k : Data(k)' = Data(k)
      /\ DefaultModel(p)' = DefaultModel(p)
  BY <1>2 DEF Data, DefaultModel, FirstOption
<1>5. HasSaved(p)' => HasSaved(p) /\ S \in Observed
  <2>1. HasSaved(p)' <=> S \in Observed /\ S \notin DOMAIN fetch'
    BY <1>2 DEF HasSaved, InFlight
  <2>2. DOMAIN fetch' = DOMAIN fetch \cup {k \in Observed \ mounted : ~InFlight(k)}
    BY <1>2, AskDoes
  <2> HIDE DEF S
  <2>3. S \in Observed /\ S \notin DOMAIN fetch' => S \in mounted /\ ~InFlight(S)
    BY <2>2 DEF InFlight
  <2> QED BY <2>1, <2>3 DEF HasSaved, S
<1>6. /\ s # NoSelect => HasSelect(p) /\ s.key = DefaultModel(p)
      /\ HasSelect(p) => s # NoSelect
      /\ s # NoSelect /\ s.key = saved[p] /\ ~s.lost =>
           s.value = saved[p] \/ (s.value = select[p].value /\ s.key = select[p].key
                                   /\ ~select[p].lost /\ select[p] # NoSelect)
      /\ HasSelect(p) /\ select[p] # NoSelect /\ select[p].key = DefaultModel(p)
           /\ (select[p].value = saved[p] \/ select[p].lost) =>
           s.value = saved[p] \/ s.lost
  BY Rendering
<1>7. S \in Observed <=> page = "settings" /\ p \in ByokConfigured
  BY OnSettings
<1>8. HasSelect(p) <=> S \in Observed /\ Data(ModelsOf(p)) # NoData
  BY <1>7 DEF HasSelect
<1> HIDE DEF s, S
<1>9. (HasSaved(p) => Data(S) # NoData)'
  BY <1>1, <1>4, <1>5 DEF SelectsAt, S
<1>10. ASSUME s # NoSelect
       PROVE  /\ S \in mounted'
              /\ Data(ModelsOf(p)) # NoData
              /\ s.key = saved[p] /\ ~s.lost => s.value = saved[p]
  <2>1. S \in mounted' /\ Data(ModelsOf(p)) # NoData
    BY <1>2, <1>6, <1>8, <1>10
  <2>2. ASSUME s.key = saved[p], ~s.lost PROVE s.value = saved[p]
    BY <1>1, <1>6, <1>10, <2>2 DEF SelectsAt
  <2> QED BY <2>1, <2>2
<1>11. ASSUME HasSaved(p)', p \notin raced, Data(S) # saved[p]
       PROVE  /\ s # NoSelect
              /\ s.value = saved[p] \/ s.lost
              /\ s.key = DefaultModel(p)
  <2>1. /\ select[p] # NoSelect
        /\ select[p].value = saved[p] \/ select[p].lost
        /\ select[p].key = DefaultModel(p)
        /\ Data(ModelsOf(p)) # NoData
    BY <1>1, <1>5, <1>11 DEF SelectsAt, S
  <2>2. HasSelect(p)
    BY <1>5, <1>8, <1>11, <2>1
  <2> QED BY <1>6, <2>1, <2>2
<1>12. /\ s # NoSelect =>
            /\ SavedModel(p) \in mounted'
            /\ Data(ModelsOf(p))' # NoData
            /\ s.key = saved'[p] /\ ~s.lost => s.value = saved'[p]
       /\ HasSaved(p)' /\ p \notin raced' /\ Data(SavedModel(p))' # saved'[p] =>
            /\ s # NoSelect
            /\ s.value = saved'[p] \/ s.lost
            /\ s.key = DefaultModel(p)'
  BY <1>2, <1>4, <1>10, <1>11 DEF S
<1> QED BY <1>3, <1>9, <1>12 DEF SelectsAt, S

\* An answer that comes in time brings the choice saved, or leaves the default
\* model what it is.
LEMMA SelectsArrived ==
  ASSUME Typed, Selects, NEW k \in DOMAIN fetch, Arrive(k)
  PROVE  Selects'
<1> SUFFICES ASSUME NEW p \in Byok PROVE SelectsAt(p)'
  BY DEF Selects
<1> DEFINE S == SavedModel(p)
           M == ModelsOf(p)
<1>1. SelectsAt(p)
  BY DEF Selects
<1>2. PICK rows \in IF k.query = "models" THEN ModelsAnswers(k.of) ELSE {fetch[k].rows} :
        /\ data' = IF rows = Failed THEN data ELSE With(data, k, rows)
        /\ raced' = IF Outdated(k, rows) THEN raced \cup {k.of}
                    ELSE IF k.query = "savedModel" THEN raced \ {k.of} ELSE raced
  BY DEF Arrive
<1>3. UNCHANGED <<saved, select, mounted>> /\ fetch' = Restrict(fetch, DOMAIN fetch \ {k})
  BY DEF Arrive, dbVars, pageVars
<1>4. DOMAIN fetch' = DOMAIN fetch \ {k}
  BY <1>3 DEF Restrict
<1>5. /\ k \in Keys /\ k = Key(k.query, k.of)
      /\ k.query = "savedModel" => k = SavedModel(k.of)
      /\ k.query = "models" => k = ModelsOf(k.of)
      /\ S.query = "savedModel" /\ S.of = p /\ M.query = "models" /\ M.of = p /\ S # M
  BY KeyKinds DEF Typed, CacheTyped, Fetches, Askable, SavedModel, ModelsOf
<1>6. \A j : Data(j)' = IF j = k /\ rows # Failed THEN rows ELSE Data(j)
  BY <1>2 DEF Data, With
<1>7. rows # Failed => rows # NoData
  <2>1. CASE k.query = "models"
    BY <1>2, <1>5, <2>1, KeyKinds, SignsApart DEF ModelsAnswers
  <2>2. CASE k.query # "models"
    <3>1. rows = fetch[k].rows /\ rows \in Answers(k)
      BY <1>2, <2>2 DEF Typed, CacheTyped, Fetches
    <3> QED BY <1>5, <3>1, AnswersSigned
  <2> QED BY <2>1, <2>2
<1> HIDE DEF S, M
<1>8. ASSUME select[p] # NoSelect PROVE Data(M)' # NoData
  BY <1>1, <1>6, <1>7, <1>8 DEF SelectsAt, M
<1>9. CASE k = S
  <2>1. rows = fetch[k].rows /\ rows \in Answers(k)
    BY <1>2, <1>5, <1>9 DEF Typed, CacheTyped, Fetches
  <2>2. rows # Failed /\ Data(S)' = rows
    BY <1>5, <1>6, <1>9, <2>1, AnswersSigned
  <2>3. Read(k) = saved[p]
    BY <1>5, <1>9 DEF Read, GetModel
  <2>4. rows # saved[p] => p \in raced'
    BY <1>2, <1>5, <1>9, <2>3 DEF Outdated
  <2>5. /\ Data(S)' # NoData
        /\ p \notin raced' => Data(S)' = saved'[p]
    BY <1>3, <1>7, <2>2, <2>4
  <2> QED BY <1>1, <1>3, <1>8, <2>5 DEF SelectsAt, S, M
<1>10. CASE k # S
  <2>1. HasSaved(p)' => HasSaved(p)
    BY <1>3, <1>4, <1>10 DEF HasSaved, InFlight, S
  <2>2. Data(S)' = Data(S)
    BY <1>6, <1>10
  <2>3. p \notin raced' => p \notin raced /\ (k = M => ~Outdated(k, rows))
    BY <1>2, <1>5, <1>10 DEF S, M
  <2>4. ASSUME HasSaved(p), p \notin raced', Data(S) # saved[p]
        PROVE  DefaultModel(p)' = DefaultModel(p)
    <3>1. select[p] # NoSelect /\ Data(M) # NoData /\ Data(S) # NoData
      BY <1>1, <2>3, <2>4 DEF SelectsAt, S, M
    <3>2. CASE Data(S) # None
      BY <2>2, <3>1, <3>2 DEF DefaultModel, S
    <3>3. CASE Data(S) = None
      <4>1. DefaultModel(p) = Data(M)[1].id /\ DefaultModel(p)' = Data(M)'[1].id
        BY <2>2, <3>3 DEF DefaultModel, FirstOption, S, M
      <4>2. CASE k = M /\ rows # Failed
        <5>1. ~Outdated(k, rows) /\ saved[p] # None
          BY <2>3, <2>4, <3>3, <4>2
        <5>2. rows[1].id = Data(M)[1].id
          BY <1>5, <3>1, <3>3, <4>2, <5>1 DEF Outdated, FirstOption, S, M
        <5> QED BY <1>6, <4>1, <4>2, <5>2
      <4>3. CASE ~(k = M /\ rows # Failed)
        BY <1>6, <4>1, <4>3
      <4> QED BY <4>2, <4>3
    <3> QED BY <3>2, <3>3
  <2>5. /\ HasSaved(p)' => Data(S)' # NoData
        /\ select'[p] # NoSelect =>
             /\ S \in mounted'
             /\ Data(M)' # NoData
             /\ select'[p].key = saved'[p] /\ ~select'[p].lost => select'[p].value = saved'[p]
    BY <1>1, <1>3, <1>8, <2>1, <2>2 DEF SelectsAt, S, M
  <2>6. HasSaved(p)' /\ p \notin raced' /\ Data(S)' # saved'[p] =>
          /\ select'[p] # NoSelect
          /\ select'[p].value = saved'[p] \/ select'[p].lost
          /\ select'[p].key = DefaultModel(p)'
    BY <1>1, <1>3, <2>1, <2>2, <2>3, <2>4 DEF SelectsAt, S
  <2> QED BY <2>5, <2>6 DEF SelectsAt, S, M
<1> QED BY <1>9, <1>10

\* A pick saves what the select shows, made for the choice the page has.
LEMMA SelectsPicked ==
  ASSUME Typed, Selects, NEW call, Mutated(call), Picked
  PROVE  Selects'
<1>1. UNCHANGED <<data, mounted, fetch, raced>>
  BY DEF Mutated, cacheVars
<1>2. CASE UNCHANGED <<saved, select>>
  BY <1>1, <1>2, SelectsKept
<1>3. ASSUME NEW q \in Byok, NEW model \in Models,
             select[q] # NoSelect,
             saved' = [saved EXCEPT ![q] = model],
             select' = [select EXCEPT ![q].value = model, ![q].lost = FALSE]
      PROVE  Selects'
  <2> SUFFICES ASSUME NEW p \in Byok PROVE SelectsAt(p)'
    BY DEF Selects
  <2>1. SelectsAt(p)
    BY DEF Selects
  <2>2. /\ \A k : Data(k)' = Data(k)
        /\ DefaultModel(p)' = DefaultModel(p)
        /\ HasSaved(p)' <=> HasSaved(p)
    BY <1>1 DEF Data, DefaultModel, FirstOption, HasSaved, InFlight
  <2>3. DOMAIN saved = Byok /\ DOMAIN select = Byok
    BY DEF Typed, TablesTyped, DatabaseTypeOK, PageTyped
  <2>4. CASE p # q
    <3>1. saved'[p] = saved[p] /\ select'[p] = select[p]
      BY <1>3, <2>3, <2>4
    <3> QED BY <1>1, <2>1, <2>2, <3>1 DEF SelectsAt
  <2>5. CASE p = q
    <3>1. saved'[p] = model
      BY <1>3, <2>3, <2>5
    <3>2. select'[p] = [[select[p] EXCEPT !.value = model] EXCEPT !.lost = FALSE]
      BY <1>3, <2>3, <2>5
    <3>3. select[p] = [key |-> select[p].key, value |-> select[p].value, lost |-> select[p].lost]
      BY SelectIs
    <3>4. select'[p] = [key |-> select[p].key, value |-> model, lost |-> FALSE]
      BY <3>2, <3>3
    <3>5. select[p] = SelectOf(p)
      BY DEF Mutated, Rendered
    <3>6. select[p].key = DefaultModel(p) /\ HasSelect(p)
      BY <1>3, <2>5, <3>5, Rendering
    <3>7. select[p].key # NoData
      BY <3>6, Defaults DEF HasSelect
    <3>8. select'[p] # NoSelect
      BY <3>4, <3>7 DEF NoSelect
    <3>9. SavedModel(p) \in mounted' /\ Data(ModelsOf(p))' # NoData
      BY <1>1, <1>3, <2>1, <2>2, <2>5 DEF SelectsAt
    <3>10. HasSaved(p)' => Data(SavedModel(p))' # NoData
      BY <2>1, <2>2 DEF SelectsAt
    <3>11. select'[p].value = saved'[p] /\ select'[p].key = DefaultModel(p)'
      BY <2>2, <3>1, <3>4, <3>6
    <3> QED BY <3>8, <3>9, <3>10, <3>11 DEF SelectsAt
  <2> QED BY <2>4, <2>5
<1> QED BY <1>2, <1>3 DEF Picked

\* Every step keeps the selects.
LEMMA SelectsStep ==
  ASSUME Typed, Selects, [DesktopDataNext]_vars
  PROVE  Selects'
<1>1. ASSUME NEW n \in DOMAIN calls, Invalidate(n) PROVE Selects'
  <2>1. Refetch(Invalidates(calls[n])) /\ UNCHANGED <<dbVars, data, mounted, pageVars, raced>>
    BY <1>1 DEF Invalidate
  <2>2. DOMAIN fetch \subseteq DOMAIN fetch'
    BY <2>1, RefetchDoes
  <2> QED BY <2>1, <2>2, SelectsKept DEF dbVars, pageVars
<1>2. ASSUME NEW n \in DOMAIN calls, Return(n) \/ Refuse(n) PROVE Selects'
  BY <1>2, SelectsKept DEF Return, Refuse, dbVars, cacheVars, pageVars
<1>3. ASSUME NEW i, ChooseWorkspace(i) PROVE Selects'
  BY <1>3, SelectsKept DEF ChooseWorkspace, dbVars, cacheVars
<1>4. ASSUME NEW route, Visit(route) PROVE Selects'
  BY <1>4, SelectsKept DEF Visit, dbVars, cacheVars
<1>5. ASSUME Focus PROVE Selects'
  <2>1. /\ fetch' = Ask({k \in mounted : ~InFlight(k)})
        /\ UNCHANGED <<dbVars, data, mounted, pageVars, raced>>
    BY <1>5 DEF Focus
  <2>2. DOMAIN fetch \subseteq DOMAIN fetch'
    BY <2>1, AskDoes
  <2> QED BY <2>1, <2>2, SelectsKept DEF dbVars, pageVars
<1>6. ASSUME Restart PROVE Selects'
  <2>1. mounted' = {} /\ \A p \in Byok : select'[p] = NoSelect
    BY <1>6 DEF Restart
  <2> QED BY <2>1 DEF Selects, SelectsAt, HasSaved
<1>7. ASSUME UNCHANGED vars PROVE Selects'
  BY <1>7, SelectsKept DEF vars, dbVars, cacheVars, pageVars
<1>8. ASSUME (\E call : Mutated(call)) /\ Picked PROVE Selects'
  BY <1>8, SelectsPicked
<1>9. ASSUME NEW n \in DOMAIN calls, Invalidate(n) \/ Return(n) \/ Refuse(n) PROVE Selects'
  BY <1>1, <1>2, <1>9
<1> QED BY <1>3, <1>4, <1>5, <1>6, <1>7, <1>8, <1>9, SelectsRendered, SelectsArrived, Steps

\* There is none at the start.
LEMMA SelectsInit ==
  ASSUME DesktopDataInit
  PROVE  Selects
<1>1. mounted = {} /\ \A p \in Byok : select[p] = NoSelect
  BY DEF DesktopDataInit
<1> QED BY <1>1 DEF Selects, SelectsAt, HasSaved

\* Once nothing is under way the model select shows the model that prompts use,
\* though list and saved choice load in either order and are asked for again
\* (ProviderSettings.tsx); excepted are the answers Outdated describes and a
\* list that did not have the option for a while.
THEOREM SelectHolds == DesktopDataSpec => []SelectShowsUse
<1>1. Typed /\ Selects => SelectShowsUse
  <2> SUFFICES ASSUME Typed, Selects, Quiet, NEW p \in Byok,
                      select[p] # NoSelect, ~select[p].lost, p \notin raced, saved[p] \in OptionIds(p)
               PROVE  select[p].value = saved[p]
    BY DEF SelectShowsUse
  <2>1. SelectsAt(p)
    BY DEF Selects
  <2>2. select[p] = SelectOf(p) /\ fetch = <<>>
    BY DEF Quiet, Rendered
  <2>3. SavedModel(p) \in mounted /\ Data(ModelsOf(p)) # NoData
    BY <2>1 DEF SelectsAt
  <2>4. ~InFlight(SavedModel(p))
    <3>1. DOMAIN fetch = {}
      BY <2>2
    <3> QED BY <3>1 DEF InFlight
  <2>5. HasSaved(p) /\ select[p].key = DefaultModel(p)
    BY <2>2, <2>3, <2>4, Rendering DEF HasSaved
  <2>6. CASE Data(SavedModel(p)) = saved[p]
    <3>1. saved[p] # None /\ Data(SavedModel(p)) # NoData
      BY <2>1, <2>3, <2>5, Options DEF SelectsAt
    <3>2. DefaultModel(p) = saved[p]
      BY <2>6, <3>1 DEF DefaultModel
    <3> QED BY <2>1, <2>5, <3>2 DEF SelectsAt
  <2>7. CASE Data(SavedModel(p)) # saved[p]
    BY <2>1, <2>5, <2>7 DEF SelectsAt
  <2> QED BY <2>6, <2>7
<1> QED BY TypedInit, TypedStep, SelectsInit, SelectsStep, <1>1, PTL DEF DesktopDataSpec
=============================================================================
