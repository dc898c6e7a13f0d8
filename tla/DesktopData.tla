---------------------------- MODULE DesktopData ----------------------------
(***************************************************************************)
(* What the desktop keeps, shows and changes: workspaces, teams, schedules,  *)
(* keys and models, from the pages through the queries and mutations of      *)
(* queries.ts to the database.                                              *)
(*                                                                         *)
(* A query is known by its key.  The cache between page and backend is       *)
(* React Query's as queries.ts and main.tsx configure it: an answer is stale *)
(* at once, so every mount and every focus of the window asks again, and an  *)
(* invalidation replaces a fetch in flight, except the first of its key.     *)
(* Commands that await nothing run in the order in which they are invoked,   *)
(* so each is taken to run when it is invoked; its answer is a later step,   *)
(* in any order with the other answers.  list_models awaits the provider and *)
(* runs when it answers.  A render and its effects are one step.            *)
(***************************************************************************)
EXTENDS Database

CONSTANTS
  NoData,      \* no answer yet
  Failed,      \* an answer that is an error
  Responses,   \* what a provider may answer to list-models
  Renames,     \* names a user gives a workspace
  Pages,       \* the routes a run visits
  MaxVisits,   \* bound: pages the user opens
  MaxGestures  \* bound: what else the user does, starting the program again included

ASSUME DesktopDataConstantsOK ==
  /\ Pages \subseteq {"chat", "teams", "schedule", "settings"}
  /\ Ids # {}
  /\ Byok \subseteq Dialects \ {"fireworks"}
  /\ Renames \subseteq Nat
  /\ MaxVisits \in Nat /\ MaxGestures \in Nat

VARIABLES
  data,     \* key -> the last answer, for the keys that had one
  fetch,    \* key -> the fetch in flight, for the keys that have one
  joined,   \* history: keys whose last answer an invalidation met on its way
  mounted,  \* keys with an observer, as of the last render
  calls,    \* the mutations in the order they were called
  page,     \* the route
  opened,   \* the team of the route /teams/$teamId
  active,   \* activeWorkspaceIdAtom
  select,   \* provider -> the model select on screen
  wanted,   \* history: the workspace last chosen or created, until a list that an
            \* invalidation met on its way leads elsewhere
  raced,    \* history: providers whose saved model, or list, arrived out of date
  visits, gestures

cacheVars == <<data, fetch, joined, mounted>>
pageVars == <<page, opened, active, select, wanted>>
vars == <<dbVars, cacheVars, calls, pageVars, raced, visits, gestures>>

Key(query, of) == [query |-> query, of |-> of]
Workspaces == Key("workspaces", None)
Configured == Key("providers", None)
SavedModel(p) == Key("savedModel", p)
ModelsOf(p) == Key("models", p)

Keys ==
  {Workspaces, Configured}
    \cup {Key(q, i) : q \in {"teams", "schedules", "team"}, i \in Ids}
    \cup {Key(q, p) : q \in {"savedModel", "models"}, p \in Byok}

TeamRows == [workspace : Ids, members : Nat]

\* The signs of an absent value, or answer, are no values, and nothing a query
\* answers with: tables, sets, rows and models.
ASSUME SignsApart ==
  /\ None \notin Ids /\ None \notin Models /\ None # Fallback
  /\ NoData \notin Keys
  /\ \A sign \in {NoData, Failed} :
       /\ \A S \in SUBSET Ids :
            sign # S /\ sign \notin [S -> Nat] /\ sign \notin [S -> TeamRows]
       /\ \A S \in SUBSET Known : sign # S
       /\ sign \notin TeamRows \cup Models \cup {None}
  /\ NoData # Fallback
  /\ \A p \in Byok, r \in Responses : ListModelsAt(p, r) # NoData

\* Parsed(p, e): the dialect of p takes the entry for a model to prompt.
Parsed(p, e) ==
  /\ e.id # None
  /\ p = "gemini" => SupportsStreaming(e)
  /\ p = "openai" => IsChatModel(e)

\* Responses as JSON gives them.  What stands for chat in a dialect, a method of
\* Gemini, a family of ids of OpenAI, being listed at all by Anthropic, is not
\* found on a model that cannot be prompted (the comments on the parsers).
ASSUME ResponsesOK ==
  \A r \in Responses :
    /\ r.kind \in {"list", "not json", "failed"}
    /\ r.kind = "list" =>
         /\ Len(r.entries) \in Nat
         /\ DOMAIN r.entries = 1..Len(r.entries)
         /\ \A i \in DOMAIN r.entries :
              /\ r.entries[i].id # NoData
              /\ r.entries[i].window \in Nat \cup {None}
              /\ \A p \in Byok : Parsed(p, r.entries[i]) => r.entries[i].chat

\* The answer on screen for a query.
Data(k) == IF k \in DOMAIN data THEN data[k] ELSE NoData

\* The list_models command: without a saved key nothing is asked.
ModelsAnswers(p) ==
  IF GetKey(p) = None THEN {Failed}
  ELSE {LET models == ListModelsAt(p, r) IN IF models = None THEN Failed ELSE models :
          r \in Responses}

\* What the command of a query reads now; NoData for the one that awaits.
Read(k) ==
  CASE k.query = "workspaces" -> ListWorkspaces
    [] k.query = "providers" -> OfferableProviders
    [] k.query = "teams" -> ListTeams(k.of)
    [] k.query = "schedules" -> ListSchedules(k.of)
    [] k.query = "team" -> GetTeam(k.of)
    [] k.query = "savedModel" -> GetModel(k.of)
    [] k.query = "models" -> NoData

InFlight(k) == k \in DOMAIN fetch

\* The keys in ks are asked for, in place of any fetch in flight.
Ask(ks) ==
  [k \in DOMAIN fetch \cup ks |->
     IF k \in ks THEN [rows |-> Read(k), outrun |-> FALSE] ELSE fetch[k]]

-----------------------------------------------------------------------------
(* The screen.                                                              *)

\* isByokProvider of the configured providers.
ByokConfigured == IF Data(Configured) = NoData THEN {} ELSE Data(Configured) \cap Byok

\* The queries the page on screen subscribes to.
PageKeys ==
  CASE page = "teams" -> {Configured, Key("teams", active)}
    [] page = "schedule" -> {Key("schedules", active)}
    [] page = "team" -> {Key("team", opened)}
    [] page = "settings" ->
         {Configured} \cup UNION {{ModelsOf(p), SavedModel(p)} : p \in ByokConfigured}
    [] page = "chat" -> {Configured}

Observed == {Workspaces} \cup {k \in PageKeys : k.query \in {"teams", "schedules"} => active # None}

OptionIds(p) == {Data(ModelsOf(p))[i].id : i \in DOMAIN Data(ModelsOf(p))}
FirstOption(p) == Data(ModelsOf(p))[1].id

HasSelect(p) == page = "settings" /\ p \in ByokConfigured /\ Data(ModelsOf(p)) # NoData

\* selectedModels, else the first model listed.
DefaultModel(p) ==
  IF Data(SavedModel(p)) \in {NoData, None} THEN FirstOption(p) ELSE Data(SavedModel(p))

NoSelect == [key |-> NoData, value |-> NoData, lost |-> FALSE]

Showing(p, model) == IF model \in OptionIds(p) THEN model ELSE FirstOption(p)

\* A select made anew; lost (a history) says that the option it was to show was
\* missing, then or later.
Made(p) ==
  [key |-> DefaultModel(p), value |-> Showing(p, DefaultModel(p)),
   lost |-> DefaultModel(p) \notin OptionIds(p)]

\* The select kept from render to render, its first default included.
SelectKept(p) ==
  IF ~HasSelect(p) THEN NoSelect
  ELSE IF select[p] = NoSelect
       THEN Made(p)
       ELSE select[p]

\* The uncontrolled select: made anew when its key changes; one that loses the
\* option it shows falls back to the first.
SelectOf(p) ==
  IF ~HasSelect(p) THEN NoSelect
  ELSE IF select[p] = NoSelect \/ select[p].key # DefaultModel(p)
       THEN Made(p)
       ELSE [select[p] EXCEPT !.value = Showing(p, @), !.lost = @ \/ select[p].value \notin OptionIds(p)]

\* WorkspaceBar's effect, for a missing id only.
EffectOnNone == Data(Workspaces) \notin {NoData, <<>>} /\ active = None

\* WorkspaceBar's effect: the active id names no workspace listed.
EffectDue ==
  /\ Data(Workspaces) \notin {NoData, <<>>}
  /\ active \notin DOMAIN Data(Workspaces)

Rendered == mounted = Observed /\ (\A p \in Byok : select[p] = SelectOf(p)) /\ ~EffectDue

\* New observers ask, unless a fetch is under way.
Render ==
  /\ ~Rendered
  /\ mounted' = Observed
  /\ fetch' = Ask({k \in Observed \ mounted : ~InFlight(k)})
  /\ select' = [p \in Byok |-> SelectOf(p)]
  /\ active' \in IF EffectDue THEN First(Data(Workspaces)) ELSE {active}
  /\ wanted' = IF EffectDue /\ Workspaces \in joined THEN None ELSE wanted
  /\ UNCHANGED <<dbVars, data, joined, calls, page, opened, raced, visits, gestures>>

-----------------------------------------------------------------------------
(* Queries.                                                                 *)

\* An answer that leads the select astray: a saved choice that a pick overtook,
\* or a list with another first model while the first choice ever made is not
\* known to the page.
Outdated(k, rows) ==
  \/ k.query = "savedModel" /\ rows # Read(k)
  \/ /\ k.query = "models" /\ rows # Failed
     /\ Data(k) # NoData /\ rows[1].id # FirstOption(k.of)
     /\ Data(SavedModel(k.of)) = None /\ saved[k.of] # None

\* The answer reaches the cache; mutations that await it go on.
Arrive(k) ==
  /\ \E rows \in IF k.query = "models" THEN ModelsAnswers(k.of) ELSE {fetch[k].rows} :
       /\ data' = IF rows = Failed THEN data ELSE With(data, k, rows)
       /\ raced' = IF Outdated(k, rows) THEN raced \cup {k.of}
                   ELSE IF k.query = "savedModel" THEN raced \ {k.of} ELSE raced
  /\ joined' = IF fetch[k].outrun THEN joined \cup {k} ELSE joined \ {k}
  /\ fetch' = Restrict(fetch, DOMAIN fetch \ {k})
  /\ calls' = [n \in DOMAIN calls |->
                 IF calls[n].phase = "refreshing" /\ calls[n].awaits = k
                 THEN [calls[n] EXCEPT !.phase = "refreshed"] ELSE calls[n]]
  /\ UNCHANGED <<dbVars, mounted, pageVars, visits, gestures>>

\* invalidateQueries: a query on screen asks again.  The first load of a key,
\* and a fetch whose page was left, go on, and clear the mark when they arrive.
Refetch(k) ==
  LET goesOn == InFlight(k) /\ (k \notin mounted \/ Data(k) = NoData)
  IN  fetch' = IF goesOn
               THEN [fetch EXCEPT ![k].outrun = fetch[k].rows # Read(k)]
               ELSE Ask(mounted \cap {k})

-----------------------------------------------------------------------------
(* Mutations.                                                               *)

Call(op, of, value) ==
  [op |-> op, of |-> of, value |-> value, phase |-> "done", awaits |-> NoData,
   made |-> None, here |-> TRUE]

\* A call that is over; what it was about is forgotten.
Over(call) == [Call(call.op, None, None) EXCEPT !.phase = "over", !.here = FALSE]

\* The page that called is left: the state of its hooks goes with it.
Left == [n \in DOMAIN calls |-> [calls[n] EXCEPT !.here = FALSE]]

\* A delete that leaves the list as it is.
InvalidatesUnlessDeleted(call) ==
  CASE call.op \in {"create", "rename"} -> Workspaces
    [] call.op = "saveKey" -> Configured
    [] call.op = "team" -> Key("teams", call.of)
    [] call.op = "schedule" -> Key("schedules", call.of)
    [] OTHER -> NoData

\* The query each mutation invalidates; the teams and schedules are those of
\* the workspace the input named.
Invalidates(call) ==
  CASE call.op \in {"create", "rename", "delete"} -> Workspaces
    [] call.op = "saveKey" -> Configured
    [] call.op = "team" -> Key("teams", call.of)
    [] call.op = "schedule" -> Key("schedules", call.of)
    [] OTHER -> NoData

\* The command of a mutation runs.
Perform(call) ==
  CASE call.op = "create" -> CreateWorkspace(NewWorkspace)
    [] call.op = "rename" -> RenameWorkspace(call.of, call.value)
    [] call.op = "delete" -> DeleteWorkspace(call.of)
    [] call.op = "saveKey" -> SaveKey(call.of, call.value)
    [] call.op = "setModel" -> SetModel(call.of, call.value)
    [] call.op = "team" -> CreateTeam(call.of, call.value.auto, call.value.named)
    [] call.op = "schedule" -> CreateSchedule(call.of)

Fails(call) == call.op = "rename" /\ ~RenameFinds(call.of)

\* Slips.  An onSuccess that does not hand on the promise it starts.
InvalidateAndGoOn(n) ==
  /\ calls[n].phase = "done"
  /\ Refetch(Invalidates(calls[n]))
  /\ calls' = [calls EXCEPT ![n].phase = "refreshed"]
  /\ UNCHANGED <<dbVars, data, joined, mounted, pageVars, raced, visits, gestures>>

\* onSuccess of the hook: invalidateQueries, and its fetch awaited.
Invalidate(n) ==
  /\ calls[n].phase = "done"
  /\ LET k == Invalidates(calls[n])
     IN  /\ Refetch(k)
         /\ calls' = [calls EXCEPT ![n].awaits = k,
                                   ![n].phase = IF k \in mounted THEN "refreshing" ELSE "refreshed"]
  /\ UNCHANGED <<dbVars, data, joined, mounted, pageVars, raced, visits, gestures>>

\* The last call of a mutation on its hook: only its callbacks run.
Latest(n) == \A m \in DOMAIN calls : calls[m].op = calls[n].op => m <= n

\* onSuccess of mutate: the workspace created becomes the active one, the team
\* created is opened if its page is still there.
Return(n) ==
  /\ calls[n].phase = "refreshed"
  /\ LET call == calls[n]
         activates == call.op = "create" /\ Latest(n)
         opens == call.op = "team" /\ Latest(n) /\ call.here
     IN  /\ calls' = [IF opens THEN Left ELSE calls EXCEPT ![n] = Over(@)]
         /\ active' = IF activates THEN call.made ELSE active
         /\ wanted' = IF activates THEN call.made ELSE wanted
         /\ page' = IF opens THEN "team" ELSE page
         /\ opened' = IF opens THEN call.made ELSE opened
  /\ UNCHANGED <<dbVars, cacheVars, select, raced, visits, gestures>>

\* A mutation that failed has no callback.
Refuse(n) ==
  /\ calls[n].phase = "failed"
  /\ calls' = [calls EXCEPT ![n] = Over(@)]
  /\ UNCHANGED <<dbVars, cacheVars, pageVars, raced, visits, gestures>>

-----------------------------------------------------------------------------
(* The user.                                                                *)

Act == gestures < MaxGestures /\ gestures' = gestures + 1 /\ UNCHANGED visits

\* The user acts on a screen that shows the state.
Gesture == Rendered /\ Act

Mutate(call) ==
  /\ Gesture
  /\ Perform(call)
  /\ calls' = Append(calls, [call EXCEPT
                 !.phase = IF Fails(call) THEN "failed" ELSE "done",
                 !.made = IF used' = used THEN None ELSE NewId])
  /\ UNCHANGED <<cacheVars, page, opened, active, wanted, raced>>

\* A button disabled while its mutation is pending.
Enabled(op) ==
  \A n \in DOMAIN calls :
    calls[n].op = op /\ calls[n].here => calls[n].phase = "over"

Listed == IF Data(Workspaces) = NoData THEN {} ELSE DOMAIN Data(Workspaces)

ChooseWorkspace(i) ==
  /\ Gesture
  /\ i \in Listed \ {active}
  /\ active' = i
  /\ wanted' = i
  /\ UNCHANGED <<dbVars, cacheVars, calls, page, opened, select, raced>>

AddWorkspace == Mutate(Call("create", None, NewWorkspace)) /\ UNCHANGED select

Rename(i, name) ==
  page = "settings" /\ i \in Listed /\ Mutate(Call("rename", i, name)) /\ UNCHANGED select

Delete(i) ==
  page = "settings" /\ i \in Listed /\ Mutate(Call("delete", i, None)) /\ UNCHANGED select

EnterKey(p, key) ==
  page = "settings" /\ Enabled("saveKey") /\ Mutate(Call("saveKey", p, key)) /\ UNCHANGED select

\* onChange of the select.
PickModel(p, model) ==
  /\ select[p] # NoSelect
  /\ model \in OptionIds(p) \ {select[p].value}
  /\ select' = [select EXCEPT ![p].value = model, ![p].lost = FALSE]
  /\ Mutate(Call("setModel", p, model))

\* A team for whatever workspace is active, if any.
AddTeamAnywhere(auto, named) ==
  /\ page = "teams" /\ Enabled("team")
  /\ auto => named = 0
  /\ Mutate(Call("team", active, [auto |-> auto, named |-> named]))
  /\ UNCHANGED select

AddTeam(auto, named) ==
  /\ page = "teams" /\ active # None /\ Enabled("team")
  /\ auto => named = 0
  /\ Mutate(Call("team", active, [auto |-> auto, named |-> named]))
  /\ UNCHANGED select

AddSchedule ==
  /\ page = "schedule" /\ active # None /\ Enabled("schedule")
  /\ Mutate(Call("schedule", active, None))
  /\ UNCHANGED select

Visit(route) ==
  /\ Rendered
  /\ visits < MaxVisits
  /\ visits' = visits + 1
  /\ route # page
  /\ page' = route
  /\ calls' = Left
  /\ UNCHANGED <<dbVars, cacheVars, opened, active, select, wanted, raced, gestures>>

\* refetchOnWindowFocus.
Focus ==
  /\ Act
  /\ fetch' = Ask({k \in mounted : ~InFlight(k)})
  /\ UNCHANGED <<dbVars, data, joined, mounted, calls, pageVars, raced>>

\* The program ends and starts again: the database and the active id remain.
Restart ==
  /\ Act
  /\ SeedDefaults
  /\ data' = <<>>
  /\ fetch' = <<>>
  /\ joined' = {}
  /\ mounted' = {}
  /\ calls' = [n \in DOMAIN calls |-> Over(calls[n])]
  /\ page' = "chat"
  /\ opened' = None
  /\ select' = [p \in Byok |-> NoSelect]
  /\ raced' = {}
  /\ UNCHANGED <<active, wanted>>

-----------------------------------------------------------------------------
\* The first start, or a later one with keys and models saved before.
DesktopDataInit ==
  /\ used = {CHOOSE i \in Ids : TRUE}
  /\ workspaces = [i \in used |-> MyWorkspace]
  /\ teams = <<>>
  /\ schedules = <<>>
  /\ keys \in [Known -> Secrets \cup {None}]
  /\ \A p \in Cli : keys[p] = None
  /\ saved \in [Byok -> Models \cup {None}]
  /\ \A p \in Byok : keys[p] = None => saved[p] = None
  /\ data = <<>>
  /\ fetch = <<>>
  /\ joined = {}
  /\ mounted = {}
  /\ calls = <<>>
  /\ page = "chat"
  /\ opened = None
  /\ active = None
  /\ select = [p \in Byok |-> NoSelect]
  /\ wanted = None
  /\ raced = {}
  /\ visits = 0 /\ gestures = 0

Working ==
  \/ Render
  \/ \E k \in DOMAIN fetch : Arrive(k)
  \/ \E n \in DOMAIN calls : Invalidate(n) \/ Return(n) \/ Refuse(n)

User ==
  \/ \E i \in Ids : ChooseWorkspace(i) \/ Delete(i) \/ (\E name \in Renames : Rename(i, name))
  \/ AddWorkspace
  \/ \E p \in Known, key \in Secrets : EnterKey(p, key)
  \/ \E p \in Byok, model \in Models : PickModel(p, model)
  \/ \E auto \in BOOLEAN, named \in 0..1 : AddTeam(auto, named)
  \/ AddSchedule
  \/ \E route \in Pages : Visit(route)
  \/ Focus

DesktopDataNext == Working \/ User \/ Restart

DesktopDataSpec == DesktopDataInit /\ [][DesktopDataNext]_vars

-----------------------------------------------------------------------------
(* Properties.                                                              *)

Quiet ==
  /\ Rendered
  /\ fetch = <<>>
  /\ \A n \in DOMAIN calls : calls[n].phase = "over"

\* Every variable has its type.
TypeOK ==
  /\ DatabaseTypeOK
  /\ DOMAIN data \subseteq Keys /\ DOMAIN fetch \subseteq Keys
  /\ \A k \in DOMAIN fetch : fetch[k].outrun \in BOOLEAN
  /\ joined \subseteq Keys /\ mounted \subseteq Keys
  /\ \A n \in DOMAIN calls :
       calls[n].phase \in {"done", "failed", "refreshing", "refreshed", "over"}
  /\ page \in Pages \cup {"chat", "team"}
  /\ {opened, active, wanted} \subseteq Ids \cup {None}
  /\ raced \subseteq Byok

\* Once nothing is under way the lists on screen are those of the database,
\* whatever was changed while a fetch was in flight and whichever page was open
\* (onSuccess of the hooks in queries.ts); a list that an invalidation met on
\* its way, and that was not asked for again, is excepted, and so are the model
\* queries, which no mutation invalidates.
SettledTrue ==
  Quiet =>
    \A k \in mounted \ joined :
      k.query \notin {"models", "savedModel"} => Data(k) = Read(k)

\* Once nothing is under way the active workspace is one that is listed, if
\* any is (the effect of WorkspaceBar.tsx), and one of the database, if that has
\* any and the list is not one that an invalidation met on its way: after a
\* delete, after a restart with an id kept from before, after a create that was
\* overtaken.
ActiveExists ==
  Quiet =>
    /\ Listed # {} => active \in Listed
    /\ workspaces # <<>> /\ Workspaces \notin joined => active \in DOMAIN workspaces

\* The workspace the user last chose, or created, stays the active one for as
\* long as it exists: the effect must not take the user elsewhere because the
\* list does not show the new workspace yet (WorkspaceBar.tsx).  In one case the
\* code does move the user, and Render forgets the choice there: the
\* first load was answered before a create whose invalidation joined it instead
\* of asking again, so the list does not show the new workspace.
LastChosenActive ==
  wanted \in DOMAIN workspaces => active = wanted

\* Once nothing is under way the model select shows the model that prompts use
\* (get_model), though list and saved choice load in either order and are asked
\* for again (ProviderSettings.tsx); excepted are the answers Outdated describes
\* and a list that did not have the option for a while.
SelectShowsUse ==
  Quiet =>
    \A p \in Byok :
      /\ select[p] # NoSelect /\ ~select[p].lost
      /\ p \notin raced
      /\ saved[p] \in OptionIds(p)
      => select[p].value = saved[p]

\* The responses that may have been read for the lists on screen.
Served ==
  {r \in Responses :
     /\ r.kind = "list"
     /\ \E p \in Byok : select[p] # NoSelect /\ Data(ModelsOf(p)) = ListModelsAt(p, r)}

\* A model select has an option, and each can be prompted: the provider says
\* so, or it is the provider's default.  And of every response served, in
\* whichever dialect it is parsed, what the provider did not publish of a model
\* is unknown, never false or zero, and what it published is what is said of
\* the model, within the width of a u32.  (parse_models and list_models_with;
\* ModelInfo in manch-llm's lib.rs)
OffersTrue ==
  /\ \A p \in Byok : LET models == Data(ModelsOf(p)) IN
       models # NoData =>
         /\ models # <<>>
         /\ \A i \in DOMAIN models :
              \/ models[i] = FallbackModel
              \/ \E r \in Responses : r.kind = "list" /\ \E j \in DOMAIN r.entries :
                   r.entries[j].id = models[i].id /\ r.entries[j].chat
  /\ \A r \in Served, d \in Dialects : LET models == ListModelsAt(d, r) IN
       \A i \in DOMAIN models :
         \/ models[i] = FallbackModel
         \/ \E j \in DOMAIN r.entries : LET e == r.entries[j] IN
              /\ e.id = models[i].id
              /\ models[i].tools \in {None, e.tools}
              /\ models[i].images \in {None, e.images}
              /\ models[i].reasoning \in {None, e.thinking}
              /\ models[i].window \in {None, e.window} \/ e.window >= U32
              /\ models[i].kind = "embedding" <=> d = "fireworks" /\ e.kind = "EMBEDDING_MODEL"
=============================================================================
