------------------------------ MODULE Database ------------------------------
(***************************************************************************)
(* The desktop's database (db.rs) and the commands that are one statement   *)
(* on it (commands.rs).  A statement runs under the connection's mutex, so  *)
(* each is one step; what it answers is an operator beside it.              *)
(*                                                                         *)
(* A workspace is its name, a number in the order of names; a team is its   *)
(* workspace and how many members it has; a schedule its workspace.         *)
(***************************************************************************)
EXTENDS Catalogue, FiniteSets, Functions

CONSTANTS
  Ids,     \* bound: what new_id can issue
  Byok,    \* the providers with a key of the user's
  Cli,     \* the external agents
  Secrets, \* API keys
  Models   \* model ids

VARIABLES
  workspaces, \* id -> name
  teams,      \* id -> [workspace, members]
  schedules,  \* id -> workspace
  keys,       \* provider -> key or None
  saved,      \* provider -> model or None
  used        \* ids issued so far, over every run of the program

dbVars == <<workspaces, teams, schedules, keys, saved, used>>

\* What create_workspace and seed_defaults name a workspace.
MyWorkspace == 1
NewWorkspace == 2

Known == Byok \cup Cli

\* new_id: time and sequence number make it unlike any before.
NewId == CHOOSE id \in Ids : id \notin used

IssueId == used # Ids /\ used' = used \cup {NewId}

With(table, id, row) == [i \in DOMAIN table \cup {id} |-> IF i = id THEN row ELSE table[i]]

CreateWorkspace(name) ==
  /\ IssueId
  /\ workspaces' = With(workspaces, NewId, name)
  /\ UNCHANGED <<teams, schedules, keys, saved>>

\* An UPDATE that matches no row; the SELECT after it finds none and fails.
RenameFinds(id) == id \in DOMAIN workspaces

RenameWorkspace(id, name) ==
  /\ workspaces' = IF RenameFinds(id) THEN With(workspaces, id, name) ELSE workspaces
  /\ UNCHANGED <<teams, schedules, keys, saved, used>>

\* The workspace's row only: its teams and schedules stay.
DeleteWorkspace(id) ==
  /\ workspaces' = Restrict(workspaces, DOMAIN workspaces \ {id})
  /\ UNCHANGED <<teams, schedules, keys, saved, used>>

SeedDefaults ==
  IF workspaces = <<>> THEN CreateWorkspace(MyWorkspace) ELSE UNCHANGED dbVars

SaveKey(provider, key) ==
  /\ keys' = IF provider \in Known THEN [keys EXCEPT ![provider] = key] ELSE keys
  /\ UNCHANGED <<workspaces, teams, schedules, saved, used>>

SetModel(provider, model) ==
  /\ saved' = [saved EXCEPT ![provider] = model]
  /\ UNCHANGED <<workspaces, teams, schedules, keys, used>>

\* The members of a team nobody was named for.
Members(auto, named) == IF auto /\ named = 0 THEN 3 ELSE named

CreateTeam(workspace, auto, named) ==
  /\ IssueId
  /\ teams' = With(teams, NewId, [workspace |-> workspace, members |-> Members(auto, named)])
  /\ UNCHANGED <<workspaces, schedules, keys, saved>>

CreateSchedule(workspace) ==
  /\ IssueId
  /\ schedules' = With(schedules, NewId, workspace)
  /\ UNCHANGED <<workspaces, teams, keys, saved>>

-----------------------------------------------------------------------------
(* The queries.                                                             *)

ListWorkspaces == workspaces

\* The first row of ORDER BY name; rows of one name come in any order.
First(rows) == {i \in DOMAIN rows : \A j \in DOMAIN rows : rows[i] <= rows[j]}

ListTeams(workspace) ==
  Restrict(teams, {i \in DOMAIN teams : teams[i].workspace = workspace})

ListSchedules(workspace) == {i \in DOMAIN schedules : schedules[i] = workspace}

GetTeam(id) == IF id \in DOMAIN teams THEN teams[id] ELSE None

GetKey(provider) == keys[provider]
GetModel(provider) == saved[provider]
ListProviders == {p \in Known : GetKey(p) # None}

\* offerable_providers: the external agents bring their own keys.
OfferableProviders == ListProviders \cup Cli

DatabaseTypeOK ==
  /\ DOMAIN workspaces \in SUBSET used
  /\ \A i \in DOMAIN workspaces : workspaces[i] \in Nat
  /\ DOMAIN teams \in SUBSET used
  /\ \A i \in DOMAIN teams : teams[i] \in [workspace : used, members : Nat]
  /\ DOMAIN schedules \in SUBSET used
  /\ \A i \in DOMAIN schedules : schedules[i] \in used
  /\ keys \in [Known -> Secrets \cup {None}]
  /\ saved \in [Byok -> Models \cup {None}]
  /\ used \subseteq Ids
=============================================================================
