------------------------------ MODULE Catalogs ------------------------------
(***************************************************************************)
(* The recipes and workflows the service keeps (environment_store.py,      *)
(* workflow_catalog.py).  Each store is a table in memory that is written  *)
(* whole, to a temporary file that then takes the place of the store: the  *)
(* write can fail, and the service can stop and read the file again.       *)
(***************************************************************************)
EXTENDS Naturals, Sequences, FiniteSets

CONSTANTS
    Recipes,        (* environments and workflows, by id                     *)
    Titles,         (* their names, of which case is ignored                 *)
    NoTitle,        (* the name of what is not there                         *)
    NoRecipe,       (* no environment is active                              *)
    MaxVersions     (* bound: versions of a workflow                         *)

ASSUME CatalogsAssumption ==
    NoTitle \notin Titles /\ NoRecipe \notin Recipes /\ MaxVersions \in Nat \ {0}

VARIABLES
    recipes,        (* EnvironmentStore: _items and _active_id               *)
    flows,          (* WorkflowCatalog: the versions of each workflow        *)
    store,          (* the store a behaviour is of: they share nothing       *)
    shelf,          (* the two files                                         *)
    shown,          (* state["active_environment"], what the clients see     *)
    confirmed,           (* what was answered stored, its removal not asked for   *)
    failedSince     (* stores with a write that failed since the last one    *)
                    (* that did not, and "shown" since an activation failed  *)

catalogVars == <<store, recipes, flows, shelf, shown, confirmed, failedSince>>

NoFlows == [r \in Recipes |-> <<>>]
CatalogInit ==
    /\ store \in {"recipes", "flows"}
    /\ recipes = [names |-> [r \in Recipes |-> NoTitle], active |-> NoRecipe]
    /\ flows = NoFlows
    /\ shelf = [recipes |-> recipes, flows |-> NoFlows]
    /\ shown = NoRecipe /\ failedSince = {}
    /\ confirmed = [recipes |-> {}, flows |-> {}]

Present(r)   == recipes.names[r] # NoTitle
Latest(r)    == flows[r][Len(flows[r])]
Existing     == {r \in Recipes : flows[r] # <<>>}

(* _save: the file has the whole table, or stays as it was and the request   *)
(* that changed the table in memory already is answered with an error.       *)
SaveRecipes(answered, otherwise) ==
    \/ /\ shelf' = [shelf EXCEPT !.recipes = recipes']
       /\ failedSince' = failedSince \ {"recipes"}
       /\ confirmed' = [confirmed EXCEPT !.recipes = answered]
    \/ /\ failedSince' = failedSince \cup {"recipes"}
       /\ confirmed' = [confirmed EXCEPT !.recipes = otherwise]
       /\ UNCHANGED shelf

SaveFlows(answered) ==
    \/ /\ shelf' = [shelf EXCEPT !.flows = flows']
       /\ failedSince' = failedSince \ {"flows"}
       /\ confirmed' = [confirmed EXCEPT !.flows = answered]
    \/ /\ failedSince' = failedSince \cup {"flows"}
       /\ UNCHANGED <<shelf, confirmed>>

-----------------------------------------------------------------------------
(* A mutation: the name is not looked for.                                   *)
CreateRecipeAnyName(r, t) ==
    /\ ~Present(r) /\ r \notin confirmed.recipes
    /\ recipes' = [recipes EXCEPT !.names[r] = t]
    /\ SaveRecipes(confirmed.recipes \cup {r}, confirmed.recipes) /\ UNCHANGED <<flows, shown>>

CreateRecipe(r, t) ==
    /\ ~Present(r) /\ r \notin confirmed.recipes
    /\ \A q \in Recipes : recipes.names[q] # t
    /\ recipes' = [recipes EXCEPT !.names[r] = t]
    /\ SaveRecipes(confirmed.recipes \cup {r}, confirmed.recipes) /\ UNCHANGED <<flows, shown>>

(* The clients are shown the new environment only once it is saved.          *)
ActivateRecipe(r) ==
    /\ Present(r)
    /\ recipes' = [recipes EXCEPT !.active = r]
    /\ \/ /\ shelf' = [shelf EXCEPT !.recipes = recipes'] /\ shown' = r
          /\ failedSince' = failedSince \ {"recipes", "shown"}
       \/ /\ failedSince' = failedSince \cup {"recipes", "shown"}
          /\ UNCHANGED <<shelf, shown>>
    /\ UNCHANGED <<flows, confirmed>>

(* A mutation: the active environment goes like any other.                   *)
DeleteRecipeAny(r) ==
    /\ Present(r)
    /\ recipes' = [recipes EXCEPT !.names[r] = NoTitle]
    /\ SaveRecipes(confirmed.recipes \ {r}, confirmed.recipes \ {r}) /\ UNCHANGED <<flows, shown>>

DeleteRecipe(r) ==
    /\ Present(r) /\ recipes.active # r
    /\ recipes' = [recipes EXCEPT !.names[r] = NoTitle]
    /\ SaveRecipes(confirmed.recipes \ {r}, confirmed.recipes \ {r}) /\ UNCHANGED <<flows, shown>>

-----------------------------------------------------------------------------
Version(r, n, t) == [number |-> n, title |-> t, archived |-> FALSE]

(* The name is looked for among the latest versions, of first versions only. *)
Append1(r, n, t) ==
    /\ n = 1 => \A q \in Existing : Latest(q).title # t
    /\ flows' = [flows EXCEPT ![r] = Append(@, Version(r, n, t))]
    /\ SaveFlows(confirmed.flows \cup {<<r, n, t>>}) /\ UNCHANGED <<recipes, shown>>

CreateWorkflow(r, t) == flows[r] = <<>> /\ (\A k \in confirmed.flows : k[1] # r) /\ Append1(r, 1, t)

CreateVersion(r, t) ==
    /\ r \in Existing /\ Len(flows[r]) < MaxVersions
    /\ Append1(r, Latest(r).number + 1, t)

ArchiveWorkflow(r) ==
    /\ r \in Existing /\ ~Latest(r).archived
    /\ flows' = [flows EXCEPT ![r][Len(flows[r])].archived = TRUE]
    /\ SaveFlows(confirmed.flows) /\ UNCHANGED <<recipes, shown>>

(* get(): the last version, or the first that has the number.                *)
GetVersion(r, n) ==
    LET S == {i \in DOMAIN flows[r] : flows[r][i].number = n} IN
    IF S = {} THEN NoTitle ELSE flows[r][CHOOSE i \in S : \A j \in S : i <= j].title

(* list(): the latest versions, of which the archived ones are left out.     *)
ListWorkflows == {r \in Existing : ~Latest(r).archived}

(* _load: what is on the shelf; an active id that is not there is dropped.   *)
CatalogRestart ==
    /\ recipes' = [shelf.recipes EXCEPT !.active =
                     IF @ = NoRecipe THEN NoRecipe
                     ELSE IF shelf.recipes.names[@] = NoTitle THEN NoRecipe ELSE @]
    /\ flows' = shelf.flows
    /\ shown' = recipes'.active /\ failedSince' = {}
    /\ UNCHANGED <<shelf, confirmed>>

CatalogNext ==
    /\ UNCHANGED store
    /\ \/ /\ store = "recipes"
          /\ \E r \in Recipes :
               \/ \E t \in Titles : CreateRecipe(r, t)
               \/ ActivateRecipe(r) \/ DeleteRecipe(r)
       \/ /\ store = "flows"
          /\ \E r \in Recipes :
               \/ \E t \in Titles : CreateWorkflow(r, t) \/ CreateVersion(r, t)
               \/ ArchiveWorkflow(r)
       \/ CatalogRestart

-----------------------------------------------------------------------------
CatalogTypeOK ==
    /\ recipes.names \in [Recipes -> Titles \cup {NoTitle}]
    /\ recipes.active \in Recipes \cup {NoRecipe} /\ shown \in Recipes \cup {NoRecipe}
    /\ \A r \in Recipes : Len(flows[r]) <= MaxVersions

(* What was answered is kept, over failed writes and restarts: a recipe or a *)
(* version that was answered stored is on the shelf with what it holds until *)
(* its deletion is asked for, though a later change failed to be written;    *)
(* what is in memory beside it is only what a failed write left.  The active *)
(* environment exists and is the one the clients are shown, unless an        *)
(* activation failed; names are unique; the versions of a workflow are       *)
(* numbered without a gap or a repetition.                                   *)
CatalogsHold ==
    /\ \A r \in confirmed.recipes : shelf.recipes.names[r] # NoTitle
    /\ \A k \in confirmed.flows : k[2] <= Len(shelf.flows[k[1]])
         /\ shelf.flows[k[1]][k[2]].title = k[3] /\ shelf.flows[k[1]][k[2]].number = k[2]
    /\ "recipes" \notin failedSince => recipes = shelf.recipes
    /\ "shown" \notin failedSince => shown = recipes.active
    /\ "flows" \notin failedSince => flows = shelf.flows
    /\ recipes.active # NoRecipe => Present(recipes.active)
    /\ \A q, r \in Recipes : q # r /\ Present(q) => recipes.names[q] # recipes.names[r]
    /\ \A r \in Existing : \A n \in DOMAIN flows[r] :
         flows[r][n].number = n /\ GetVersion(r, n) = flows[r][n].title
    /\ \A q, r \in ListWorkflows : q # r /\ Len(flows[q]) = 1 /\ Len(flows[r]) = 1 =>
         Latest(q).title # Latest(r).title

=============================================================================
