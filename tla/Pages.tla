-------------------------------- MODULE Pages --------------------------------
(***************************************************************************)
(* The pages over the API (pg-advisor-web/src/App.tsx): one page is        *)
(* mounted at a time.  A page that is left forgets what it holds, and the  *)
(* answers it waited for change nothing that is shown: each is a system of *)
(* its own.  WebApp adds the filters of the findings and the completion of *)
(* the editor, that ask nothing of the server, and composes them all.      *)
(***************************************************************************)
EXTENDS Requests

CONSTANTS
  Moves,     \* the bound of each page, see MaxMoves
  Unordered, \* the pages whose requests may overtake each other
  Items,     \* the findings of an instance
  Capacity,  \* of the queue of a subscriber to the stream
  Rules,     \* the rules of the catalogue, each by its rank among the names
  Ids,       \* the identifiers of the instances, those of now and of later
  Instances, \* the instances whose queries are ranked
  Normalised, \* those of them whose query has a parameter
  Hooks,     \* the webhooks there are at first
  Accounts   \* the names of the accounts, but for that of the administrator

VARIABLE page

Routes ==
  {"session", "live", "findings", "rules", "editor", "instances", "webhooks", "users", "queries",
   "filters", "completion"}

\* A target has so many findings, and none of them has the name of nothing.
ASSUME ItemsAssumption == IsFiniteSet(Items) /\ None \notin Items

ASSUME MovesAssumption == Moves \in [Routes -> 0..MaxMoves] /\ Unordered \subseteq Routes

\* An event that arrives has a place (SubscriberCapacity is 256).
ASSUME CapacityAssumption == Capacity \in Nat \ {0}

OrdersOn(route) == IF route \in Unordered THEN Orders ELSE {TRUE}

Session == INSTANCE SessionPages WITH MaxMoves <- Moves["session"], Orders <- OrdersOn("session")
Live == INSTANCE LivePages WITH MaxMoves <- Moves["live"], Orders <- OrdersOn("live")
Findings == INSTANCE FindingsPage WITH MaxMoves <- Moves["findings"], Orders <- OrdersOn("findings")
Catalogue == INSTANCE RulesPage WITH MaxMoves <- Moves["rules"], Orders <- OrdersOn("rules")
Editor == INSTANCE RuleEditorPage WITH MaxMoves <- Moves["editor"], Orders <- OrdersOn("editor")
Targets == INSTANCE InstancesPage WITH MaxMoves <- Moves["instances"], Orders <- OrdersOn("instances")
Webhooks == INSTANCE WebhooksPage WITH MaxMoves <- Moves["webhooks"], Orders <- OrdersOn("webhooks")
Users == INSTANCE UsersPage WITH MaxMoves <- Moves["users"], Orders <- OrdersOn("users")
Rankings == INSTANCE QueriesPage WITH MaxMoves <- Moves["queries"], Orders <- OrdersOn("queries")

\* Nothing, and what is new, are none of those there are.
ASSUME NamesAssumption ==
  /\ Rules \subseteq Nat /\ Normalised \subseteq Instances
  /\ None \notin Ids /\ {None, Webhooks!New} \cap Hooks = {}

On(route) == page = route
=============================================================================
