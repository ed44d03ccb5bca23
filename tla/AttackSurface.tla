--------------------------- MODULE AttackSurface ---------------------------
(***************************************************************************)
(* The model of the target that checks are given: the home page, what it   *)
(* links to, what a headless browser visited, the seed paths and an        *)
(* OpenAPI document, one source after the other, the first to name an      *)
(* endpoint deciding its parameters.                                       *)
(***************************************************************************)
EXTENDS Naturals, Sequences, SequencesExt

CONSTANTS
  Pages,    \* home pages: sequences of links, each with path, query, foreign
  Visits,   \* what a headless crawl saw, as links
  Seeds,    \* the built-in seed paths
  Specs     \* OpenAPI documents: sequences of operations

Link == [path : STRING, query : Seq(STRING), foreign : BOOLEAN]

(* There are seeds, and the home page is none of them (wordlist.py:69-82). *)
ASSUME SurfaceAssumption ==
  /\ Pages \cup Visits \subseteq Seq(Link)
  /\ Seeds \in Seq(STRING) /\ Seeds # <<>> /\ "/" \notin ToSet(Seeds)

VARIABLES
  surfPc,      \* "off", "home", "headless", "seeds", "spec" or "done"
  target,      \* the target: its page, visits and document
  endpoints    \* model.endpoints: (method, path) -> source and parameters

surfVars == <<surfPc, target, endpoints>>

NoEndpoints == [key \in {} |-> 0]
Key(method, path) == <<method, path>>

SurfOff ==
  surfPc = "off" /\ target = [page |-> <<>>, visits |-> <<>>, spec |-> <<>>]
  /\ endpoints = NoEndpoints

SurfInit ==
  /\ surfPc = "home" /\ endpoints = NoEndpoints
  /\ target \in [page : Pages, visits : Visits, spec : Specs]

NamedKeys(new) == {new[i].key : i \in DOMAIN new}

(* The place at which a source first names an endpoint. *)
FirstNamed(new, key) ==
  CHOOSE i \in DOMAIN new :
    new[i].key = key /\ \A j \in DOMAIN new : new[j].key = key => i <= j

(* Faulty form. *)
LatestOf(new, key) ==
  IF key \in NamedKeys(new) THEN new[FirstNamed(new, key)] ELSE endpoints[key]

(* _add_endpoint: an endpoint that is known stays as it is.                *)
EndpointOf(new, key) ==
  IF key \in DOMAIN endpoints THEN endpoints[key] ELSE new[FirstNamed(new, key)]

(* A source hands over endpoints by their place in it, and they are added  *)
(* one after the other.                                                    *)
AddedAll(new) == [key \in DOMAIN endpoints \cup NamedKeys(new) |-> EndpointOf(new, key)]

(* _url_to_endpoint: a link to the same origin, with the names of its      *)
(* query but for the first: the pattern wants a ? or & before a name, and  *)
(* the ? is no part of the query.                                          *)
Linked(link) ==
  [key |-> Key("GET", link.path), source |-> "link",
   params |-> {link.query[i] : i \in 2..Len(link.query)}]

Own(links) == {i \in DOMAIN links : ~links[i].foreign}
OfOrigin(links) == [i \in Own(links) |-> Linked(links[i])]

Named(path, source) == [key |-> Key("GET", path), source |-> source, params |-> {}]

(* The home page itself comes before its links. *)
HomePage ==
  [i \in {0} \cup Own(target.page) |->
     IF i = 0 THEN Named("/", "homepage") ELSE Linked(target.page[i])]

MapStep(from, to) == surfPc = from /\ surfPc' = to /\ UNCHANGED target

(* The home page answers, or its request raises. *)
MapHome ==
  /\ MapStep("home", "headless")
  /\ \/ endpoints' = AddedAll(HomePage)
     \/ UNCHANGED endpoints

(* The headless crawl, if there is one and it does not fail. *)
MapHeadless ==
  /\ MapStep("headless", "seeds")
  /\ \/ endpoints' = AddedAll(OfOrigin(target.visits))
     \/ UNCHANGED endpoints

MapSeeds ==
  /\ MapStep("seeds", "spec")
  /\ endpoints' = AddedAll([i \in DOMAIN Seeds |-> Named(Seeds[i], "seed")])

Operations ==
  [i \in DOMAIN target.spec |->
    [key |-> Key(target.spec[i].method, target.spec[i].path), source |-> "openapi",
     params |-> target.spec[i].params]]

(* merge_into_model reads the method of the keys of a model that is not    *)
(* empty, which raises, and build goes on without the document.            *)
MapSpec ==
  /\ MapStep("spec", "done")
  /\ endpoints' = IF DOMAIN endpoints = {} THEN AddedAll(Operations) ELSE endpoints

SurfNext == MapHome \/ MapHeadless \/ MapSeeds \/ MapSpec

SurfSpec == SurfInit /\ [][SurfNext]_surfVars

-----------------------------------------------------------------------------
OwnLinks == {link \in ToSet(target.page) \cup ToSet(target.visits) : ~link.foreign}

(* The model is complete and of this origin whichever source failed: the   *)
(* seeds are in it, every GET endpoint is a seed, the home page or linked  *)
(* from it, and all links of a page are in once one is (mapper.py build).  *)
SurfaceComplete ==
  surfPc = "done" =>
    LET gets == {key[2] : key \in {k \in DOMAIN endpoints : k[1] = "GET"}}
        own  == {link.path : link \in {l \in ToSet(target.page) : ~l.foreign}}
    IN /\ ToSet(Seeds) \subseteq gets
       /\ gets \subseteq ToSet(Seeds) \cup {"/"} \cup {link.path : link \in OwnLinks}
       /\ "/" \in gets \ {link.path : link \in OwnLinks} => own \subseteq gets

(* What a check has read of an endpoint stays true: no later source        *)
(* replaces one that is known (mapper.py _add_endpoint).                   *)
EndpointsStable ==
  [][\A key \in DOMAIN endpoints :
       key \in DOMAIN endpoints' /\ endpoints'[key] = endpoints[key]]_surfVars

(* The model of the target grows and never changes its mind, and is whole  *)
(* when it is done, whichever of its sources fail (mapper.py build).       *)
SurfaceFaithful == []SurfaceComplete /\ EndpointsStable
=============================================================================
