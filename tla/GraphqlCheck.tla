---------------------------- MODULE GraphqlCheck ----------------------------
(***************************************************************************)
(* graphql: introspection on every usual path; where it is refused, a type  *)
(* query; where either answers, up to three queries for users.              *)
(***************************************************************************)
EXTENDS CheckRun

FuzzQueries == 3

GraphqlBegin == Begin("graphql", TRUE, "gql_schema", [todo |-> Paths])

(* A request, and whether its answer gave what it asks for. *)
To(request, gave) ==
  [path |-> Head(loc.todo), request |-> request, gave |-> gave]
NextPath    == IF Len(loc.todo) = 1 THEN "judge" ELSE "gql_schema"
PathDone    == [todo |-> Tail(loc.todo)]

(* The number of types of the schema, or None: no 200, no JSON object,     *)
(* no list of types, no answer.                                            *)
GraphqlSchema ==
  /\ At("graphql", "gql_schema")
  /\ \/ Probe("gql_type", loc, <<To("introspection", FALSE)>>, {})
     \/ \E types \in {0, 2} :
          Probe("gql_fuzz", [todo |-> loc.todo, n |-> 1, types |-> types],
                <<To("introspection", TRUE)>>,
                {[path |-> Head(loc.todo), kind |-> "introspection_enabled", types |-> types]})

GraphqlType ==
  /\ At("graphql", "gql_type")
  /\ \/ Probe(NextPath, PathDone, <<To("type", FALSE)>>, {})
     \/ Probe("gql_fuzz", [todo |-> loc.todo, n |-> 1, types |-> 0],
              <<To("type", TRUE)>>,
              {[path |-> Head(loc.todo), kind |-> "type_query_works", types |-> 0]})

(* _is_fuzz_success: a 200 whose data has a member that is not null; an    *)
(* empty list is one.                                                      *)
FuzzAnswer == {"raises", "errors", "null", "empty", "record"}
IsFuzzSuccess(a) == a \in {"empty", "record"}

(* One success per path is enough. *)
GraphqlFuzz ==
  /\ At("graphql", "gql_fuzz")
  /\ \E a \in FuzzAnswer :
       LET ends == IsFuzzSuccess(a) \/ loc.n = FuzzQueries IN
       Probe(IF ends THEN NextPath ELSE "gql_fuzz",
             IF ends THEN PathDone ELSE [loc EXCEPT !.n = @ + 1],
             <<To("users", IsFuzzSuccess(a))>>,
             IF IsFuzzSuccess(a)
             THEN {[path |-> Head(loc.todo), kind |-> "graphql_fuzz_bola",
                    types |-> loc.types, answer |-> a]}
             ELSE {})

GraphqlValidate(c) ==
  IF c.kind = "introspection_enabled" /\ c.types = 0
  THEN [outcome |-> "likely", confidence |-> "medium"]
  ELSE [outcome |-> "confirmed", confidence |-> "high"]

GraphqlEvidence(c) ==
  IF c.kind = "graphql_fuzz_bola"
  THEN [outcome |-> "confirmed", confidence |-> "high", uncertainty |-> 10]
  ELSE [outcome |-> None]

GraphqlAssess(c) ==
  [severity |-> IF c.kind = "graphql_fuzz_bola" THEN "high" ELSE "medium",
   confidence |-> "high", status |-> "confirmed"]

GraphqlNext ==
  \/ GraphqlBegin \/ GraphqlSchema \/ GraphqlType \/ GraphqlFuzz
  \/ Judge("graphql",
           Reported(GraphqlValidate(cand), GraphqlEvidence(cand), GraphqlAssess(cand)))

-----------------------------------------------------------------------------
AskedOf(path, request) ==
  Cardinality({i \in DOMAIN wire : wire[i].path = path /\ wire[i].request = request})

(* A path gave what one of these requests asks for. *)
GaveOne(path, requests) ==
  \E i \in DOMAIN wire :
    wire[i].path = path /\ wire[i].request \in requests /\ wire[i].gave

(* What a path is asked follows what it answered: the type only where the  *)
(* schema was refused, users only after the schema or the type was given,  *)
(* at most three times and none after the first that is; an endpoint is    *)
(* blamed for its objects only if it gave one, and an empty schema is      *)
(* likely although assess says confirmed (graphql.py discover, validate,   *)
(* assess).                                                                *)
GraphqlEscalation ==
  Is("graphql") =>
    /\ \A i \in DOMAIN wire :
         LET w == wire[i] IN
         /\ AskedOf(w.path, "introspection") = 1
         /\ AskedOf(w.path, "type") <= 1
         /\ AskedOf(w.path, "users") <= FuzzQueries
         /\ w.request = "type" => ~GaveOne(w.path, {"introspection"})
         /\ w.request = "users" =>
              \E j \in DOMAIN wire :
                /\ j < i /\ wire[j].path = w.path
                /\ wire[j].request \in {"introspection", "type"} /\ wire[j].gave
         /\ w.request = "users" /\ w.gave =>
              \A j \in DOMAIN wire : wire[j].path = w.path => j <= i
    /\ Reports("graphql") =>
         /\ result.finding.severity = "high" => GaveOne(cand.path, {"users"})
         /\ result.finding.status = "likely" <=>
              cand.kind = "introspection_enabled" /\ cand.types = 0
=============================================================================
