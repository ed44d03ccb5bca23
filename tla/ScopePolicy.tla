---------------------------- MODULE ScopePolicy ----------------------------
(***************************************************************************)
(* The scope of a scan and one request under it: the request is checked    *)
(* with its method, and every redirect it meets with the whole chain so    *)
(* far, hop by hop, before it is followed.                                 *)
(***************************************************************************)
EXTENDS Naturals, Sequences

CONSTANTS
  Hosts, PathClasses,  \* hosts and paths, up to what the patterns tell apart
  DestructivePaths,    \* paths under DEFAULT_DESTRUCTIVE_PATTERNS
  MostRedirects        \* scope.max_redirects

ASSUME ScopeAssumption ==
  DestructivePaths \subseteq PathClasses /\ MostRedirects \in Nat

VARIABLES
  scopePc,   \* "off", "ready", "sent", "answered" or "refused"
  scope,     \* allowed hosts, allowed paths, excluded paths
  hop,       \* the request at hand
  chain,     \* follow_chain: the redirect targets so far
  sent       \* history: what went out, and the status that led to it

scopeVars == <<scopePc, scope, hop, chain, sent>>

Methods == {"GET", "POST"}
Mutating == {"POST"}
Locations == [host : Hosts, path : PathClasses]

ScopeOff ==
  /\ scopePc = "off" /\ scope = [hosts |-> {}, paths |-> {}, excluded |-> {}]
  /\ hop = <<>> /\ chain = <<>> /\ sent = <<>>

ScopeInit ==
  /\ scopePc = "ready"
  /\ scope \in [hosts : SUBSET Hosts, paths : SUBSET PathClasses, excluded : SUBSET PathClasses]
  /\ hop \in [url : Locations, method : Methods, after : {"start"}]
  /\ chain = <<>> /\ sent = <<>>

(* No allowed path means that all are. *)
PathAllowed(path) == scope.paths = {} \/ path \in scope.paths

(* check: the host, the path, the exclusions, and destructive paths for    *)
(* methods that change something.                                          *)
InScope(url, method) ==
  /\ url.host \in scope.hosts
  /\ PathAllowed(url.path) /\ url.path \notin scope.excluded
  /\ method \in Mutating => url.path \notin DestructivePaths

(* Faulty form. *)
FirstHopInScope(from, hops) == InScope(from, "GET") /\ InScope(hops[1], "GET")

(* check_redirect_chain: each hop as if it were a GET. *)
ChainInScope(from, hops) ==
  InScope(from, "GET") /\ \A i \in DOMAIN hops : InScope(hops[i], "GET")

SendChecked ==
  /\ scopePc = "ready"
  /\ IF InScope(hop.url, hop.method)
     THEN scopePc' = "sent" /\ sent' = <<hop>>
     ELSE scopePc' = "refused" /\ UNCHANGED sent
  /\ UNCHANGED <<scope, hop, chain>>

Answered ==
  /\ scopePc = "sent" /\ scopePc' = "answered"
  /\ UNCHANGED <<scope, hop, chain, sent>>

(* 301, 302 and 303 are followed with GET, 307 and 308 with the method.    *)
Redirected ==
  /\ scopePc = "sent"
  /\ \E url \in Locations, kind \in {"see", "same"} :
       LET hops == Append(chain, url)
           next == [url |-> url, after |-> kind,
                    method |-> IF kind = "see" THEN "GET" ELSE hop.method]
       IN IF Len(chain) < MostRedirects /\ ChainInScope(hop.url, hops)
          THEN /\ hop' = next /\ chain' = hops /\ sent' = Append(sent, next)
               /\ UNCHANGED scopePc
          ELSE scopePc' = "refused" /\ UNCHANGED <<hop, chain, sent>>
  /\ UNCHANGED scope

ScopeNext == SendChecked \/ Answered \/ Redirected

ScopeSpec == ScopeInit /\ [][ScopeNext]_scopeVars

-----------------------------------------------------------------------------
(* Whatever chain of redirects the target answers with, no request leaves  *)
(* for a host or a path the scope does not hold, none more than the limit  *)
(* of redirects allows, and none that changes something for a destructive  *)
(* path unless a redirect kept the method of one that was in scope         *)
(* (scope.py check_redirect_chain; client.py:295-333).                     *)
HopsInScope ==
  /\ Len(sent) <= MostRedirects + 1
  /\ \A i \in DOMAIN sent :
       /\ InScope(sent[i].url, "GET")
       /\ ~InScope(sent[i].url, sent[i].method) =>
            i > 1 /\ sent[i].after = "same" /\ sent[1].method \in Mutating
=============================================================================
