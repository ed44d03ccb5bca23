----------------------------- MODULE MCServices -----------------------------
(* The services around a scan in one instance: a behaviour is the life of  *)
(* one of them, the others are off.                                        *)
EXTENDS Crawler, ProbeSeries, Replay, Access, Schedules, ScopePolicy, AttackSurface

(* Two ways to /d, of two and of three links, so that /e is at the limit   *)
(* or beyond it; loops; a link to robots.txt and one to a closed URL.      *)
MCUrls == {"start", "a", "b", "c", "d", "e", "robots", "off"}
Site(start, a, b, c) ==
  [url \in MCUrls |-> CASE url = "start" -> start [] url = "a" -> a
                        [] url = "b" -> b [] url = "c" -> c
                        [] url = "d" -> {"e"} [] OTHER -> {}]
MCSites ==
  {Site(start, a, b, c) : start \in SUBSET {"a", "b", "robots"}, a \in SUBSET {"start", "c"},
                          b \in SUBSET {"d", "off"}, c \in SUBSET {"d"}}
MCRules == {{}, {"b"}, {"start"}}

MCProbes ==
  {b \in [authenticated : BOOLEAN, dwyor : BOOLEAN, target : BOOLEAN, valid : BOOLEAN,
          preset : {"none", "pairs", "singles"}, placed : BOOLEAN, payloads : {1, 2, 4},
          payloads2 : {0, 1, 3}, mode : {"sniper", "pitchfork", "cluster_bomb"}] :
     b.mode = "sniper" => b.payloads2 = 0}

MCReplays ==
  [endpoint : {"finding", "raw"}, found : BOOLEAN, recipe : BOOLEAN, samples : {0, 2, 4}]
MCAnswers ==
  [status : {200, 404}, head : {"x", "y"}, length : {10, 80}, time : {5, 2000}, error : {FALSE}]
  \cup [status : {0, 200}, head : {"x"}, length : {10}, time : {5}, error : {TRUE}]

MCLink(path, query, foreign) == [path |-> path, query |-> query, foreign |-> foreign]
MCLinks ==
  {MCLink("/", <<>>, FALSE), MCLink("/a", <<"x", "y">>, FALSE), MCLink("/a", <<>>, FALSE),
   MCLink("/seed", <<"x", "y">>, FALSE), MCLink("/far", <<>>, TRUE)}
MCPages == {<<>>} \cup {<<l>> : l \in MCLinks} \cup (MCLinks \X MCLinks)
MCVisits == {<<>>} \cup {<<l>> : l \in MCLinks}
MCSeeds == <<"/seed", "/graphql">>
MCSpecs == {<<>>, <<[method |-> "POST", path |-> "/a", params |-> {"z"}]>>}

vars == <<crawlVars, probeVars, replayVars, accessVars, schedVars, scopeVars, surfVars>>

Init ==
  \/ CrawlInit /\ ProbeOff /\ ReplayOff /\ AccessOff /\ SchedOff /\ ScopeOff /\ SurfOff
  \/ CrawlOff /\ ProbeInit /\ ReplayOff /\ AccessOff /\ SchedOff /\ ScopeOff /\ SurfOff
  \/ CrawlOff /\ ProbeOff /\ ReplayInit /\ AccessOff /\ SchedOff /\ ScopeOff /\ SurfOff
  \/ CrawlOff /\ ProbeOff /\ ReplayOff /\ AccessInit /\ SchedOff /\ ScopeOff /\ SurfOff
  \/ CrawlOff /\ ProbeOff /\ ReplayOff /\ AccessOff /\ SchedInit /\ ScopeOff /\ SurfOff
  \/ CrawlOff /\ ProbeOff /\ ReplayOff /\ AccessOff /\ SchedOff /\ ScopeInit /\ SurfOff
  \/ CrawlOff /\ ProbeOff /\ ReplayOff /\ AccessOff /\ SchedOff /\ ScopeOff /\ SurfInit

Next ==
  \/ CrawlNext  /\ UNCHANGED <<probeVars, replayVars, accessVars, schedVars, scopeVars, surfVars>>
  \/ ProbeNext  /\ UNCHANGED <<crawlVars, replayVars, accessVars, schedVars, scopeVars, surfVars>>
  \/ ReplayNext /\ UNCHANGED <<crawlVars, probeVars, accessVars, schedVars, scopeVars, surfVars>>
  \/ AccessNext /\ UNCHANGED <<crawlVars, probeVars, replayVars, schedVars, scopeVars, surfVars>>
  \/ SchedNext  /\ UNCHANGED <<crawlVars, probeVars, replayVars, accessVars, scopeVars, surfVars>>
  \/ ScopeNext  /\ UNCHANGED <<crawlVars, probeVars, replayVars, accessVars, schedVars, surfVars>>
  \/ SurfNext   /\ UNCHANGED <<crawlVars, probeVars, replayVars, accessVars, schedVars, scopeVars>>

Spec == Init /\ [][Next]_vars
=============================================================================
