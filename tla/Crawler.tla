------------------------------ MODULE Crawler ------------------------------
(***************************************************************************)
(* The breadth-first crawler: robots.txt, a queue of (url, depth), the set *)
(* of URLs seen, and the caps.  One coroutine: a request is answered       *)
(* before the next step; what varies is the site and how it answers.       *)
(***************************************************************************)
EXTENDS Integers, FiniteSets, SequencesExt

CONSTANTS
  Urls,        \* absolute URLs; pages and robots.txt
  StartUrl,    \* where the crawl begins
  RobotsUrl,   \* robots.txt of the host
  Closed,      \* URLs of other hosts or under excluded_paths
  SiteLinks,   \* what the pages may link to: functions on Urls
  Rules,       \* what robots.txt may disallow
  PageCaps,    \* values of max_pages, 0 for no cap
  MaxDepth     \* max_depth

ASSUME CrawlAssumption ==
  /\ {StartUrl, RobotsUrl} \cup Closed \subseteq Urls
  /\ \A links \in SiteLinks :      \* a body has finitely many links
       links \in [Urls -> SUBSET Urls] /\ \A url \in Urls : IsFiniteSet(links[url])
  /\ PageCaps \subseteq Nat /\ MaxDepth \in Int

VARIABLES
  crawlPc,     \* "off", "robots", "again", "crawl" or "done"
  site,        \* links, rules and maxPages of this behaviour
  robots,      \* the disallow rules the crawler holds
  frontier,    \* the queue
  visited,     \* result.urls_visited
  crawled,     \* result.pages_crawled
  skipped,     \* result.urls_skipped
  asked,       \* history: the pages requested, in order, with their depth
  parsed       \* history: the pages whose links were taken

crawlVars == <<crawlPc, site, robots, frontier, visited, crawled, skipped, asked, parsed>>

CrawlOff ==
  /\ crawlPc = "off" /\ site = [links |-> <<>>, rules |-> {}, maxPages |-> 0]
  /\ robots = {} /\ frontier = <<>> /\ visited = {} /\ crawled = 0 /\ skipped = 0
  /\ asked = <<>> /\ parsed = {}

CrawlInit ==
  /\ crawlPc \in {"robots", "crawl"}      \* honor_robots
  /\ site \in [links : SiteLinks, rules : Rules, maxPages : PageCaps]
  /\ robots = {} /\ frontier = <<[url |-> StartUrl, depth |-> 0]>>
  /\ visited = {} /\ crawled = 0 /\ skipped = 0 /\ asked = <<>> /\ parsed = {}

(* robots.txt is fetched twice; only the second answer counts.  A request  *)
(* that raises means no rules, like an error status.                       *)
FetchRobots ==
  /\ crawlPc \in {"robots", "again"}
  /\ \/ crawlPc' = "crawl" /\ UNCHANGED <<robots, visited>>
     \/ /\ visited' = visited \cup {RobotsUrl}
        /\ IF crawlPc = "robots" THEN crawlPc' = "again" /\ UNCHANGED robots
           ELSE crawlPc' = "crawl" /\ robots' \in {{}, site.rules}
  /\ UNCHANGED <<site, frontier, crawled, skipped, asked, parsed>>

(* The dispatch predicates of the queue and of _should_enqueue. *)
Admitted(url, depth) == depth <= MaxDepth /\ url \notin Closed \cup robots

CapReached == site.maxPages > 0 /\ crawled >= site.maxPages

Finish ==
  /\ crawlPc = "crawl" /\ (frontier = <<>> \/ CapReached)
  /\ crawlPc' = "done" /\ skipped' = skipped + Len(frontier)
  /\ UNCHANGED <<site, robots, frontier, visited, crawled, asked, parsed>>

Pops == crawlPc = "crawl" /\ frontier # <<>> /\ ~CapReached

PopRefused ==
  /\ Pops /\ ~Admitted(frontier[1].url, frontier[1].depth)
  /\ skipped' = skipped + 1 /\ frontier' = Tail(frontier)
  /\ UNCHANGED <<crawlPc, site, robots, visited, crawled, asked, parsed>>

Requests(item) ==
  /\ Admitted(item.url, item.depth)
  /\ asked' = Append(asked, item)
  /\ UNCHANGED <<crawlPc, site, robots>>

(* The request raises or the answer carries a transport error. *)
PopFails ==
  /\ Pops /\ Requests(frontier[1])
  /\ visited' = visited \cup {frontier[1].url} /\ frontier' = Tail(frontier)
  /\ UNCHANGED <<crawled, skipped, parsed>>

Unseen(links, seen) == links \ seen

(* Faulty form. *)
QueuedInFront(queue, new) == new \o queue

Queued(queue, new) == queue \o new

(* The links of a page are a set: they enter the queue in any order. *)
PopAnswered ==
  /\ Pops /\ Requests(frontier[1])
  /\ LET item  == frontier[1]
         seen  == visited \cup {item.url}
         links == Unseen(site.links[item.url], seen)
         new   == {url \in links : Admitted(url, item.depth + 1)}
     IN /\ \E order \in SetToSeqs(new) :
             frontier' = Queued(Tail(frontier),
                [i \in DOMAIN order |-> [url |-> order[i], depth |-> item.depth + 1]])
        /\ visited' = seen \cup new
        /\ skipped' = skipped + Cardinality(links \ new)
        /\ parsed' = parsed \cup {item.url}
  /\ crawled' = crawled + 1

CrawlNext == FetchRobots \/ Finish \/ PopRefused \/ PopFails \/ PopAnswered

CrawlSpec == CrawlInit /\ [][CrawlNext]_crawlVars

-----------------------------------------------------------------------------
(* The pages n links or fewer away from the start, over the pages that were *)
(* parsed and the URLs the configuration and robots.txt admit.              *)
Within[n \in Nat] ==
  IF n = 0 THEN {StartUrl} \ (Closed \cup robots)
  ELSE Within[n - 1] \cup
       UNION {site.links[page] \ (Closed \cup robots) : page \in parsed \cap Within[n - 1]}

(* The depth a page is requested at is its distance from the start, the    *)
(* start is asked at 0 and no page beyond the limit is: an order other     *)
(* than breadth-first would use up max_depth too early (crawler.py crawl). *)
DepthTrue ==
  \A i \in DOMAIN asked :
    LET n == asked[i].depth
    IN /\ n \in 0..MaxDepth /\ asked[i].url \in Within[n]
       /\ n > 0 => asked[i].url \notin Within[n - 1]

(* A crawl that did not stop at the cap asked for every page it could      *)
(* reach, whatever failed on the way, and for none twice (crawler.py       *)
(* crawl, _should_enqueue).                                                *)
CrawlComplete ==
  /\ \A i, j \in DOMAIN asked : asked[i].url = asked[j].url => i = j
  /\ crawlPc = "done" /\ frontier = <<>> /\ MaxDepth >= 0 =>
       Within[MaxDepth] \subseteq {item.url : item \in ToSet(asked)} \cup {RobotsUrl}

(* No more pages are parsed than max_pages allows, however many requests   *)
(* fail; and at the end every URL that was found has been requested or is  *)
(* counted as skipped, also what was still queued (crawler.py:222).        *)
CrawlAccounts ==
  /\ site.maxPages > 0 => Cardinality(parsed) <= site.maxPages
  /\ crawlPc = "done" =>
       Cardinality(visited \ {RobotsUrl}) <= Len(asked) + skipped

(* What a crawl reports is the reachable site within its limits, each page *)
(* asked once at its true depth and nothing found unaccounted for.         *)
CrawlFaithful == DepthTrue /\ CrawlComplete /\ CrawlAccounts
=============================================================================
