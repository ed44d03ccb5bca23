------------------------------- MODULE Access -------------------------------
(***************************************************************************)
(* Who a request is taken for, and who the audit log says it was, while an *)
(* operator rotates, adds and removes keys.  The server reads raw keys in  *)
(* two places and hashes in two more, afresh for every request; each       *)
(* command changes some of them.  A session cookie is signed with the key  *)
(* it was issued for.  The audit entry is written after the response.      *)
(***************************************************************************)
EXTENDS Naturals, Sequences, FiniteSets

CONSTANTS
  Keys,       \* API keys
  Installed,  \* those that may be configured at the start
  Callers,    \* requests in a behaviour
  MaxClock,   \* bound on the clock
  MaxLogins,  \* bound on the sessions
  Ttl         \* SESSION_TTL_SECONDS

ASSUME AccessAssumption ==
  /\ Installed \subseteq Keys /\ Keys \cap {"anonymous", "loopback"} = {}
  /\ MaxClock \in Nat /\ MaxLogins \in Nat /\ Ttl \in Nat

VARIABLES
  env,        \* keys in the environment of the server
  file,       \* keys in the key file
  single,     \* the key whose hash is auth.api_key_hash, if there is one
  listed,     \* keys whose hashes are in auth.api_key_hashes
  rotating,   \* the key of a rotation that has written the key file only
  minted,     \* keys there are
  past,       \* history: what the commands have done to which key
  clock,      \* seconds, coarsely
  cookies,    \* session cookies issued
  caller,     \* the requests: where each is, and who it is taken for
  audit       \* the audit log

keyVars == <<env, file, single, listed, rotating, minted, past>>
accessVars == <<keyVars, clock, cookies, caller, audit>>

Raw == env \cup file
Hashed == single \cup listed

Waiting == [pc |-> "idle"]

AccessOff ==
  /\ env = {} /\ file = {} /\ single = {} /\ listed = {} /\ rotating = {} /\ minted = {}
  /\ past = {} /\ clock = 0 /\ cookies = {} /\ audit = <<>>
  /\ caller = [c \in Callers |-> [pc |-> "off"]]

AccessInit ==
  /\ env \in SUBSET Installed /\ file \in SUBSET Installed /\ listed \in SUBSET Installed
  /\ single \in {{}} \cup {{key} : key \in Installed}
  /\ rotating = {} /\ minted = Installed /\ past = {}
  /\ clock = 0 /\ cookies = {} /\ audit = <<>>
  /\ caller = [c \in Callers |-> Waiting]

Live == \A c \in Callers : caller[c].pc # "off"

-----------------------------------------------------------------------------
(* The commands of the operator, one at a time.                            *)
Deed(what, key) == [did |-> what, key |-> key]

(* Faulty form: the new key joins those of the file, which may be several. *)
RewrittenJoined(key) == file \cup {key}

Rewritten(key) == {key}

(* rotate-key writes a new key to the key file ...                         *)
RotateFile ==
  /\ Live /\ rotating = {}
  /\ \E key \in Keys \ minted :
       /\ file' = Rewritten(key) /\ rotating' = {key} /\ minted' = minted \cup {key}
       /\ past' = past \cup {Deed("retired", old) : old \in file}
  /\ UNCHANGED <<env, single, listed, clock, cookies, caller, audit>>

(* ... then its hash to config.yaml, unless there is none, the server uses *)
(* another one (REDVEIL_CONFIG), or the command was broken off.            *)
RotateHash ==
  /\ Live /\ rotating # {} /\ rotating' = {}
  /\ single' \in {rotating, single}
  /\ UNCHANGED <<env, file, listed, minted, past, clock, cookies, caller, audit>>

(* add-key: the new key is printed and its hash is listed, with the one    *)
(* that was single.                                                        *)
AddKey ==
  /\ Live /\ rotating = {}
  /\ \E key \in Keys \ minted :
       /\ listed' = listed \cup single \cup {key} /\ single' = {}
       /\ minted' = minted \cup {key} /\ past' = past \cup {Deed("added", key)}
  /\ UNCHANGED <<env, file, rotating, clock, cookies, caller, audit>>

(* remove-key: a hash that is in both places is refused as ambiguous.      *)
RemoveKey ==
  /\ Live /\ rotating = {}
  /\ \E key \in Hashed \ (single \cap listed) :
       /\ single' = single \ {key} /\ listed' = listed \ {key}
       /\ past' = past \cup {Deed("removed", key)}
  /\ UNCHANGED <<env, file, rotating, minted, clock, cookies, caller, audit>>

Passes ==
  /\ Live /\ clock < MaxClock /\ clock' = clock + 1
  /\ UNCHANGED <<keyVars, cookies, caller, audit>>

-----------------------------------------------------------------------------
(* login: a raw key or one whose hash is configured gets a cookie.         *)
Login ==
  /\ Live /\ Cardinality(cookies) < MaxLogins
  /\ \E key \in Raw \cup Hashed : cookies' = cookies \cup {[signer |-> key, issued |-> clock]}
  /\ UNCHANGED <<keyVars, clock, caller, audit>>

(* validate_session_cookie_any: only raw keys can check a signature.       *)
Valid(cookie) == cookie.signer \in Raw /\ clock - cookie.issued <= Ttl

(* What a request carries: nothing, a key in the header, a cookie; or it   *)
(* comes from the loopback interface.                                      *)
Presents ==
  [by : {"nothing", "loopback"}]
  \cup [by : {"header"}, key : Keys]
  \cup [by : {"cookie"}, cookie : cookies]

Authenticated(p) ==
  CASE p.by = "loopback" -> TRUE
    [] p.by = "header"   -> p.key \in Raw \cup Hashed
    [] p.by = "cookie"   -> Valid(p.cookie)
    [] OTHER             -> FALSE

(* _resolve_actor: the suffix of the key, if the server holds it; whoever  *)
(* else is authenticated is called loopback.                               *)
Actor(p) ==
  IF ~Authenticated(p) THEN "anonymous"
  ELSE CASE p.by = "header" /\ p.key \in Raw -> p.key
         [] p.by = "cookie"                  -> p.cookie.signer
         [] OTHER                            -> "loopback"

Arrive(c) ==
  /\ caller[c].pc = "idle"
  /\ \E p \in Presents :
       caller' = [caller EXCEPT ![c] =
         [pc |-> "route", presents |-> p, since |-> clock, past |-> past,
          auth |-> Authenticated(p), actor |-> Actor(p), result |-> "none"]]
  /\ UNCHANGED <<keyVars, clock, cookies, audit>>

(* The route answers; 409 stands for the refusals that are neither an      *)
(* authorisation nor a missing row.  Some routes refuse who is not         *)
(* authenticated.                                                          *)
Codes(r) == {202, 403, 404, 409, 500} \cup IF r.auth THEN {} ELSE {401}

ResultOf(answer) ==
  CASE answer \in {401, 403} -> "denied"
    [] answer = 404          -> "not_found"
    [] OTHER                 -> "allowed"

Route(c) ==
  /\ caller[c].pc = "route"
  /\ \E answer \in Codes(caller[c]) :
       caller' = [caller EXCEPT ![c] = [@ EXCEPT !.pc = "audit", !.result = ResultOf(answer)]]
  /\ UNCHANGED <<keyVars, clock, cookies, audit>>

Entry(c) == [of |-> c, actor |-> caller[c].actor, result |-> caller[c].result]

(* The entry, unless the route raised through the middleware or the write  *)
(* of the entry fails, which is only logged.                               *)
WriteEntry(c) ==
  /\ caller[c].pc = "audit"
  /\ \/ audit' = Append(audit, Entry(c)) /\ caller' = [caller EXCEPT ![c].pc = "written"]
     \/ UNCHANGED audit /\ caller' = [caller EXCEPT ![c].pc = "lost"]
  /\ UNCHANGED <<keyVars, clock, cookies>>

AccessNext ==
  \/ RotateFile \/ RotateHash \/ AddKey \/ RemoveKey
  \/ Login \/ Passes
  \/ \E c \in Callers : Arrive(c) \/ Route(c) \/ WriteEntry(c)

AccessSpec == AccessInit /\ [][AccessNext]_accessVars

-----------------------------------------------------------------------------
(* Request c came from elsewhere and was taken for authenticated, by this  *)
(* key, with which the commands had done this before it came.              *)
Honoured(c) ==
  caller[c].pc \notin {"off", "idle"} /\ caller[c].auth /\ caller[c].presents.by # "loopback"
KeyOf(p) == IF p.by = "header" THEN p.key ELSE p.cookie.signer
Had(c, what) == Deed(what, KeyOf(caller[c].presents)) \in caller[c].past

(* A rotation ends the sessions of the keys it replaces (cli_auth.py:20),  *)
(* whatever keys are added and removed after it, but for a key the         *)
(* environment holds as well; a session ends with its time; and one of a   *)
(* key that add-key made is never honoured, though the login gave it.      *)
SessionsEnd ==
  \A c \in Callers : Honoured(c) /\ caller[c].presents.by = "cookie" =>
    /\ caller[c].since <= caller[c].presents.cookie.issued + Ttl
    /\ Had(c, "retired") => caller[c].presents.cookie.signer \in env
    /\ ~Had(c, "added")

(* A key that was both rotated away and removed, in whatever order, opens  *)
(* nothing, but for one the environment holds.  After one of the two alone *)
(* it may: remove-key takes only the hash and leaves the key in the file,  *)
(* rotate-key leaves the listed hashes, to which add-key has moved the     *)
(* first one (cli_auth.py:71, 128).                                        *)
KeysEnd ==
  \A c \in Callers : Honoured(c) =>
    (Had(c, "retired") /\ Had(c, "removed") => KeyOf(caller[c].presents) \in env)

(* An entry of the log never names a key that was rotated away before the  *)
(* request came and that the environment does not hold; and it says        *)
(* loopback of a request from elsewhere only when that one sent a key      *)
(* the environment does not hold (middleware.py:165).                      *)
ActorsKnown ==
  \A i \in DOMAIN audit :
    LET r == caller[audit[i].of] IN
    /\ audit[i].actor \in Keys \ env => Deed("retired", audit[i].actor) \notin r.past
    /\ audit[i].actor = "loopback" =>
         \/ r.presents.by = "loopback"
         \/ r.presents.by = "header" /\ r.presents.key \notin env

(* What the operator takes away stays away, from the sessions, from the    *)
(* header and from the names in the log.                                   *)
AccessTruthful == SessionsEnd /\ KeysEnd /\ ActorsKnown
=============================================================================
