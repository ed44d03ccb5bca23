--------------------------- MODULE StreamContract ---------------------------
(***************************************************************************)
(* What GET /api/scans/{id}/stream promises to those who open it: a        *)
(* listener hears every event announced for its scan from the moment it    *)
(* joined, one after the other and each once, up to the moment the scan's  *)
(* channel is closed; having heard all of them it is told that the stream  *)
(* is over.  It may leave before, and a crash sends everybody away.        *)
(***************************************************************************)
EXTENDS Naturals

CONSTANTS
  Clients,
  Scans,
  Wrap,   \* events are numbered modulo Wrap
  Away    \* the place of a client that hears nothing

VARIABLES
  said,   \* number of the last event announced for each scan
  place   \* Away, or what a client listens to, what it heard last, how many
          \* events it is owed, and whether there may be more

contractVars == <<said, place>>

Place(s, heard, due, open) ==
  [scan |-> s, heard |-> heard, due |-> due, open |-> open]

Follower(n) == (n + 1) % Wrap

(* Everyone who listens to s is owed n more events, and more may follow.   *)
Owe(s, n, more) ==
  place' = [c \in Clients |->
    IF place[c] # Away /\ place[c].scan = s /\ place[c].open
    THEN Place(s, place[c].heard, place[c].due + n, more) ELSE place[c]]

Say(s) == said' = [said EXCEPT ![s] = Follower(@)]

Announce(s)     == Say(s) /\ Owe(s, 1, TRUE)
Close(s)        == UNCHANGED said /\ Owe(s, 0, FALSE)
AnnounceLast(s) == Say(s) /\ Owe(s, 1, FALSE)

Join(c, s) ==
  /\ place[c] = Away
  /\ place' = [place EXCEPT ![c] = Place(s, said[s], 0, TRUE)]
  /\ UNCHANGED said

Hear(c) ==
  /\ place[c] # Away /\ place[c].due > 0
  /\ place' = [place EXCEPT ![c] =
                 Place(@.scan, Follower(@.heard), @.due - 1, @.open)]
  /\ UNCHANGED said

Leave(c) ==
  /\ place[c] # Away
  /\ place' = [place EXCEPT ![c] = Away]
  /\ UNCHANGED said

(* The end of the stream: everything was heard and nothing will follow.    *)
Over(c) == place[c] # Away /\ place[c].due = 0 /\ ~place[c].open
End(c)  == Over(c) /\ Leave(c)

Lost ==
  /\ said' = [s \in Scans |-> 0]
  /\ place' = [c \in Clients |-> Away]

Init ==
  /\ said = [s \in Scans |-> 0]
  /\ place = [c \in Clients |-> Away]

Next ==
  \/ \E s \in Scans : Announce(s) \/ Close(s) \/ AnnounceLast(s)
  \/ \E c \in Clients : Hear(c) \/ Leave(c) \/ \E s \in Scans : Join(c, s)
  \/ Lost

Safe == Init /\ [][Next]_contractVars

(* What a listener is owed it hears, and it is told the end.               *)
Spec == Safe /\ \A c \in Clients : WF_contractVars(Hear(c) \/ End(c))
=============================================================================
