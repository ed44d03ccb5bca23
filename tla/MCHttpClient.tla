---------------------------- MODULE MCHttpClient ----------------------------
(* Small instances of HttpClient. *)
EXTENDS HttpClient, TLC

CONSTANTS t1, t2, t3

\* With session rules one sender, who always finds a permit for the sends he
\* nests, or two, who may not; without, three who share two permits.
SomeSetups ==
  {[engine |-> TRUE, users |-> {t1}],
   [engine |-> TRUE, users |-> {t1, t2}],
   [engine |-> FALSE, users |-> {t1, t2, t3}]}

=============================================================================
