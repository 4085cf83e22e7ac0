--------------------------- MODULE MCRateLimiter ---------------------------
(***************************************************************************)
(* RateLimiter with two users behind one address, who also call without a  *)
(* session.  The table holds two of the three keys.                        *)
(***************************************************************************)
EXTENDS RateLimiter, TLC

CONSTANTS alice, bob, ip

MCKeyLists == {<<alice, ip>>, <<bob, ip>>, <<ip>>}

\* The two users are interchangeable, and so are the requests.
Interchangeable == Permutations({alice, bob}) \cup Permutations(Requests)

=============================================================================
