---------------------------- MODULE MCProxyServer ----------------------------
(***************************************************************************)
(* Two requests.  Lists of four upstreams and of one: retry loops of one   *)
(* and of three turns, a loop that others overtake within a pass of the    *)
(* list and beyond it, and lists that shrink under it.  And a list of two  *)
(* alone.                                                                  *)
(***************************************************************************)
EXTENDS ProxyServer

CONSTANTS a, b, c, d

MCOneList == {<<a, b>>}
MCLists == {<<a, b, c, d>>, <<b>>}
=============================================================================
