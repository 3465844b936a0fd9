---------------------------- MODULE MCAlbumCollector ----------------------------
(***************************************************************************)
(* A small instance of AlbumCollector for TLC: one album under two rules.  *)
(***************************************************************************)
EXTENDS AlbumCollector

CONSTANTS a, d1, d2

OneAlbum == [m \in Members |-> a]

TwoRules == <<1, 2>>

\* The first rule copies and names a destination twice, the second forwards natively.
Destinations == <<<<d1, d1>>, <<d2>>>>
================================================================================
