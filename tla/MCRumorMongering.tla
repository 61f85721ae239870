-------------------------- MODULE MCRumorMongering --------------------------
(***************************************************************************)
(* Instances of RumorMongering for TLC: gossipers in a line, each knowing  *)
(* only the next one, as in test_2_rumor_mongering.sh.  The others learn   *)
(* of their neighbours from the packets they get.                          *)
(***************************************************************************)
EXTENDS RumorDelivery, TLC

CONSTANTS a, b, c, route, hello

\* Who issues how many rumors for its client
TwoFromA == (a :> 2) @@ (b :> 0) @@ (c :> 0)
OneOfPair == (a :> 1) @@ (b :> 0)
TwoOfPair == (a :> 2) @@ (b :> 0)

LinePeers == (a :> {b}) @@ (b :> {c}) @@ (c :> {})
PairPeers == (a :> {b}) @@ (b :> {})

\* Nobody knows anyone until the web page tells a of b.
NoPeers == (a :> {}) @@ (b :> {})
AToldOfB == {<<a, b>>}
=============================================================================
