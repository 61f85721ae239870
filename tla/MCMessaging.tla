------------------------------ MODULE MCMessaging ------------------------------
(***************************************************************************)
(* An instance of Messaging for TLC: a, b and d know each other, so that   *)
(* there are two ways between any two of them, and r, s and t form a line  *)
(* in simple mode, where t learns of s from a packet.                      *)
(***************************************************************************)
EXTENDS Messaging, TLC

CONSTANTS a, b, d, r, s, t

Islands ==
  [g \in Gossiper |-> IF g \in {a, b, d} THEN {a, b, d} \ {g}
                      ELSE IF g = r THEN {s} ELSE IF g = s THEN {r, t} ELSE {}]

Rumors == (a :> 1) @@ (b :> 0) @@ (d :> 2) @@ (r :> 0) @@ (s :> 0) @@ (t :> 0)

\* One packet is doubled, of those kinds whose arrivals are counted.
Doubled(kinds) == [k \in Kinds |-> IF k \in kinds THEN 1 ELSE 0]
OneDoubled == {Doubled({}), Doubled({"private"}), Doubled({"simple"})}

Sent(kind, from, to) == [kind |-> kind, origin |-> from, dst |-> to]

Messages ==
  {Sent("private", a, d), Sent("private", b, b), Sent("dataRequest", a, d),
   Sent("searchReply", d, a), Sent("simple", r, r)}

\* The line r, s, t is what SimpleShownOnce is meant for.
ASSUME LineAssumption == SimpleNetsAreTrees /\ OneSimpleEach
===============================================================================
