------------------------------- MODULE Client -------------------------------
(***************************************************************************)
(* A Client as a call of Discovery sees it, which is as New of             *)
(* Construction leaves it: the methods in their order, what kind of        *)
(* discoverer each name has (none when it is not in the domain), how many  *)
(* targets a built-in one has, and the two durations.                      *)
(***************************************************************************)
EXTENDS Integers, Sequences

Kinds == {"stun", "query", "custom"}

IsClient(c) ==
  /\ DOMAIN c = {"methods", "kind", "targets", "timeout", "attemptTimeout"}
  /\ c.methods \in Seq({c.methods[i] : i \in DOMAIN c.methods})
  /\ \A m \in DOMAIN c.kind : c.kind[m] \in Kinds
  /\ DOMAIN c.targets = DOMAIN c.kind
  /\ \A m \in DOMAIN c.kind : c.targets[m] \in Nat
  /\ c.timeout \in Nat /\ c.attemptTimeout \in Nat \ {0}
=============================================================================
