------------------------------ MODULE MCCommand -----------------------------
(***************************************************************************)
(* Command lines for the run of Command: each family and method with one   *)
(* call and with all, text and JSON, quiet and verbose; and those that run *)
(* rejects.                                                                *)
(***************************************************************************)
EXTENDS Command, TLC

Line(ipVersion, method, timeout, all) ==
  [info : {FALSE}, ipVersion : {ipVersion}, method : {method}, timeout : {timeout},
   all : {all}, json : BOOLEAN, verbose : BOOLEAN]

\* A timeout of 5 does not fit a Duration of 4 bits with two units to a second.
MCFlagSets ==
  (UNION {Line(v, "", t, TRUE) : v \in {"", "6"}, t \in {1, 2, 5}})
  \cup (UNION {Line(v, m, 1, FALSE) : v \in {"", "4"}, m \in {"", "stun", "dns"}})
  \cup Line("5", "", 1, FALSE) \cup Line("", "ping", 1, TRUE) \cup Line("", "", 0, TRUE)
  \cup {[f EXCEPT !.info = TRUE] : f \in Line("", "", 1, FALSE)}

\* The addresses of the host are interchangeable.
MCSymmetry == Permutations(Hosts)
=============================================================================
