--------------------------- MODULE BindingResponse --------------------------
(***************************************************************************)
(* parseBindingResponse of stun.go: which address a datagram carries.  The *)
(* bytes come from the network, so every length and type read from them is *)
(* any 16-bit number; of an address only where it was found is kept.       *)
(* Each slice expression of the code is recorded, so that what Go checks   *)
(* when it runs them can be stated.                                        *)
(***************************************************************************)
EXTENDS Integers, Sequences

CONSTANTS
  DataLengths,  \* the sizes of a datagram; the read buffer is 1024 bytes
  BodyLengths,  \* the message lengths a header may state
  AttrLengths   \* the lengths an attribute may state

ASSUME BindingResponseAssumption ==
  /\ DataLengths \subseteq Nat
  /\ BodyLengths \subseteq Nat
  /\ AttrLengths \subseteq Nat

VARIABLES
  data,    \* len(data)
  attrs,   \* len(attrs): the attributes that are not parsed yet
  ip,      \* where the address was found, "nowhere" for nil
  pc,      \* "start", "loop", "error" or "found"
  slices,  \* the slices taken in the last step: <<low, high, length>>
  seen     \* the address attributes passed, in order: type, and if well formed

vars == <<data, attrs, ip, pc, slices, seen>>

stunHeaderSize == 20

AddressAttributes == {"xor", "mapped"}

TypeOK ==
  /\ data \in Nat /\ attrs \in Nat
  /\ ip \in AddressAttributes \cup {"nowhere"}
  /\ pc \in {"start", "loop", "error", "found"}
  /\ slices \subseteq Int \X Int \X Int
  /\ seen \in Seq([type : AddressAttributes, good : BOOLEAN])

Init ==
  /\ data \in DataLengths
  /\ attrs = 0
  /\ ip = "nowhere"
  /\ pc = "start"
  /\ slices = {}
  /\ seen = <<>>

\* A datagram too short, of another type, with another cookie or another
\* transaction.
RejectHeader ==
  /\ pc = "start"
  /\ pc' = "error"
  /\ slices' = IF data < stunHeaderSize THEN {} ELSE {<<8, stunHeaderSize, data>>}
  /\ UNCHANGED <<data, attrs, ip, seen>>

\* The body the header states is there.
Complete(body) == data >= stunHeaderSize + body

AcceptHeader ==
  /\ pc = "start" /\ data >= stunHeaderSize
  /\ \E body \in BodyLengths :
       /\ Complete(body)
       /\ attrs' = body
       /\ slices' = {<<8, stunHeaderSize, data>>,
                     <<stunHeaderSize, stunHeaderSize + body, data>>}
  /\ pc' = "loop"
  /\ UNCHANGED <<data, ip, seen>>

\* The size of the address field of a family; there is no third family.
AddressSize(family) == IF family = "4" THEN 4 ELSE 16

\* MUTANT: the length is checked once, for both families.
GoodAddress_OneCheck(length, family) == family \in {"4", "6"} /\ length >= 8

\* parseXORMappedAddress and parseMappedAddress differ in the key only.
GoodAddress(length, family) ==
  \/ family = "4" /\ length >= 8
  \/ family = "6" /\ length >= 20

AddressSlices(length, family) ==
  (IF length >= 8 THEN {<<1, 2, length>>} ELSE {})
  \cup (IF GoodAddress(length, family)
        THEN {<<4, 4 + AddressSize(family), length>>} ELSE {})

\* MUTANT: the last attribute with an address wins.
Found_Last(type, good) == IF good THEN type ELSE ip

\* XOR-MAPPED-ADDRESS always sets ip, to nil when it is malformed;
\* MAPPED-ADDRESS only when there is none.
Found(type, good) ==
  IF type = "xor" \/ ip = "nowhere"
  THEN IF good THEN type ELSE "nowhere"
  ELSE ip

Padding(length) == (4 - (length % 4)) % 4

\* MUTANT: an attribute of length zero is not stepped over.
Advance_Value(length) == length + Padding(length)

\* From one attribute to the next.
Advance(length) == 4 + length + Padding(length)

\* MUTANT: padding is taken for granted.
Padded_Assumed(length) == TRUE

\* The padding of the last attribute may be missing.
Padded(length) == Advance(length) <= attrs

\* What is returned when the loop ends with ip.
Outcome(found) == IF found = "nowhere" THEN "error" ELSE "found"

\* One turn of the loop, for an attribute that is there.
Turn(length, type, family) ==
  LET address == type \in AddressAttributes
      good    == GoodAddress(length, family)
      found   == IF address THEN Found(type, good) ELSE ip
  IN
  /\ attrs >= 4 + length
  /\ ip' = found
  /\ seen' = IF address THEN Append(seen, [type |-> type, good |-> good]) ELSE seen
  /\ slices' =
       {<<2, 4, attrs>>, <<4, 4 + length, attrs>>}
       \cup (IF address /\ (type = "xor" \/ ip = "nowhere")
             THEN AddressSlices(length, family) ELSE {})
       \cup (IF Padded(length) THEN {<<Advance(length), attrs, attrs>>} ELSE {})
  /\ IF Padded(length)
     THEN attrs' = attrs - Advance(length) /\ UNCHANGED pc
     ELSE pc' = Outcome(found) /\ UNCHANGED attrs

Attribute ==
  /\ pc = "loop" /\ attrs >= 4
  /\ \E length \in AttrLengths, type \in AddressAttributes \cup {"other"},
        family \in {"4", "6", "none"} : Turn(length, type, family)
  /\ UNCHANGED data

\* An attribute that says it is longer than what is left ends the loop.
Truncated ==
  /\ pc = "loop" /\ attrs >= 4
  /\ \E length \in AttrLengths : attrs < 4 + length
  /\ slices' = {<<2, 4, attrs>>}
  /\ pc' = Outcome(ip)
  /\ UNCHANGED <<data, attrs, ip, seen>>

LoopEnds ==
  /\ pc = "loop" /\ attrs < 4
  /\ slices' = {}
  /\ pc' = Outcome(ip)
  /\ UNCHANGED <<data, attrs, ip, seen>>

Returned == pc \in {"error", "found"} /\ UNCHANGED vars

Parse == RejectHeader \/ AcceptHeader \/ Attribute \/ Truncated \/ LoopEnds

Next == Parse \/ Returned

Spec == Init /\ [][Next]_vars /\ WF_vars(Parse)
-----------------------------------------------------------------------------
(* Properties.                                                             *)

\* No datagram makes the parser panic: each slice is within what it cuts.
SlicesInBounds ==
  \A s \in slices : 0 <= s[1] /\ s[1] <= s[2] /\ s[2] <= s[3]

\* What the address is, from all the address attributes at once: an address
\* counts if no XOR-MAPPED-ADDRESS, good or bad, comes after it, and among those
\* the one in an XOR-MAPPED-ADDRESS comes first.
Decides(s, type) ==
  \E i \in DOMAIN s :
    /\ s[i] = [type |-> type, good |-> TRUE]
    /\ \A j \in DOMAIN s : s[j].type = "xor" => j <= i

Answer(s) ==
  IF Decides(s, "xor") THEN "xor"
  ELSE IF Decides(s, "mapped") THEN "mapped" ELSE "nowhere"

\* The loop, which looks at one attribute after the other, finds that address,
\* wherever the message is cut off, and fails only when there is none.
FindsTheAnswer ==
  /\ ip = Answer(seen)
  /\ pc = "found" => ip # "nowhere"
  /\ pc = "error" => ip = "nowhere"

\* Each turn of the loop takes at least a header from the attributes that are
\* left, or is the last one, whatever lengths they state.
LoopShrinks == [][pc = "loop" /\ pc' = "loop" => attrs' <= attrs - 4]_vars
=============================================================================
