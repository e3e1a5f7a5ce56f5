------------------------ MODULE BindingResponseProofs -----------------------
(***************************************************************************)
(* What BindingResponse.cfg checks for a few lengths, for all of them.     *)
(***************************************************************************)
EXTENDS BindingResponse, TLAPS

\* Padding brings a length to the next multiple of four.
LEMMA PaddingBounds ==
  ASSUME NEW length \in Nat
  PROVE  Padding(length) \in 0 .. 3
BY SMT DEF Padding

\* An address is sliced within the value of its attribute.
LEMMA AddressSlicesInValue ==
  ASSUME NEW length \in Nat, NEW family \in {"4", "6", "none"},
         NEW s \in AddressSlices(length, family)
  PROVE  /\ s \in Int \X Int \X Int
         /\ 0 <= s[1] /\ s[1] <= s[2] /\ s[2] <= s[3]
BY SMT DEF AddressSlices, GoodAddress, AddressSize

\* Every slice a turn of the loop takes is good, for any lengths.
LEMMA AttributeSlices ==
  ASSUME TypeOK, Attribute
  PROVE  SlicesInBounds' /\ slices' \subseteq Int \X Int \X Int
<1> PICK length \in AttrLengths, type \in AddressAttributes \cup {"other"},
         family \in {"4", "6", "none"} : Turn(length, type, family)
  BY DEF Attribute
<1>1. length \in Nat /\ attrs \in Nat /\ attrs >= 4
  BY BindingResponseAssumption DEF TypeOK, Attribute
<1>2. Advance(length) \in Nat
  BY <1>1, PaddingBounds DEF Advance
<1>3. ASSUME NEW s \in slices'
      PROVE  /\ s \in Int \X Int \X Int
             /\ 0 <= s[1] /\ s[1] <= s[2] /\ s[2] <= s[3]
  <2>1. CASE s = <<2, 4, attrs>>
    BY <1>1, <2>1
  <2>2. CASE s = <<4, 4 + length, attrs>>
    BY <1>1, <2>2 DEF Turn
  <2>3. CASE s \in AddressSlices(length, family)
    BY <1>1, <2>3, AddressSlicesInValue
  <2>4. CASE Padded(length) /\ s = <<Advance(length), attrs, attrs>>
    BY <1>1, <1>2, <2>4 DEF Padded
  <2> QED BY <1>3, <2>1, <2>2, <2>3, <2>4 DEF Turn
<1> QED BY <1>3 DEF SlicesInBounds

\* A further attribute settles the answer the way the loop does.
LEMMA AnswerAppend ==
  ASSUME NEW s \in Seq([type : AddressAttributes, good : BOOLEAN]),
         NEW type \in AddressAttributes, NEW good \in BOOLEAN
  PROVE  Answer(Append(s, [type |-> type, good |-> good])) =
           IF type = "xor" \/ Answer(s) = "nowhere"
           THEN IF good THEN type ELSE "nowhere"
           ELSE Answer(s)
<1> DEFINE a == [type |-> type, good |-> good]
           t == Append(s, a)
<1>1. /\ DOMAIN t = 1 .. Len(s) + 1 /\ DOMAIN s = 1 .. Len(s) /\ Len(s) \in Nat
      /\ t[Len(s) + 1] = a
      /\ \A i \in DOMAIN s : t[i] = s[i]
  OBVIOUS
<1>2. a.type = type /\ a.good = good
  OBVIOUS
<1> HIDE DEF a, t
<1>3. CASE type = "xor"
  <2>1. ASSUME NEW k \in AddressAttributes
        PROVE  Decides(t, k) <=> k = "xor" /\ good
    <3>1. ASSUME NEW i \in DOMAIN t, i # Len(s) + 1
          PROVE  ~ \A j \in DOMAIN t : t[j].type = "xor" => j <= i
      BY <1>1, <1>2, <1>3, <3>1
    <3>2. \A j \in DOMAIN t : t[j].type = "xor" => j <= Len(s) + 1
      BY <1>1
    <3>3. ASSUME Decides(t, k) PROVE a = [type |-> k, good |-> TRUE]
      BY <1>1, <3>1, <3>3 DEF Decides
    <3>4. ASSUME a = [type |-> k, good |-> TRUE] PROVE Decides(t, k)
      BY <1>1, <3>2, <3>4 DEF Decides
    <3> QED BY <1>2, <1>3, <3>3, <3>4 DEF a
  <2> QED BY <1>3, <2>1 DEF Answer, AddressAttributes, a, t
<1>4. CASE type = "mapped"
  <2>1. ASSUME NEW k \in AddressAttributes
        PROVE  Decides(t, k) <=> Decides(s, k) \/ (k = "mapped" /\ good)
    <3>1. \A i \in DOMAIN t : t[i].type = "xor" => i \in DOMAIN s
      BY <1>1, <1>2, <1>4
    <3>2. ASSUME NEW i \in DOMAIN s
          PROVE  (\A j \in DOMAIN t : t[j].type = "xor" => j <= i) <=>
                 (\A j \in DOMAIN s : s[j].type = "xor" => j <= i)
      BY <1>1, <3>1
    <3>3. \A j \in DOMAIN t : t[j].type = "xor" => j <= Len(s) + 1
      BY <1>1
    <3>4. ASSUME Decides(t, k)
          PROVE  Decides(s, k) \/ a = [type |-> k, good |-> TRUE]
      <4> PICK i \in DOMAIN t :
            /\ t[i] = [type |-> k, good |-> TRUE]
            /\ \A j \in DOMAIN t : t[j].type = "xor" => j <= i
        BY <3>4 DEF Decides
      <4>1. CASE i = Len(s) + 1
        BY <1>1, <4>1
      <4>2. CASE i # Len(s) + 1
        <5>1. i \in DOMAIN s
          BY <1>1, <4>2
        <5>2. \A j \in DOMAIN s : s[j].type = "xor" => j <= i
          BY <3>2, <5>1
        <5>3. s[i] = [type |-> k, good |-> TRUE]
          BY <1>1, <5>1, Zenon
        <5> QED BY <5>1, <5>2, <5>3 DEF Decides
      <4> QED BY <4>1, <4>2
    <3>5. ASSUME Decides(s, k) PROVE Decides(t, k)
      <4> PICK i \in DOMAIN s :
            /\ s[i] = [type |-> k, good |-> TRUE]
            /\ \A j \in DOMAIN s : s[j].type = "xor" => j <= i
        BY <3>5 DEF Decides
      <4>1. i \in DOMAIN t
        BY <1>1
      <4>2. \A j \in DOMAIN t : t[j].type = "xor" => j <= i
        BY <3>2
      <4>3. t[i] = [type |-> k, good |-> TRUE]
        BY <1>1, Zenon
      <4> QED BY <4>1, <4>2, <4>3 DEF Decides
    <3>6. ASSUME a = [type |-> k, good |-> TRUE] PROVE Decides(t, k)
      BY <1>1, <3>3, <3>6 DEF Decides
    <3> QED BY <1>2, <1>4, <3>4, <3>5, <3>6 DEF a
  <2> QED BY <1>4, <2>1 DEF Answer, AddressAttributes, a, t
<1> QED BY <1>3, <1>4 DEF AddressAttributes, a, t

-----------------------------------------------------------------------------
IInv ==
  /\ TypeOK /\ SlicesInBounds /\ FindsTheAnswer
  /\ pc = "start" => ip = "nowhere"

LEMMA InitIInv == Init => IInv
<1> SUFFICES ASSUME Init PROVE IInv OBVIOUS
<1>1. TypeOK
  BY BindingResponseAssumption DEF Init, TypeOK
<1>2. Answer(<<>>) = "nowhere"
  BY DEF Answer, Decides
<1> QED BY <1>1, <1>2 DEF Init, IInv, SlicesInBounds, FindsTheAnswer

\* Attribute keeps the types and finds what Answer says.
LEMMA AttributeKeeps ==
  ASSUME IInv, Attribute
  PROVE  TypeOK' /\ FindsTheAnswer'
<1> USE DEF AddressAttributes
<1> PICK length \in AttrLengths, type \in AddressAttributes \cup {"other"},
         family \in {"4", "6", "none"} : Turn(length, type, family)
  BY DEF Attribute
<1> DEFINE good  == GoodAddress(length, family)
           found == IF type \in AddressAttributes THEN Found(type, good) ELSE ip
<1>1. good \in BOOLEAN /\ length \in Nat
  BY BindingResponseAssumption DEF GoodAddress
<1>2. ip' = found /\ found \in AddressAttributes \cup {"nowhere"}
  BY DEF Turn, Found, IInv, TypeOK
<1>3. seen' \in Seq([type : AddressAttributes, good : BOOLEAN])
  <2>1. CASE type \in AddressAttributes
    <3>1. [type |-> type, good |-> good] \in [type : AddressAttributes, good : BOOLEAN]
      BY <1>1, <2>1
    <3>2. seen' = Append(seen, [type |-> type, good |-> good])
      BY <2>1 DEF Turn
    <3> QED BY <3>1, <3>2 DEF IInv, TypeOK
  <2>2. CASE type \notin AddressAttributes
    BY <2>2 DEF Turn, IInv, TypeOK
  <2> QED BY <2>1, <2>2
<1>4. attrs' \in Nat /\ pc' \in {"loop", Outcome(found)}
  <2>1. attrs \in Nat /\ pc = "loop" /\ Advance(length) \in Nat
    BY <1>1, PaddingBounds DEF Advance, IInv, TypeOK, Attribute
  <2>2. CASE Padded(length)
    <3>1. attrs' = attrs - Advance(length) /\ pc' = pc
      BY <2>2 DEF Turn
    <3> QED BY <2>1, <2>2, <3>1 DEF Padded
  <2>3. CASE ~ Padded(length)
    <3>1. attrs' = attrs /\ pc' = Outcome(found)
      BY <2>3 DEF Turn
    <3> QED BY <2>1, <3>1
  <2> QED BY <2>2, <2>3
<1>5. TypeOK'
  BY <1>2, <1>3, <1>4, AttributeSlices
     DEF IInv, TypeOK, Attribute, Outcome
<1>6. ip' = Answer(seen')
  <2>1. CASE type \in AddressAttributes
    BY <1>1, <2>1, AnswerAppend DEF Turn, Found, IInv, TypeOK, FindsTheAnswer
  <2>2. CASE type \notin AddressAttributes
    BY <2>2 DEF Turn, IInv, FindsTheAnswer
  <2> QED BY <2>1, <2>2
<1> QED BY <1>2, <1>4, <1>5, <1>6 DEF FindsTheAnswer, Outcome

LEMMA StepIInv == IInv /\ [Next]_vars => IInv'
<1> SUFFICES ASSUME IInv, [Next]_vars PROVE IInv'
  OBVIOUS
<1> USE DEF AddressAttributes
<1>1. CASE RejectHeader
  <2>1. \/ slices' = {}
        \/ data >= 20 /\ slices' = {<<8, 20, data>>}
    BY <1>1 DEF RejectHeader, IInv, TypeOK, stunHeaderSize
  <2>2. slices' \subseteq Int \X Int \X Int /\ SlicesInBounds'
    BY <2>1 DEF IInv, TypeOK, SlicesInBounds
  <2>3. ip = "nowhere"
    BY <1>1 DEF IInv, FindsTheAnswer, RejectHeader
  <2> QED
    BY <1>1, <2>2, <2>3 DEF RejectHeader, IInv, TypeOK, FindsTheAnswer
<1>2. CASE AcceptHeader
  <2> PICK body \in BodyLengths :
        /\ data >= stunHeaderSize + body
        /\ attrs' = body
        /\ slices' = {<<8, stunHeaderSize, data>>,
                      <<stunHeaderSize, stunHeaderSize + body, data>>}
    BY <1>2 DEF AcceptHeader, Complete
  <2>1. body \in Nat
    BY BindingResponseAssumption
  <2> QED
    BY <1>2, <2>1 DEF AcceptHeader, IInv, TypeOK, SlicesInBounds,
                      FindsTheAnswer, stunHeaderSize
<1>3. CASE Attribute
  <2>1. TypeOK' /\ FindsTheAnswer' /\ SlicesInBounds'
    BY <1>3, AttributeSlices, AttributeKeeps DEF IInv
  <2>2. pc' # "start"
    BY <1>3 DEF Attribute, Turn, Outcome
  <2> QED BY <2>1, <2>2 DEF IInv
<1>4. CASE Truncated
  BY <1>4 DEF Truncated, IInv, TypeOK, SlicesInBounds, FindsTheAnswer, Outcome
<1>5. CASE LoopEnds
  BY <1>5 DEF LoopEnds, IInv, TypeOK, SlicesInBounds, FindsTheAnswer, Outcome
<1>6. CASE UNCHANGED vars
  BY <1>6 DEF vars, IInv, TypeOK, SlicesInBounds, FindsTheAnswer
<1> QED
  BY <1>1, <1>2, <1>3, <1>4, <1>5, <1>6 DEF Next, Parse, Returned

LEMMA Invariance == Spec => []IInv
BY InitIInv, StepIInv, PTL DEF Spec

\* parseBindingResponse keeps its types: what is left of the body is never
\* negative.
THEOREM TypeCorrect == Spec => []TypeOK
BY Invariance, PTL DEF IInv

\* No datagram, whatever lengths it states, makes the parser panic.
THEOREM NoPanic == Spec => []SlicesInBounds
BY Invariance, PTL DEF IInv

\* The address returned is the one the attributes as a whole decide.
THEOREM RightAddress == Spec => []FindsTheAnswer
BY Invariance, PTL DEF IInv

\* Each turn of the loop but the last takes four bytes or more: it terminates.
THEOREM ParserShrinks == Spec => LoopShrinks
<1>1. IInv /\ [Next]_vars => [pc = "loop" /\ pc' = "loop" => attrs' <= attrs - 4]_vars
  <2> SUFFICES ASSUME IInv, Next, pc = "loop", pc' = "loop"
               PROVE  attrs' <= attrs - 4 \/ UNCHANGED vars
    OBVIOUS
  <2>1. CASE Attribute
    <3> PICK length \in AttrLengths, type \in AddressAttributes \cup {"other"},
             family \in {"4", "6", "none"} : Turn(length, type, family)
      BY <2>1 DEF Attribute
    <3>1. Padded(length)
      BY DEF Turn, Outcome
    <3>2. length \in Nat /\ Padding(length) \in 0 .. 3
      BY BindingResponseAssumption, PaddingBounds
    <3> QED BY <3>1, <3>2 DEF Turn, Advance, IInv, TypeOK
  <2>2. CASE ~ Attribute
    BY <2>2 DEF Next, Parse, Returned, RejectHeader, AcceptHeader, Truncated,
                LoopEnds, Outcome
  <2> QED BY <2>1, <2>2
<1> QED BY <1>1, Invariance, PTL DEF Spec, LoopShrinks
=============================================================================
