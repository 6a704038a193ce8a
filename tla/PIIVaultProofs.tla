---------------------------- MODULE PIIVaultProofs ----------------------------
(***************************************************************************)
(* Proofs about PIIVault, for all types, values and texts of requests.     *)
(***************************************************************************)
EXTENDS PIIVault, TLAPS, SequenceTheorems, FiniteSetTheorems,
        WellFoundedInduction

(* A finite set of naturals that is not empty has a largest element. *)
LEMMA FiniteMax ==
  ASSUME NEW S, S \subseteq Nat, S # {}, IsFiniteSet(S)
  PROVE  Largest(S) \in S /\ \A y \in S : y <= Largest(S)
<1> DEFINE Max(A) == \E x \in A : \A y \in A : y <= x
           T == {A \in FiniteSubsetsOf(Nat) : A # {} /\ ~Max(A)}
<1>1. Max(S)
  <2> SUFFICES ASSUME ~Max(S) PROVE FALSE
    OBVIOUS
  <2>1. S \in T
    BY DEF FiniteSubsetsOf
  <2>2. PICK A \in T : \A B \in T : <<B, A>> \notin StrictSubsetOrdering(Nat)
    <3>1. IsWellFoundedOn(StrictSubsetOrdering(Nat), FiniteSubsetsOf(Nat))
      BY FS_StrictSubsetOrderingWellFounded
    <3>2. T \subseteq FiniteSubsetsOf(Nat) /\ T # {}
      BY <2>1
    <3> HIDE DEF T
    <3> QED
      BY <3>1, <3>2, WFMin
  <2>3. PICK x \in A : TRUE
    OBVIOUS
  <2>4. A \ {x} \in FiniteSubsetsOf(Nat)
    BY FS_RemoveElement DEF FiniteSubsetsOf
  <2>5. <<A \ {x}, A>> \in StrictSubsetOrdering(Nat)
    BY <2>3, <2>4 DEF StrictSubsetOrdering, FiniteSubsetsOf
  <2>6. A \ {x} = {} \/ Max(A \ {x})
    BY <2>2, <2>4, <2>5
  <2>7. Max(A)
    BY <2>3, <2>6 DEF FiniteSubsetsOf
  <2> QED
    BY <2>2, <2>7
<1> QED
  BY <1>1 DEF Largest

(* Reserving never lowers a counter, and brings it past each literal. *)
LEMMA ReservePast ==
  ASSUME NEW text \in Texts, counters \in [Types -> Nat]
  PROVE  /\ ReserveExisting(text) \in [Types -> Nat]
         /\ \A t \in Types : counters[t] <= ReserveExisting(text)[t]
         /\ \A k \in DOMAIN text : ~IsPII(text[k]) =>
               /\ text[k] \in Token
               /\ text[k].n <= ReserveExisting(text)[text[k].type]
<1>1. text \in Seq(PII \cup Token)
  BY TextsAssumption
<1>2. \A k \in DOMAIN text : ~IsPII(text[k]) => text[k] \in Token
  BY <1>1, LenProperties DEF IsPII, PII
<1>3. ASSUME NEW t \in Types
      PROVE  /\ Literals(text, t) \cup {counters[t]} \subseteq Nat
             /\ IsFiniteSet(Literals(text, t) \cup {counters[t]})
  <2>1. Literals(text, t) \subseteq Nat
    BY <1>2 DEF Literals, Token
  <2>2. IsFiniteSet(Literals(text, t))
    <3> DEFINE D == {j \in DOMAIN text : ~IsPII(text[j]) /\ text[j].type = t}
               f == [k \in D |-> text[k].n]
    <3>1. IsFiniteSet(D)
      <4>1. IsFiniteSet(1..Len(text))
        BY <1>1, LenProperties, FS_Interval
      <4>2. D \in SUBSET (1..Len(text))
        BY <1>1, LenProperties
      <4> HIDE DEF D
      <4> QED
        BY <4>1, <4>2, FS_Subset
    <3>2. f \in Surjection(D, Literals(text, t))
      BY DEF Surjection, Literals
    <3> QED
      BY <3>1, <3>2, FS_Surjection
  <2> QED
    BY <2>1, <2>2, FS_AddElement
<1>4. ASSUME NEW t \in Types
      PROVE  /\ ReserveExisting(text)[t] \in Nat
             /\ counters[t] <= ReserveExisting(text)[t]
             /\ \A n \in Literals(text, t) : n <= ReserveExisting(text)[t]
  <2> DEFINE S == Literals(text, t) \cup {counters[t]}
  <2>1. S \subseteq Nat /\ S # {} /\ IsFiniteSet(S)
    BY <1>3
  <2>2. ReserveExisting(text)[t] = Largest(S)
    BY DEF ReserveExisting
  <2>3. Largest(S) \in S /\ \A y \in S : y <= Largest(S)
    <3> HIDE DEF S
    <3> QED
      BY <2>1, FiniteMax
  <2> QED
    BY <2>1, <2>2, <2>3
<1>5. ReserveExisting(text) \in [Types -> Nat]
  BY <1>4 DEF ReserveExisting
<1>6. \A k \in DOMAIN text : ~IsPII(text[k]) =>
         text[k].n \in Literals(text, text[k].type) /\ text[k].type \in Types
  BY <1>2 DEF Literals, Token
<1> QED
  BY <1>2, <1>4, <1>5, <1>6

-----------------------------------------------------------------------------

(* Facts about the values a step works on. *)
LEMMA Items ==
  ASSUME TypeOK
  PROVE  /\ \A i \in DOMAIN source : \A k \in DOMAIN source[i] :
                source[i][k] \in PII \cup Token
         /\ Busy => /\ Current \in DOMAIN out /\ Current \in DOMAIN source
                    /\ Len(out[Current]) + 1 \in DOMAIN source[Current]
                    /\ NextItem \in PII \cup Token
                    /\ IsPII(NextItem) => NextItem \in PII /\ Key(NextItem) \in Types \X Values
                    /\ ~IsPII(NextItem) => NextItem \in Token
<1>1. \A i \in DOMAIN source : source[i] \in Seq(PII \cup Token)
  BY TextsAssumption, ElementOfSeq, LenProperties DEF TypeOK
<1>2. \A i \in DOMAIN source : \A k \in DOMAIN source[i] : source[i][k] \in PII \cup Token
  BY <1>1, ElementOfSeq, LenProperties
<1>3. ASSUME Busy
      PROVE  /\ Current \in DOMAIN out /\ Current \in DOMAIN source
             /\ Len(out[Current]) + 1 \in DOMAIN source[Current]
  <2>1. Current \in DOMAIN out /\ Current \in DOMAIN source
    BY <1>3, LenProperties DEF Busy, Current, TypeOK
  <2>2. out[Current] \in Seq(Token) /\ source[Current] \in Seq(PII \cup Token)
    BY <1>1, <2>1, ElementOfSeq, LenProperties DEF TypeOK
  <2> QED
    BY <1>3, <2>1, <2>2, LenProperties DEF Busy
<1> QED
  BY <1>2, <1>3 DEF NextItem, IsPII, PII, Token, Key

LEMMA WithProperties ==
  ASSUME NEW f, NEW x, NEW y
  PROVE  /\ DOMAIN With(f, x, y) = DOMAIN f \cup {x}
         /\ With(f, x, y)[x] = y
         /\ \A z \in DOMAIN f : z # x => With(f, x, y)[z] = f[z]
BY DEF With

(* What goes upstream grows by one item at the end of the current text. *)
LEMMA Written ==
  ASSUME TypeOK, Busy, NEW item \in Token, Write(item)
  PROVE  /\ out' \in Seq(Seq(Token)) /\ Len(out') = Len(out)
         /\ out'[Current] = Append(out[Current], item)
         /\ \A i \in DOMAIN out : i # Current => out'[i] = out[i]
<1>1. out \in Seq(Seq(Token)) /\ Current \in 1..Len(out)
  BY Items, LenProperties DEF TypeOK
<1>2. Append(out[Current], item) \in Seq(Token)
  BY <1>1, ElementOfSeq, AppendProperties
<1> QED
  BY <1>1, <1>2, ExceptSeq, LenProperties DEF Write

(* Every variable holds what the guardrail puts there; in particular what  *)
(* goes upstream holds no PII, only tokens (PIIGuardrail, pii.py 173-189). *)
THEOREM TypeCorrect == Spec => []TypeOK
<1>1. Init => TypeOK
  BY MaxTextsAssumption, EmptySeq DEF Init, TypeOK
<1>2. TypeOK /\ [Next]_vars => TypeOK'
  <2> SUFFICES ASSUME TypeOK, [Next]_vars PROVE TypeOK'
    OBVIOUS
  <2>1. ASSUME NEW text \in Texts, Begin(text) PROVE TypeOK'
    <3>1. source' \in Seq(Texts) /\ Len(source') = Len(source) + 1 /\ Len(source') <= MaxTexts
      BY <2>1, AppendProperties, LenProperties, MaxTextsAssumption DEF Begin, TypeOK
    <3>2. PICK part \in Seq(Token) : out' = Append(out, part) /\ Len(part) <= Len(text)
      <4>1. text \in Seq(PII \cup Token)
        BY TextsAssumption
      <4>2. CASE HasPII(text)
        <5>1. out' = Append(out, <<>>)
          BY <2>1, <4>2 DEF Begin
        <5>2. <<>> \in Seq(Token) /\ Len(<<>>) <= Len(text)
          BY <4>1, EmptySeq, LenProperties
        <5> QED
          BY <5>1, <5>2
      <4>3. CASE ~HasPII(text)
        <5>1. \A k \in 1..Len(text) : text[k] \in Token
          BY <4>1, <4>3, ElementOfSeq, LenProperties DEF HasPII, IsPII, PII
        <5>2. text \in Seq(Token)
          BY <4>1, <5>1, LenProperties
        <5> QED
          BY <2>1, <4>3, <5>2, LenProperties DEF Begin
      <4> QED
        BY <4>2, <4>3
    <3>3. out' \in Seq(Seq(Token)) /\ Len(out') = Len(source')
      BY <3>1, <3>2, AppendProperties DEF TypeOK
    <3>4. \A i \in DOMAIN out' : Len(out'[i]) <= Len(source'[i])
      <4>1. /\ Len(out') = Len(out) + 1 /\ out'[Len(out) + 1] = part
            /\ \A i \in 1..Len(out) : out'[i] = out[i]
        BY <3>2, AppendProperties DEF TypeOK
      <4>2. source'[Len(source) + 1] = text
        BY <2>1, AppendProperties DEF Begin, TypeOK
      <4>3. \A i \in 1..Len(source) : source'[i] = source[i]
        BY <2>1, AppendProperties DEF Begin, TypeOK
      <4>4. DOMAIN out' = 1..(Len(out) + 1) /\ DOMAIN out = 1..Len(out)
        BY <3>3, <4>1, LenProperties DEF TypeOK
      <4>5. Len(out) = Len(source) /\ Len(out) \in Nat
        BY LenProperties DEF TypeOK
      <4>6. \A i \in 1..Len(out) : Len(out[i]) <= Len(source[i])
        BY <4>4 DEF TypeOK
      <4> QED
        BY <3>2, <4>1, <4>2, <4>3, <4>4, <4>5, <4>6
    <3>5. counters' \in [Types -> Nat]
      BY <2>1, ReservePast DEF Begin, TypeOK
    <3> QED
      BY <2>1, <3>1, <3>3, <3>4, <3>5 DEF Begin, TypeOK
  <2>2. ASSUME Busy, NEW item \in Token, Write(item), UNCHANGED source
        PROVE  /\ out' \in Seq(Seq(Token)) /\ Len(out') = Len(source')
               /\ \A i \in DOMAIN out' : Len(out'[i]) <= Len(source'[i])
    <3>1. out' \in Seq(Seq(Token)) /\ Len(out') = Len(source')
      BY <2>2, Written DEF TypeOK
    <3>2. DOMAIN out' = DOMAIN out
      BY <2>2, Written, LenProperties DEF TypeOK
    <3>3. Len(out'[Current]) = Len(out[Current]) + 1
      BY <2>2, Written, Items, ElementOfSeq, AppendProperties, LenProperties DEF TypeOK
    <3>4. Len(out[Current]) + 1 <= Len(source[Current])
      BY <2>2, Items, TextsAssumption, ElementOfSeq, LenProperties DEF TypeOK
    <3> QED
      BY <2>2, <3>1, <3>2, <3>3, <3>4, Written DEF TypeOK
  <2>3. CASE Copy
    BY <2>2, <2>3, Items DEF Copy, TypeOK
  <2>4. CASE Tokenize
    <3>1. NextItem \in PII /\ Key(NextItem) \in Types \X Values
      BY <2>4, Items DEF Tokenize
    <3>2. CASE Key(NextItem) \in DOMAIN tokenForValue
      BY <2>2, <2>4, <3>2 DEF Tokenize, TypeOK
    <3>3. CASE Key(NextItem) \notin DOMAIN tokenForValue
      <4> DEFINE n == counters[NextItem.type] + 1
                 token == TokenOf(NextItem.type, n)
      <4>1. token \in Token /\ n \in Nat
        BY <3>1 DEF TokenOf, Token, PII, TypeOK
      <4>2. /\ counters' = [counters EXCEPT ![NextItem.type] = n]
            /\ tokenForValue' = With(tokenForValue, Key(NextItem), token)
            /\ valueForToken' = With(valueForToken, token, NextItem.value)
            /\ Write(token) /\ UNCHANGED source
        BY <2>4, <3>3 DEF Tokenize
      <4> HIDE DEF n, token
      <4>3. counters' \in [Types -> Nat]
        BY <4>1, <4>2 DEF TypeOK
      <4>4. /\ DOMAIN tokenForValue' \subseteq Types \X Values
            /\ \A key \in DOMAIN tokenForValue' : tokenForValue'[key] \in Token
        <5>1. DOMAIN tokenForValue' = DOMAIN tokenForValue \cup {Key(NextItem)}
          BY <4>2, WithProperties
        <5>2. /\ tokenForValue'[Key(NextItem)] = token
              /\ \A z \in DOMAIN tokenForValue :
                    z # Key(NextItem) => tokenForValue'[z] = tokenForValue[z]
          BY <4>2 DEF With
        <5> QED
          BY <3>1, <4>1, <5>1, <5>2 DEF TypeOK
      <4>5. /\ DOMAIN valueForToken' \subseteq Token
            /\ \A t \in DOMAIN valueForToken' : valueForToken'[t] \in Values
        <5>1. DOMAIN valueForToken' = DOMAIN valueForToken \cup {token}
          BY <4>2, WithProperties
        <5>2. /\ valueForToken'[token] = NextItem.value
              /\ \A z \in DOMAIN valueForToken :
                    z # token => valueForToken'[z] = valueForToken[z]
          BY <4>2 DEF With
        <5> QED
          BY <3>1, <4>1, <5>1, <5>2 DEF TypeOK, PII
      <4> QED
        BY <2>2, <2>4, <4>1, <4>2, <4>3, <4>4, <4>5 DEF Tokenize, TypeOK
    <3> QED
      BY <3>2, <3>3
  <2>5. CASE UNCHANGED vars
    BY <2>5 DEF vars, TypeOK
  <2> QED
    BY <2>1, <2>3, <2>4, <2>5 DEF Next
<1> QED
  BY <1>1, <1>2, PTL DEF Spec

-----------------------------------------------------------------------------

(* What the vault holds after a value it had not met. *)
LEMMA NewValue ==
  ASSUME TypeOK, Tokenize, Key(NextItem) \notin DOMAIN tokenForValue,
         NEW token, token = TokenOf(NextItem.type, counters[NextItem.type] + 1)
  PROVE  /\ token \in Token /\ token.type = NextItem.type
         /\ token.n = counters[NextItem.type] + 1
         /\ counters' = [counters EXCEPT ![NextItem.type] = token.n]
         /\ DOMAIN tokenForValue' = DOMAIN tokenForValue \cup {Key(NextItem)}
         /\ tokenForValue'[Key(NextItem)] = token
         /\ \A z \in DOMAIN tokenForValue :
               z # Key(NextItem) => tokenForValue'[z] = tokenForValue[z]
         /\ DOMAIN valueForToken' = DOMAIN valueForToken \cup {token}
         /\ valueForToken'[token] = NextItem.value
         /\ \A z \in DOMAIN valueForToken : z # token => valueForToken'[z] = valueForToken[z]
<1>1. NextItem \in PII
  BY Items DEF Tokenize
<1>2. /\ token \in Token /\ token.type = NextItem.type
      /\ token.n = counters[NextItem.type] + 1
  BY <1>1 DEF TokenOf, Token, PII, TypeOK
<1>3. /\ counters' = [counters EXCEPT ![NextItem.type] = token.n]
      /\ tokenForValue' = With(tokenForValue, Key(NextItem), token)
      /\ valueForToken' = With(valueForToken, token, NextItem.value)
  BY <1>2 DEF Tokenize
<1>4. /\ DOMAIN tokenForValue' = DOMAIN tokenForValue \cup {Key(NextItem)}
      /\ DOMAIN valueForToken' = DOMAIN valueForToken \cup {token}
  BY <1>3, WithProperties
<1>5. /\ tokenForValue'[Key(NextItem)] = token
      /\ \A z \in DOMAIN tokenForValue :
            z # Key(NextItem) => tokenForValue'[z] = tokenForValue[z]
  BY <1>3 DEF With
<1>6. /\ valueForToken'[token] = NextItem.value
      /\ \A z \in DOMAIN valueForToken : z # token => valueForToken'[z] = valueForToken[z]
  BY <1>3 DEF With
<1> QED
  BY <1>2, <1>3, <1>4, <1>5, <1>6

(* The counter of a type is past every number the vault has given. *)
NumbersUsed ==
    \A token \in DOMAIN valueForToken : token.n <= counters[token.type]

OneToOneInv == TypeOK /\ VaultIsOneToOne /\ NumbersUsed

(* The maps of the vault stay each other's inverse.  NumbersUsed is what   *)
(* makes it inductive: the next token is none that was given.              *)
LEMMA OneToOneStep == OneToOneInv /\ [Next]_vars => VaultIsOneToOne' /\ NumbersUsed'
<1> SUFFICES ASSUME OneToOneInv, [Next]_vars PROVE VaultIsOneToOne' /\ NumbersUsed'
  OBVIOUS
<1> USE DEF OneToOneInv
<1>1. ASSUME NEW text \in Texts, Begin(text) PROVE VaultIsOneToOne' /\ NumbersUsed'
  <2>1. UNCHANGED <<tokenForValue, valueForToken>>
    BY <1>1 DEF Begin
  <2>2. \A t \in Types : counters[t] \in Nat /\ counters'[t] \in Nat /\ counters[t] <= counters'[t]
    BY <1>1, ReservePast DEF Begin, TypeOK
  <2>3. \A token \in DOMAIN valueForToken : token.type \in Types /\ token.n \in Nat
    BY DEF TypeOK, Token
  <2> QED
    BY <2>1, <2>2, <2>3 DEF VaultIsOneToOne, NumbersUsed
<1>2. CASE UNCHANGED <<counters, tokenForValue, valueForToken>>
  BY <1>2 DEF VaultIsOneToOne, NumbersUsed
<1>3. CASE Tokenize /\ Key(NextItem) \notin DOMAIN tokenForValue
  <2> DEFINE token == TokenOf(NextItem.type, counters[NextItem.type] + 1)
  <2>1. NextItem \in PII /\ NextItem.type \in Types
    BY <1>3, Items DEF Tokenize, PII
  <2>2. /\ token \in Token /\ token.type = NextItem.type
        /\ token.n = counters[NextItem.type] + 1
        /\ counters' = [counters EXCEPT ![NextItem.type] = token.n]
        /\ DOMAIN tokenForValue' = DOMAIN tokenForValue \cup {Key(NextItem)}
        /\ tokenForValue'[Key(NextItem)] = token
        /\ \A z \in DOMAIN tokenForValue :
              z # Key(NextItem) => tokenForValue'[z] = tokenForValue[z]
        /\ DOMAIN valueForToken' = DOMAIN valueForToken \cup {token}
        /\ valueForToken'[token] = NextItem.value
        /\ \A z \in DOMAIN valueForToken : z # token => valueForToken'[z] = valueForToken[z]
    BY <1>3, NewValue
  <2> HIDE DEF token
  <2>3. token \notin DOMAIN valueForToken
    BY <2>1, <2>2 DEF NumbersUsed, TypeOK
  <2>4. \A key \in DOMAIN tokenForValue : tokenForValue[key] # token
    BY <2>3 DEF VaultIsOneToOne
  <2>5. ASSUME NEW key \in DOMAIN tokenForValue'
        PROVE  /\ tokenForValue'[key] \in DOMAIN valueForToken'
               /\ tokenForValue'[key].type = key[1]
               /\ valueForToken'[tokenForValue'[key]] = key[2]
    <3>1. CASE key = Key(NextItem)
      BY <2>2, <3>1 DEF Key
    <3>2. CASE key # Key(NextItem)
      BY <2>2, <2>4, <3>2 DEF VaultIsOneToOne
    <3> QED
      BY <3>1, <3>2
  <2>6. ASSUME NEW t \in DOMAIN valueForToken'
        PROVE  /\ <<t.type, valueForToken'[t]>> \in DOMAIN tokenForValue'
               /\ tokenForValue'[<<t.type, valueForToken'[t]>>] = t
    <3>1. CASE t = token
      BY <2>2, <3>1 DEF Key
    <3>2. CASE t # token
      <4>1. /\ t \in DOMAIN valueForToken /\ valueForToken'[t] = valueForToken[t]
            /\ <<t.type, valueForToken[t]>> \in DOMAIN tokenForValue
        BY <2>2, <3>2 DEF VaultIsOneToOne
      <4>2. <<t.type, valueForToken[t]>> # Key(NextItem)
        BY <1>3, <4>1
      <4> QED
        BY <2>2, <4>1, <4>2 DEF VaultIsOneToOne
    <3> QED
      BY <3>1, <3>2
  <2>7. NumbersUsed'
    <3>1. ASSUME NEW t \in DOMAIN valueForToken' PROVE t.n <= counters'[t.type]
      <4>1. t \in Token /\ counters \in [Types -> Nat]
        BY <2>2 DEF TypeOK
      <4>2. t.n \in Nat /\ t.type \in Types
        BY <4>1 DEF Token
      <4>3. t # token => t.n <= counters[t.type]
        BY <2>2 DEF NumbersUsed
      <4>4. counters'[t.type] = IF t.type = NextItem.type THEN token.n ELSE counters[t.type]
        BY <2>2, <4>1, <4>2
      <4> QED
        BY <2>1, <2>2, <4>1, <4>2, <4>3, <4>4
    <3> QED
      BY <3>1 DEF NumbersUsed
  <2> QED
    BY <2>5, <2>6, <2>7 DEF VaultIsOneToOne
<1> QED
  BY <1>1, <1>2, <1>3 DEF Next, Copy, Tokenize, vars

(* No two values of a request ever share a token and no value has two, for *)
(* every set of types, values and texts (PIIVault.tokenize, pii.py         *)
(* 111-120).                                                               *)
THEOREM OneToOne == Spec => []VaultIsOneToOne
<1>1. Init => VaultIsOneToOne /\ NumbersUsed
  BY DEF Init, VaultIsOneToOne, NumbersUsed
<1>2. TypeOK /\ VaultIsOneToOne /\ NumbersUsed /\ [Next]_vars => VaultIsOneToOne' /\ NumbersUsed'
  BY OneToOneStep DEF OneToOneInv
<1> QED
  BY <1>1, <1>2, TypeCorrect, PTL DEF Spec

-----------------------------------------------------------------------------

(* What a new text adds: an empty output, or itself when it has no PII. *)
LEMMA Begun ==
  ASSUME TypeOK, NEW text \in Texts, Begin(text)
  PROVE  /\ DOMAIN out = 1..Len(out) /\ DOMAIN out' = 1..(Len(out) + 1)
         /\ DOMAIN source = 1..Len(out) /\ DOMAIN source' = 1..(Len(out) + 1)
         /\ Len(out) \in Nat
         /\ \A i \in 1..Len(out) : out'[i] = out[i] /\ source'[i] = source[i]
         /\ source'[Len(out) + 1] = text
         /\ out'[Len(out) + 1] = (IF HasPII(text) THEN <<>> ELSE text)
<1>1. out \in Seq(Seq(Token)) /\ source \in Seq(Texts) /\ Len(source) = Len(out)
  BY DEF TypeOK
<1>2. text \in Seq(PII \cup Token)
  BY TextsAssumption
<1> DEFINE part == IF HasPII(text) THEN <<>> ELSE text
<1>3. out' = Append(out, part) /\ source' = Append(source, text)
  BY DEF Begin
<1>4. part \in Seq(PII \cup Token) /\ out \in Seq(Seq(PII \cup Token))
  <2>1. \A i \in 1..Len(out) : out[i] \in Seq(PII \cup Token)
    BY <1>1, ElementOfSeq, LenProperties
  <2> QED
    BY <1>1, <1>2, <2>1, EmptySeq, LenProperties
<1> HIDE DEF part
<1>5. /\ Len(out') = Len(out) + 1 /\ out'[Len(out) + 1] = part
      /\ \A i \in 1..Len(out) : out'[i] = out[i]
      /\ DOMAIN out' = 1..(Len(out) + 1) /\ DOMAIN out = 1..Len(out)
  BY <1>3, <1>4, AppendProperties, LenProperties
<1>6. /\ source'[Len(source) + 1] = text
      /\ \A i \in 1..Len(source) : source'[i] = source[i]
      /\ DOMAIN source' = 1..(Len(source) + 1) /\ DOMAIN source = 1..Len(source)
  BY <1>1, <1>3, AppendProperties, LenProperties
<1>7. Len(out) \in Nat
  BY <1>1, LenProperties
<1> QED
  BY <1>1, <1>5, <1>6, <1>7 DEF part

(* Where an item that was written stands: at the end of the current text,  *)
(* against the item it was written for.                                    *)
LEMMA WrittenAt ==
  ASSUME TypeOK, Busy, NEW item \in Token, Write(item)
  PROVE  /\ DOMAIN out' = DOMAIN out /\ Current \in DOMAIN out
         /\ \A i \in DOMAIN out : i # Current => out'[i] = out[i]
         /\ \A k \in DOMAIN out'[Current] :
               \/ k \in DOMAIN out[Current] /\ out'[Current][k] = out[Current][k]
               \/ source[Current][k] = NextItem /\ out'[Current][k] = item
<1>1. DOMAIN out' = DOMAIN out /\ Current \in DOMAIN out
  BY Written, Items, LenProperties DEF TypeOK
<1>2. out[Current] \in Seq(Token)
  BY <1>1, ElementOfSeq, LenProperties DEF TypeOK
<1>3. /\ out'[Current] = Append(out[Current], item)
      /\ \A i \in DOMAIN out : i # Current => out'[i] = out[i]
  BY Written
<1>4. /\ DOMAIN out'[Current] = 1..(Len(out[Current]) + 1)
      /\ DOMAIN out[Current] = 1..Len(out[Current]) /\ Len(out[Current]) \in Nat
      /\ out'[Current][Len(out[Current]) + 1] = item
      /\ \A k \in 1..Len(out[Current]) : out'[Current][k] = out[Current][k]
  BY <1>2, <1>3, AppendProperties, LenProperties
<1> QED
  BY <1>1, <1>3, <1>4 DEF NextItem

(* Every piece of PII that was written went as the token of its value. *)
OutIsMasked ==
    \A i \in DOMAIN out : \A k \in DOMAIN out[i] :
        IsPII(source[i][k]) =>
            /\ Key(source[i][k]) \in DOMAIN tokenForValue
            /\ out[i][k] = tokenForValue[Key(source[i][k])]

LEMMA MaskedStep == TypeOK /\ OutIsMasked /\ [Next]_vars => OutIsMasked'
<1> SUFFICES ASSUME TypeOK, OutIsMasked, [Next]_vars PROVE OutIsMasked'
  OBVIOUS
<1>1. ASSUME NEW text \in Texts, Begin(text) PROVE OutIsMasked'
  <2>1. tokenForValue' = tokenForValue
    BY <1>1 DEF Begin
  <2>2. ASSUME NEW i \in DOMAIN out', NEW k \in DOMAIN out'[i], IsPII(source'[i][k])
        PROVE  i \in 1..Len(out)
    <3>1. CASE i = Len(out) + 1
      BY <1>1, <2>2, <3>1, Begun DEF HasPII
    <3> QED
      BY <1>1, <2>2, <3>1, Begun
  <2>3. \A i \in 1..Len(out) : i \in DOMAIN out /\ out'[i] = out[i] /\ source'[i] = source[i]
    BY <1>1, Begun
  <2> QED
    BY <2>1, <2>2, <2>3 DEF OutIsMasked, Key
<1>2. CASE Copy
  <2>1. Busy /\ NextItem \in Token /\ ~IsPII(NextItem) /\ Write(NextItem)
    BY <1>2, Items DEF Copy
  <2>2. UNCHANGED <<source, tokenForValue>>
    BY <1>2 DEF Copy
  <2> QED
    BY <2>1, <2>2, WrittenAt DEF OutIsMasked, Key
<1>3. CASE Tokenize
  <2>1. Busy /\ IsPII(NextItem) /\ source' = source
    BY <1>3 DEF Tokenize
  <2>2. PICK item \in Token :
           /\ Write(item)
           /\ Key(NextItem) \in DOMAIN tokenForValue' /\ tokenForValue'[Key(NextItem)] = item
           /\ \A z \in DOMAIN tokenForValue :
                 z \in DOMAIN tokenForValue' /\ tokenForValue'[z] = tokenForValue[z]
    <3>1. CASE Key(NextItem) \in DOMAIN tokenForValue
      BY <1>3, <3>1 DEF Tokenize, TypeOK
    <3>2. CASE Key(NextItem) \notin DOMAIN tokenForValue
      <4> DEFINE token == TokenOf(NextItem.type, counters[NextItem.type] + 1)
      <4>1. Write(token)
        BY <1>3, <3>2 DEF Tokenize
      <4>2. /\ token \in Token
            /\ DOMAIN tokenForValue' = DOMAIN tokenForValue \cup {Key(NextItem)}
            /\ tokenForValue'[Key(NextItem)] = token
            /\ \A z \in DOMAIN tokenForValue :
                  z # Key(NextItem) => tokenForValue'[z] = tokenForValue[z]
        BY <1>3, <3>2, NewValue
      <4> HIDE DEF token
      <4> QED
        BY <3>2, <4>1, <4>2
    <3> QED
      BY <3>1, <3>2
  <2> QED
    BY <2>1, <2>2, WrittenAt DEF OutIsMasked, Key
<1>4. CASE UNCHANGED vars
  BY <1>4 DEF vars, OutIsMasked, Key
<1> QED
  BY <1>1, <1>2, <1>3, <1>4 DEF Next

(* A reply that repeats what the model was sent gives the caller back his  *)
(* own values, whatever the texts and however many of them                 *)
(* (pipeline.py 98-103, pii.py 111-127).                                   *)
THEOREM EchoRestored == Spec => []EchoIsRestored
<1>1. Init => OutIsMasked
  BY DEF Init, OutIsMasked
<1>2. TypeOK /\ VaultIsOneToOne /\ OutIsMasked => EchoIsRestored
  <2> SUFFICES ASSUME TypeOK, VaultIsOneToOne, OutIsMasked,
                      NEW i \in DOMAIN out, NEW k \in DOMAIN out[i], IsPII(source[i][k])
               PROVE  RestoredItem(out[i][k]) = source[i][k]
    BY DEF EchoIsRestored
  <2> DEFINE item == source[i][k]
  <2>1. item \in PII
    <3>1. i \in DOMAIN source /\ k \in DOMAIN source[i]
      <4>1. /\ out \in Seq(Seq(Token)) /\ source \in Seq(Texts)
            /\ Len(out) = Len(source) /\ Len(out[i]) <= Len(source[i])
        BY DEF TypeOK
      <4>2. i \in 1..Len(source) /\ i \in DOMAIN source
        BY <4>1, LenProperties
      <4>3. out[i] \in Seq(Token) /\ source[i] \in Seq(PII \cup Token)
        BY <4>1, <4>2, TextsAssumption, ElementOfSeq
      <4> QED
        BY <4>1, <4>2, <4>3, LenProperties
    <3>2. item \in PII \cup Token
      BY <3>1, Items
    <3> QED
      BY <3>2 DEF IsPII, Token
  <2>2. /\ Key(item) \in DOMAIN tokenForValue
        /\ out[i][k] = tokenForValue[Key(item)]
    BY DEF OutIsMasked
  <2>3. /\ out[i][k] \in DOMAIN valueForToken
        /\ out[i][k].type = item.type
        /\ valueForToken[out[i][k]] = item.value
    BY <2>2 DEF VaultIsOneToOne, Key
  <2> HIDE DEF item
  <2>4. RestoredItem(out[i][k]) = [kind |-> "pii", type |-> item.type, value |-> item.value]
    BY <2>3 DEF RestoredItem
  <2>5. RestoredItem(out[i][k]) = item
    BY <2>1, <2>4 DEF PII
  <2> QED
    BY <2>5 DEF item
<1> QED
  BY <1>1, <1>2, MaskedStep, TypeCorrect, OneToOne, PTL DEF Spec
-----------------------------------------------------------------------------

(* The counters are past the literals of every text that has PII. *)
LiteralsPassed ==
    \A i \in DOMAIN source : \A k \in DOMAIN source[i] :
        HasPII(source[i]) /\ ~IsPII(source[i][k])
            => source[i][k].n <= counters[source[i][k].type]

(* Every token of the vault was given in some text. *)
AllGiven ==
    \A token \in DOMAIN valueForToken : \E j \in DOMAIN out : GivenIn(token, j)

ReservedInv == LiteralsPassed /\ AllGiven /\ ReservedLiteralsSurvive

(* What was taken up and written stays. *)
LEMMA TextsStay ==
  ASSUME TypeOK, [Next]_vars
  PROVE  /\ \A i \in DOMAIN source : i \in DOMAIN source' /\ source'[i] = source[i]
         /\ \A i \in DOMAIN out : /\ i \in DOMAIN out' /\ i \in DOMAIN source
                                  /\ \A k \in DOMAIN out[i] :
                                        k \in DOMAIN out'[i] /\ out'[i][k] = out[i][k]
<1>1. DOMAIN out = 1..Len(out) /\ DOMAIN source = 1..Len(out)
  BY LenProperties DEF TypeOK
<1>2. CASE \E text \in Texts : Begin(text)
  <2>1. Len(out) \in Nat
    BY LenProperties DEF TypeOK
  <2> QED BY <1>2, <2>1, Begun
<1>3. ASSUME Busy, NEW item \in Token, Write(item), source' = source
      PROVE  /\ \A i \in DOMAIN source : i \in DOMAIN source' /\ source'[i] = source[i]
             /\ \A i \in DOMAIN out : /\ i \in DOMAIN out' /\ i \in DOMAIN source
                                      /\ \A k \in DOMAIN out[i] :
                                            k \in DOMAIN out'[i] /\ out'[i][k] = out[i][k]
  <2>1. out[Current] \in Seq(Token) /\ Current \in DOMAIN out
    BY <1>1, <1>3, Items, ElementOfSeq DEF TypeOK
  <2>2. out'[Current] = Append(out[Current], item) /\ DOMAIN out' = DOMAIN out
        /\ \A i \in DOMAIN out : i # Current => out'[i] = out[i]
    BY <1>3, Written, WrittenAt
  <2>3. \A k \in DOMAIN out[Current] : k \in DOMAIN out'[Current] /\ out'[Current][k] = out[Current][k]
    BY <2>1, <2>2, AppendProperties, LenProperties
  <2> QED BY <1>1, <1>3, <2>2, <2>3
<1>4. CASE Copy
  BY <1>3, <1>4, Items DEF Copy
<1>5. CASE Tokenize
  <2>1. Busy /\ source' = source
    BY <1>5 DEF Tokenize
  <2>2. \E item \in Token : Write(item)
    <3>1. Key(NextItem) \in DOMAIN tokenForValue => tokenForValue[Key(NextItem)] \in Token
      BY DEF TypeOK
    <3>2. TokenOf(NextItem.type, counters[NextItem.type] + 1) \in Token
      <4>1. NextItem.type \in Types
        BY <1>5, Items DEF Tokenize, PII
      <4>2. counters[NextItem.type] + 1 \in Nat
        BY <4>1 DEF TypeOK
      <4> QED BY <4>1, <4>2 DEF TokenOf, Token
    <3> QED BY <1>5, <3>1, <3>2 DEF Tokenize
  <2> QED BY <1>3, <2>1, <2>2
<1>6. CASE UNCHANGED vars
  BY <1>1, <1>6 DEF vars
<1> QED BY <1>2, <1>4, <1>5, <1>6 DEF Next

LEMMA GivenStays ==
  ASSUME TypeOK, [Next]_vars, NEW token, NEW j \in DOMAIN out, GivenIn(token, j)
  PROVE  GivenIn(token, j)'
BY TextsStay DEF GivenIn

(* The items of the texts are pieces of PII or tokens. *)
LEMMA LiteralType ==
  ASSUME TypeOK, NEW i \in DOMAIN source, NEW k \in DOMAIN source[i], ~IsPII(source[i][k])
  PROVE  source[i][k] \in Token /\ source[i][k].type \in Types /\ source[i][k].n \in Nat
<1>1. source[i][k] \in PII \cup Token
  BY Items
<1>2. source[i][k] \in Token
  BY <1>1 DEF IsPII, PII
<1> QED BY <1>2 DEF Token

LEMMA ReservedStep == TypeOK /\ ReservedInv /\ [Next]_vars => ReservedInv'
<1> SUFFICES ASSUME TypeOK, ReservedInv, [Next]_vars PROVE ReservedInv'
  OBVIOUS
<1> USE DEF ReservedInv
<1>1. ASSUME NEW text \in Texts, Begin(text) PROVE ReservedInv'
  <2> DEFINE i0 == Len(out) + 1
  <2>1. /\ DOMAIN out = 1..Len(out) /\ DOMAIN source = 1..Len(out)
        /\ DOMAIN source' = 1..i0 /\ Len(out) \in Nat /\ source'[i0] = text
        /\ \A i \in 1..Len(out) : source'[i] = source[i]
        /\ DOMAIN out' = 1..i0
    BY <1>1, Begun
  <2>2. valueForToken' = valueForToken /\ counters' = IF HasPII(text) THEN ReserveExisting(text)
                                                      ELSE counters
    BY <1>1 DEF Begin
  <2>3. \A t \in Types : counters[t] \in Nat /\ counters'[t] \in Nat /\ counters[t] <= counters'[t]
    BY <2>2, ReservePast DEF TypeOK
  <2>4. LiteralsPassed'
    <3> SUFFICES ASSUME NEW i \in DOMAIN source', NEW k \in DOMAIN source'[i],
                        HasPII(source'[i]), ~IsPII(source'[i][k])
                 PROVE  source'[i][k].n <= counters'[source'[i][k].type]
      BY DEF LiteralsPassed
    <3>1. CASE i = i0
      BY <2>1, <2>2, <3>1, ReservePast DEF TypeOK
    <3>2. CASE i \in 1..Len(out)
      <4>1. /\ i \in DOMAIN source /\ source'[i] = source[i]
            /\ source[i][k].n <= counters[source[i][k].type]
        BY <2>1, <3>2 DEF LiteralsPassed
      <4>2. source[i][k].type \in Types /\ source[i][k].n \in Nat
        BY <4>1, LiteralType
      <4> QED BY <2>3, <4>1, <4>2
    <3> QED BY <2>1, <3>1, <3>2
  <2>5. AllGiven'
    BY <2>1, <2>2, GivenStays, TextsStay DEF AllGiven
  <2>6. ReservedLiteralsSurvive'
    <3> SUFFICES ASSUME NEW i \in DOMAIN source', NEW k \in DOMAIN source'[i],
                        NEW token, token = source'[i][k],
                        HasPII(source'[i]), token \in DOMAIN valueForToken
                 PROVE  \E j \in 1..(i - 1) : GivenIn(token, j)'
      BY <2>2 DEF ReservedLiteralsSurvive, GivenIn
    <3>1. token = source'[i][k]
      OBVIOUS
    <3>2. CASE i = i0
      <4>1. PICK j \in 1..Len(out) : GivenIn(token, j)
        BY <2>1, <3>1 DEF AllGiven
      <4>2. GivenIn(token, j)'
        BY <2>1, <4>1, GivenStays
      <4>3. j \in 1..(i - 1)
        BY <2>1, <3>2
      <4> QED BY <4>2, <4>3
    <3>3. CASE i \in 1..Len(out)
      <4>1. PICK j \in 1..(i - 1) : GivenIn(token, j)
        BY <2>1, <3>1, <3>3 DEF ReservedLiteralsSurvive
      <4>2. j \in DOMAIN out
        BY <2>1, <3>3
      <4>3. GivenIn(token, j)'
        BY <4>1, <4>2, GivenStays
      <4> QED BY <4>3
    <3> QED BY <2>1, <3>2, <3>3
  <2> QED BY <2>4, <2>5, <2>6
<1>2. ASSUME UNCHANGED <<source, counters, valueForToken>> PROVE ReservedInv'
  <2>1. LiteralsPassed'
    BY <1>2 DEF LiteralsPassed
  <2>2. AllGiven'
    BY <1>2, GivenStays, TextsStay DEF AllGiven
  <2>3. ReservedLiteralsSurvive'
    <3> SUFFICES ASSUME NEW i \in DOMAIN source, NEW k \in DOMAIN source[i],
                        NEW token, token = source[i][k],
                        HasPII(source[i]), token \in DOMAIN valueForToken
                 PROVE  \E j \in 1..(i - 1) : GivenIn(token, j)'
      BY <1>2 DEF ReservedLiteralsSurvive, GivenIn
    <3>1. token = source[i][k]
      OBVIOUS
    <3>2. PICK j \in 1..(i - 1) : GivenIn(token, j)
      BY <3>1 DEF ReservedLiteralsSurvive
    <3>3. j \in DOMAIN out
      BY LenProperties DEF TypeOK
    <3>4. GivenIn(token, j)'
      BY <3>2, <3>3, GivenStays
    <3> QED BY <3>4
  <2> QED BY <2>1, <2>2, <2>3
<1>3. CASE Tokenize /\ Key(NextItem) \notin DOMAIN tokenForValue
  <2>0. PICK new : new = TokenOf(NextItem.type, counters[NextItem.type] + 1)
    OBVIOUS
  <2>1. NextItem \in PII /\ NextItem.type \in Types /\ source' = source /\ Busy /\ IsPII(NextItem)
    BY <1>3, Items DEF Tokenize, PII
  <2>2. /\ new \in Token /\ new.type = NextItem.type
        /\ new.n = counters[NextItem.type] + 1
        /\ counters' = [counters EXCEPT ![NextItem.type] = new.n]
        /\ DOMAIN valueForToken' = DOMAIN valueForToken \cup {new}
    BY <1>3, <2>0, NewValue
  <2>3. Write(new)
    BY <1>3, <2>0 DEF Tokenize
  <2>4. \A t \in Types : counters[t] \in Nat /\ counters'[t] \in Nat /\ counters[t] <= counters'[t]
    BY <2>1, <2>2 DEF TypeOK
  <2>5. ASSUME NEW i \in DOMAIN source, NEW k \in DOMAIN source[i],
               HasPII(source[i]), ~IsPII(source[i][k])
        PROVE  /\ source[i][k] # new
               /\ source[i][k].n <= counters'[source[i][k].type]
    <3>1. source[i][k].type \in Types /\ source[i][k].n \in Nat
          /\ source[i][k].n <= counters[source[i][k].type]
      BY <2>5, LiteralType DEF LiteralsPassed
    <3> QED BY <2>1, <2>2, <2>4, <3>1
  <2>6. LiteralsPassed'
    BY <2>1, <2>5 DEF LiteralsPassed
  <2>7. \E c \in DOMAIN out' : GivenIn(new, c)'
    <3>1. out[Current] \in Seq(Token) /\ Current \in DOMAIN out
      BY <2>1, Items, ElementOfSeq, LenProperties DEF TypeOK
    <3>2. out'[Current] = Append(out[Current], new) /\ DOMAIN out' = DOMAIN out
      BY <2>1, <2>2, <2>3, Written, WrittenAt
    <3>4. PICK c : c = Current
      OBVIOUS
    <3>5. PICK l \in Nat : l = Len(out[c])
      BY <3>1, <3>4, LenProperties
    <3>6. l + 1 \in DOMAIN out'[c] /\ out'[c][l + 1] = new
      BY <2>2, <3>1, <3>2, <3>4, <3>5, AppendProperties, LenProperties
    <3>7. IsPII(source'[c][l + 1])
      BY <2>1, <3>4, <3>5 DEF NextItem
    <3>8. GivenIn(new, c)'
      BY <3>6, <3>7 DEF GivenIn
    <3> QED BY <3>1, <3>2, <3>4, <3>8
  <2>8. AllGiven'
    <3> SUFFICES ASSUME NEW token \in DOMAIN valueForToken'
                 PROVE  \E j \in DOMAIN out' : GivenIn(token, j)'
      BY DEF AllGiven
    <3>1. CASE token = new
      BY <2>7, <3>1
    <3>2. CASE token \in DOMAIN valueForToken
      BY <3>2, GivenStays, TextsStay DEF AllGiven
    <3> QED BY <2>2, <3>1, <3>2
  <2>9. ReservedLiteralsSurvive'
    <3> SUFFICES ASSUME NEW i \in DOMAIN source, NEW k \in DOMAIN source[i],
                        NEW token, token = source[i][k],
                        HasPII(source[i]), token \in DOMAIN valueForToken'
                 PROVE  \E j \in 1..(i - 1) : GivenIn(token, j)'
      BY <2>1 DEF ReservedLiteralsSurvive, GivenIn
    <3>1. token = source[i][k]
      OBVIOUS
    <3>2. ~IsPII(token)
      BY <2>2, <3>1 DEF TypeOK, Token, IsPII
    <3>3. token \in DOMAIN valueForToken
      BY <2>2, <2>5, <3>1, <3>2
    <3>4. PICK j \in 1..(i - 1) : GivenIn(token, j)
      BY <3>1, <3>3 DEF ReservedLiteralsSurvive
    <3>5. j \in DOMAIN out
      BY LenProperties DEF TypeOK
    <3>6. GivenIn(token, j)'
      BY <3>4, <3>5, GivenStays
    <3> QED BY <3>6
  <2> QED BY <2>6, <2>8, <2>9
<1> QED
  BY <1>1, <1>2, <1>3 DEF Next, Copy, Tokenize, vars

(* What looks like a token in a text with PII is never given to a value    *)
(* first met in that text or later, whatever the texts (pii.py 103-109,    *)
(* 177-178).                                                               *)
THEOREM LiteralsStayReserved == Spec => []ReservedLiteralsSurvive
<1>1. Init => ReservedInv
  BY DEF Init, ReservedInv, LiteralsPassed, AllGiven, ReservedLiteralsSurvive
<1>2. ReservedInv => ReservedLiteralsSurvive
  BY DEF ReservedInv
<1> QED
  BY <1>1, <1>2, ReservedStep, TypeCorrect, PTL DEF Spec
===============================================================================
