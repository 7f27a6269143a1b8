----------------------------- MODULE OptionProofs -----------------------------
(***************************************************************************)
(* Proofs about the options of a spec, for every manifest: through the     *)
(* merge of a step over the spec, the variables and the files, a container *)
(* reads what is meant.  The first part is about the options that are      *)
(* lists of records: from the texts, separated by commas, that             *)
(* SetDictEnvVar writes for the attributes, the container puts the same    *)
(* entries together again.                                                 *)
(***************************************************************************)
EXTENDS BuildProofs, SequenceTheorems, FiniteSetTheorems

(* What FlattenSeq gives for the two lengths that lists have.              *)
LEMMA FlattenTwo ==
  ASSUME NEW s, NEW t PROVE FlattenSeq(<<s, t>>) = s \o t
<1> DEFINE q == <<s, t>>
           Def(g) == g = [i \in 1 .. Len(q) |-> IF i = 1 THEN q[i] ELSE g[i - 1] \o q[i]]
           flatten == CHOOSE g : Def(g)
<1>1. Len(q) = 2 /\ q[1] = s /\ q[2] = t
  OBVIOUS
<1>2. \E g : Def(g)
  <2> DEFINE g == [i \in 1 .. 2 |-> IF i = 1 THEN s ELSE s \o t]
  <2>1. g = [i \in 1 .. Len(q) |-> IF i = 1 THEN q[i] ELSE g[i - 1] \o q[i]]
    BY <1>1
  <2> QED
    BY <2>1
<1>3. Def(flatten)
  BY <1>2, Zenon
<1>4. FlattenSeq(q) = flatten[Len(q)]
  BY <1>1 DEF FlattenSeq
<1> HIDE DEF flatten, q
<1>5. flatten[1] = s /\ flatten[2] = flatten[1] \o t
  BY <1>1, <1>3
<1> QED
  BY <1>1, <1>4, <1>5 DEF q

LEMMA FlattenThree ==
  ASSUME NEW q, Len(q) = 3 PROVE FlattenSeq(q) = (q[1] \o q[2]) \o q[3]
<1> DEFINE Def(g) == g = [i \in 1 .. Len(q) |-> IF i = 1 THEN q[i] ELSE g[i - 1] \o q[i]]
           flatten == CHOOSE g : Def(g)
<1>1. \E g : Def(g)
  <2> DEFINE g == [i \in 1 .. 3 |-> IF i = 1 THEN q[1]
                                    ELSE IF i = 2 THEN q[1] \o q[2]
                                    ELSE (q[1] \o q[2]) \o q[3]]
  <2>1. g = [i \in 1 .. Len(q) |-> IF i = 1 THEN q[i] ELSE g[i - 1] \o q[i]]
    OBVIOUS
  <2> QED
    BY <2>1
<1>2. Def(flatten)
  BY <1>1, Zenon
<1>3. FlattenSeq(q) = flatten[Len(q)]
  BY DEF FlattenSeq
<1> HIDE DEF flatten
<1>4. \A i \in 1 .. 3 : flatten[i] = IF i = 1 THEN q[i] ELSE flatten[i - 1] \o q[i]
  BY <1>2
<1>5. flatten[1] = q[1] /\ flatten[2] = flatten[1] \o q[2]
  BY <1>4
<1>6. flatten[3] = flatten[2] \o q[3]
  BY <1>4
<1> QED
  BY <1>3, <1>5, <1>6

(* Where a text has c, and where its commas are.                           *)
Marks(c, text) == {q \in DOMAIN text : text[q] = c}
Comma == ","
Commas(text) == Marks(Comma, text)

(* As many commas up to two places: the later one is none.                 *)
LEMMA CommasDiffer ==
  ASSUME NEW m \in Nat, NEW C \in SUBSET (1 .. m), NEW r \in Nat, NEW t \in C, r < t
  PROVE  Cardinality({q \in C : q <= r}) # Cardinality({q \in C : q <= t})
<1> DEFINE R == {q \in C : q <= r}
           T == {q \in C : q <= t}
<1>1. t \in Nat /\ t \in T /\ t \notin R
  OBVIOUS
<1>2. R \in SUBSET T
  <2>1. \A q \in C : q \in Nat
    OBVIOUS
  <2>2. \A q \in C : q <= r => q <= t
    BY <1>1, <2>1
  <2> QED
    BY <2>2
<1>3. IsFiniteSet(T)
  <2>1. IsFiniteSet(1 .. m)
    BY FS_Interval
  <2>2. T \in SUBSET (1 .. m)
    OBVIOUS
  <2> QED
    BY <2>1, <2>2, FS_Subset
<1> HIDE DEF R, T
<1>4. Cardinality(R) # Cardinality(T)
  BY <1>1, <1>2, <1>3, FS_Subset
<1> QED
  BY <1>4 DEF R, T

(* The comma up to which there are n is the only one.                      *)
LEMMA FindsComma ==
  ASSUME NEW text, NEW m \in Nat, Len(text) = m, DOMAIN text = 1 .. m,
         NEW p \in Commas(text) \cup {0}, NEW n,
         Cardinality({q \in Commas(text) : q <= p}) = n
  PROVE  CommaAt(text, n) = p
<1> DEFINE C == Commas(text)
           Good(r) == (r > 0 => r \in C) /\ Cardinality({q \in C : q <= r}) = n
<1>1. C \in SUBSET (1 .. m) /\ p \in 0 .. m
  <2>1. C \in SUBSET DOMAIN text
    BY Zenon DEF Commas, Comma, Marks
  <2>2. C \in SUBSET (1 .. m)
    BY <2>1
  <2> HIDE DEF C
  <2>3. p \in C \cup {0}
    BY DEF C
  <2> QED
    BY <2>2, <2>3
<1>2. ASSUME NEW r \in 0 .. m
      PROVE  {q \in 1 .. r : text[q] = ","} = {q \in C : q <= r}
  <2>1. ASSUME NEW q PROVE q \in 1 .. r <=> q \in 1 .. m /\ q <= r
    OBVIOUS
  <2>2. ASSUME NEW q PROVE q \in C <=> q \in 1 .. m /\ text[q] = ","
    BY Zenon DEF Commas, Comma, Marks
  <2> HIDE DEF C
  <2> QED
    BY <2>1, <2>2, Zenon
<1>3. \A r \in 0 .. m : r > 0 => (text[r] = "," <=> r \in C)
  <2>1. \A r \in 0 .. m : r > 0 => r \in 1 .. m
    OBVIOUS
  <2>2. ASSUME NEW q PROVE q \in C <=> q \in 1 .. m /\ text[q] = ","
    BY Zenon DEF Commas, Comma, Marks
  <2> QED
    BY <2>1, <2>2, Zenon
<1>4. \A r \in 0 .. m : (/\ r > 0 => text[r] = ","
                         /\ Cardinality({q \in 1 .. r : text[q] = ","}) = n) <=> Good(r)
  BY <1>2, <1>3
<1>5. Good(p)
  <2>1. p > 0 => p \in C
    BY <1>1
  <2> QED
    BY <2>1
<1>6. ASSUME NEW r \in 0 .. m, Good(r), r # p PROVE FALSE
  <2>1. CASE r < p
    <3>1. r \in Nat /\ p \in C
      BY <1>1, <2>1
    <3> QED
      BY <1>1, <1>5, <1>6, <2>1, <3>1, CommasDiffer, ZenonT(40)
  <2>2. CASE p < r
    <3>1. p \in Nat /\ r \in C
      BY <1>1, <1>6, <2>2
    <3> QED
      BY <1>1, <1>5, <1>6, <2>2, <3>1, CommasDiffer, ZenonT(40)
  <2> QED
    BY <1>1, <1>6, <2>1, <2>2
<1> HIDE DEF Good
<1>7. CommaAt(text, n) = CHOOSE r \in 0 .. m : Good(r)
  BY <1>4, Zenon DEF CommaAt
<1> QED
  BY <1>1, <1>5, <1>6, <1>7, Zenon

(* How many elements small sets have.                                      *)
LEMMA CountOne == ASSUME NEW a PROVE IsFiniteSet({a}) /\ Cardinality({a}) = 1
BY FS_Singleton, Zenon

LEMMA CountTwo ==
  ASSUME NEW a, NEW b, a # b
  PROVE  IsFiniteSet({a, b}) /\ Cardinality({a, b}) = 2
<1> DEFINE S == {a}
<1>1. IsFiniteSet(S) /\ Cardinality(S) = 1
  BY CountOne, Zenon
<1>2. b \notin S /\ S \cup {b} = {a, b}
  OBVIOUS
<1> HIDE DEF S
<1>3. IsFiniteSet(S \cup {b}) /\ Cardinality(S \cup {b}) = Cardinality(S) + 1
  BY <1>1, <1>2, FS_AddElement, Zenon
<1>4. Cardinality(S) + 1 = 2
  BY <1>1
<1> QED
  BY <1>2, <1>3, <1>4, Zenon

LEMMA CountThree ==
  ASSUME NEW a, NEW b, NEW c, a # b, c \notin {a, b}
  PROVE  Cardinality({a, b, c}) = 3
<1> DEFINE S == {a, b}
<1>1. IsFiniteSet(S) /\ Cardinality(S) = 2
  BY CountTwo, Zenon
<1>2. c \notin S /\ S \cup {c} = {a, b, c}
  OBVIOUS
<1> HIDE DEF S
<1>3. Cardinality(S \cup {c}) = Cardinality(S) + 1
  BY <1>1, <1>2, FS_AddElement, Zenon
<1>4. Cardinality(S) + 1 = 3
  BY <1>1
<1> QED
  BY <1>2, <1>3, <1>4, Zenon

(* The pieces of a text with two commas, and of one with three.            *)
LEMMA TwoCommas ==
  ASSUME NEW text, NEW m \in Nat, Len(text) = m, DOMAIN text = 1 .. m,
         NEW c1 \in Nat, NEW c2 \in Nat, 0 < c1, c1 < c2, Commas(text) = {c1, c2}
  PROVE  /\ Pieces(text) = 2
         /\ CommaAt(text, 0) = 0 /\ CommaAt(text, 1) = c1 /\ CommaAt(text, 2) = c2
<1>1. Cardinality({}) = 0 /\ Cardinality({c1}) = 1 /\ Cardinality({c1, c2}) = 2
  <2>1. c1 # c2
    OBVIOUS
  <2> QED
    BY <2>1, FS_EmptySet, CountOne, CountTwo, Zenon
<1>2. /\ {q \in Commas(text) : q <= 0} = {}
      /\ {q \in Commas(text) : q <= c1} = {c1}
      /\ {q \in Commas(text) : q <= c2} = {c1, c2}
  OBVIOUS
<1>3. CommaAt(text, 0) = 0
  BY <1>1, <1>2, FindsComma
<1>4. CommaAt(text, 1) = c1
  BY <1>1, <1>2, FindsComma, ZenonT(40)
<1>5. CommaAt(text, 2) = c2
  BY <1>1, <1>2, FindsComma
<1>6. Pieces(text) = 2
  BY <1>1 DEF Pieces, Commas, Comma, Marks
<1> QED
  BY <1>3, <1>4, <1>5, <1>6

LEMMA ThreeCommas ==
  ASSUME NEW text, NEW m \in Nat, Len(text) = m, DOMAIN text = 1 .. m,
         NEW c1 \in Nat, NEW c2 \in Nat, NEW c3 \in Nat, 0 < c1, c1 < c2, c2 < c3,
         Commas(text) = {c1, c2, c3}
  PROVE  /\ Pieces(text) = 3
         /\ CommaAt(text, 0) = 0 /\ CommaAt(text, 1) = c1 /\ CommaAt(text, 2) = c2
         /\ CommaAt(text, 3) = c3
<1>1. /\ Cardinality({}) = 0 /\ Cardinality({c1}) = 1 /\ Cardinality({c1, c2}) = 2
      /\ Cardinality({c1, c2, c3}) = 3
  <2>1. c1 # c2 /\ c3 \notin {c1, c2}
    OBVIOUS
  <2>2. Cardinality({c1, c2, c3}) = 3
    BY <2>1, CountThree, Zenon
  <2>3. Cardinality({c1, c2}) = 2
    BY <2>1, CountTwo, Zenon
  <2> QED
    BY <2>2, <2>3, FS_EmptySet, CountOne, Zenon
<1>2. /\ {q \in Commas(text) : q <= 0} = {}
      /\ {q \in Commas(text) : q <= c1} = {c1}
      /\ {q \in Commas(text) : q <= c2} = {c1, c2}
      /\ {q \in Commas(text) : q <= c3} = {c1, c2, c3}
  OBVIOUS
<1>3. CommaAt(text, 0) = 0
  BY <1>1, <1>2, FindsComma
<1>4. CommaAt(text, 1) = c1
  BY <1>1, <1>2, FindsComma, ZenonT(40)
<1>5. CommaAt(text, 2) = c2
  BY <1>1, <1>2, FindsComma
<1>6. CommaAt(text, 3) = c3
  BY <1>1, <1>2, FindsComma
<1>7. Pieces(text) = 3
  BY <1>1 DEF Pieces, Commas, Comma, Marks
<1> QED
  BY <1>3, <1>4, <1>5, <1>6, <1>7

(* A part of a text.                                                       *)
LEMMA PartOf ==
  ASSUME NEW S, NEW t \in Seq(S), NEW x \in Seq(S), NEW k \in Nat,
         k + Len(x) <= Len(t), \A i \in 1 .. Len(x) : t[k + i] = x[i]
  PROVE  SubSeq(t, k + 1, (k + Len(x) + 1) - 1) = x
<1> DEFINE s == SubSeq(t, k + 1, (k + Len(x) + 1) - 1)
<1>1. Len(x) \in Nat /\ (k + Len(x) + 1) - 1 = k + Len(x)
  OBVIOUS
<1>2. /\ s \in Seq(S) /\ Len(s) = Len(x)
      /\ \A i \in 1 .. Len(x) : s[i] = t[(k + 1) + i - 1]
  BY <1>1, SubSeqProperties
<1>3. \A i \in 1 .. Len(x) : s[i] = x[i]
  BY <1>1, <1>2
<1> HIDE DEF s
<1>4. s = x
  BY <1>2, <1>3, SeqEqual
<1> QED
  BY <1>4 DEF s

(* A value and its comma, added to a text.                                 *)
LEMMA AddPart ==
  ASSUME NEW S, NEW c \in S, NEW t \in Seq(S), NEW x \in Seq(S),
         \A i \in 1 .. Len(x) : x[i] # c
  PROVE  /\ t \o (x \o <<c>>) \in Seq(S)
         /\ Len(t \o (x \o <<c>>)) = Len(t) + Len(x) + 1
         /\ \A i \in 1 .. Len(t) : (t \o (x \o <<c>>))[i] = t[i]
         /\ \A i \in 1 .. Len(x) : (t \o (x \o <<c>>))[Len(t) + i] = x[i]
         /\ Marks(c, t \o (x \o <<c>>)) = Marks(c, t) \cup {Len(t) + Len(x) + 1}
<1> DEFINE y == x \o <<c>>
           w == t \o y
<1>1. Len(t) \in Nat /\ Len(x) \in Nat
  OBVIOUS
<1>2. /\ y \in Seq(S) /\ Len(y) = Len(x) + 1
      /\ \A i \in 1 .. Len(x) : y[i] = x[i]
      /\ y[Len(x) + 1] = c
  BY <1>1, ConcatProperties
<1> HIDE DEF y
<1>3. /\ w \in Seq(S) /\ Len(w) = Len(t) + Len(y)
      /\ \A i \in 1 .. Len(t) + Len(y) :
           w[i] = IF i <= Len(t) THEN t[i] ELSE y[i - Len(t)]
  BY <1>2, ConcatProperties
<1> HIDE DEF w
<1>4. Len(w) = Len(t) + Len(x) + 1
  BY <1>1, <1>2, <1>3
<1>5. \A i \in 1 .. Len(t) : w[i] = t[i]
  BY <1>1, <1>2, <1>3
<1>6. \A i \in 1 .. Len(x) : w[Len(t) + i] = x[i]
  <2> SUFFICES ASSUME NEW i \in 1 .. Len(x) PROVE w[Len(t) + i] = x[i]
    OBVIOUS
  <2>1. Len(t) + i \in 1 .. Len(t) + Len(y) /\ ~(Len(t) + i <= Len(t))
    BY <1>1, <1>2
  <2>2. (Len(t) + i) - Len(t) = i
    BY <1>1
  <2> QED
    BY <1>2, <1>3, <2>1, <2>2
<1>7. w[Len(t) + Len(x) + 1] = c
  <2> DEFINE i == Len(t) + Len(x) + 1
  <2>1. i \in 1 .. Len(t) + Len(y) /\ ~(i <= Len(t)) /\ i - Len(t) = Len(x) + 1
    BY <1>1, <1>2
  <2> QED
    BY <1>2, <1>3, <2>1
<1>8. ASSUME NEW q
      PROVE  q \in Marks(c, w) <=> q \in Marks(c, t) \/ q = Len(t) + Len(x) + 1
  <2>1. /\ q \in Marks(c, w) <=> q \in 1 .. Len(w) /\ w[q] = c
        /\ q \in Marks(c, t) <=> q \in 1 .. Len(t) /\ t[q] = c
    BY <1>3 DEF Marks
  <2>2. CASE q \in 1 .. Len(t)
    BY <1>1, <1>4, <1>5, <2>1, <2>2
  <2>3. CASE q \in Len(t) + 1 .. Len(t) + Len(x)
    <3>1. q - Len(t) \in 1 .. Len(x) /\ q = Len(t) + (q - Len(t))
      BY <1>1, <2>3
    <3>2. w[q] # c
      BY <1>6, <3>1
    <3> QED
      BY <1>1, <2>1, <2>3, <3>2
  <2>4. CASE q = Len(t) + Len(x) + 1
    BY <1>1, <1>4, <1>7, <2>1, <2>4
  <2>5. CASE q \notin 1 .. Len(w)
    BY <1>1, <1>4, <2>1, <2>5
  <2>6. q \in 1 .. Len(w) => \/ q \in 1 .. Len(t) \/ q \in Len(t) + 1 .. Len(t) + Len(x)
                             \/ q = Len(t) + Len(x) + 1
    BY <1>1, <1>4
  <2> QED
    BY <2>2, <2>3, <2>4, <2>5, <2>6
<1>9. Marks(c, w) = Marks(c, t) \cup {Len(t) + Len(x) + 1}
  BY <1>8
<1> QED
  BY <1>3, <1>4, <1>5, <1>6, <1>9 DEF w, y

(* A text without commas.                                                  *)
Tokens == {Comma, "-"} \cup UNION {Attributes[f] : f \in TempestLists}
Plain(x) == x \in Seq(Tokens) /\ \A i \in 1 .. Len(x) : x[i] # Comma

LEMMA CommaIsToken == Comma \in Tokens
  BY DEF Tokens

(* w is t with x and a comma added.                                        *)
Extended(t, x, w) ==
    /\ w \in Seq(Tokens) /\ Len(w) = Len(t) + Len(x) + 1
    /\ \A i \in 1 .. Len(t) : w[i] = t[i]
    /\ \A i \in 1 .. Len(x) : w[Len(t) + i] = x[i]
    /\ Commas(w) = Commas(t) \cup {Len(t) + Len(x) + 1}

LEMMA AddText ==
  ASSUME NEW t \in Seq(Tokens), NEW x, Plain(x)
  PROVE  Extended(t, x, t \o (x \o <<Comma>>))
<1>1. x \in Seq(Tokens) /\ \A i \in 1 .. Len(x) : x[i] # Comma
  BY DEF Plain
<1> QED
  BY <1>1, CommaIsToken, AddPart DEF Commas, Extended

(* A text, once its comma is added.                                        *)
LEMMA OnePart ==
  ASSUME NEW x, Plain(x)
  PROVE  /\ x \o <<Comma>> \in Seq(Tokens) /\ Len(x \o <<Comma>>) = Len(x) + 1
         /\ \A i \in 1 .. Len(x) : (x \o <<Comma>>)[i] = x[i]
         /\ Commas(x \o <<Comma>>) = {Len(x) + 1}
<1> DEFINE e == <<>>
           a == e \o (x \o <<Comma>>)
<1>1. /\ x \in Seq(Tokens) /\ Len(x) \in Nat /\ e \in Seq(Tokens) /\ Len(e) = 0
      /\ \A i \in 1 .. Len(x) : x[i] # Comma
  BY DEF Plain
<1>2. Comma \in Tokens
  BY CommaIsToken
<1>3. Marks(Comma, e) = {}
  BY DEF Marks
<1>4. x \o <<Comma>> \in Seq(Tokens)
  BY <1>1, <1>2, ConcatProperties
<1>5. a = x \o <<Comma>>
  BY <1>4, ConcatEmptySeq
<1> HIDE DEF e
<1>6. Extended(e, x, a)
  BY <1>1, AddText
<1> HIDE DEF a
<1>7. Marks(Comma, a) = {Len(x) + 1}
  BY <1>1, <1>3, <1>6 DEF Extended, Commas
<1>8. Len(a) = Len(x) + 1 /\ \A i \in 1 .. Len(x) : a[i] = x[i]
  BY <1>1, <1>6 DEF Extended
<1> QED
  BY <1>4, <1>5, <1>7, <1>8 DEF Commas

(* Two texts without commas, each with its own, are read back.             *)
LEMMA TwoParts ==
  ASSUME NEW x, Plain(x), NEW y, Plain(y)
  PROVE  LET text == (x \o <<Comma>>) \o (y \o <<Comma>>)
         IN  Pieces(text) = 2 /\ Piece(text, 1) = x /\ Piece(text, 2) = y
<1> DEFINE a == x \o <<Comma>>
           b == a \o (y \o <<Comma>>)
<1>1. /\ x \in Seq(Tokens) /\ Len(x) \in Nat
      /\ y \in Seq(Tokens) /\ Len(y) \in Nat /\ \A i \in 1 .. Len(y) : y[i] # Comma
  BY DEF Plain
<1>2. Comma \in Tokens
  BY CommaIsToken
<1>3. /\ a \in Seq(Tokens) /\ Len(a) = Len(x) + 1
      /\ \A i \in 1 .. Len(x) : a[i] = x[i]
      /\ Commas(a) = {Len(x) + 1}
  BY OnePart
<1> HIDE DEF a
<1>4. /\ b \in Seq(Tokens) /\ Len(b) = Len(a) + Len(y) + 1
      /\ \A i \in 1 .. Len(a) : b[i] = a[i]
      /\ \A i \in 1 .. Len(y) : b[Len(a) + i] = y[i]
      /\ Commas(b) = Commas(a) \cup {Len(a) + Len(y) + 1}
  <2>1. Extended(a, y, b)
    BY <1>3, AddText
  <2> QED
    BY <2>1 DEF Extended
<1> HIDE DEF b
<1>5. Len(a) + Len(y) + 1 = Len(x) + Len(y) + 2 /\ Len(b) = Len(x) + Len(y) + 2
  BY <1>1, <1>3, <1>4
<1>6. Commas(b) = {Len(x) + 1, Len(x) + Len(y) + 2}
  BY <1>3, <1>4, <1>5
<1>7. /\ Pieces(b) = 2
      /\ CommaAt(b, 0) = 0 /\ CommaAt(b, 1) = Len(x) + 1
      /\ CommaAt(b, 2) = Len(x) + Len(y) + 2
  <2>1. Len(b) \in Nat /\ DOMAIN b = 1 .. Len(b)
    BY <1>4
  <2>2. /\ Len(x) + 1 \in Nat /\ Len(x) + Len(y) + 2 \in Nat
        /\ 0 < Len(x) + 1 /\ Len(x) + 1 < Len(x) + Len(y) + 2
    BY <1>1
  <2> QED
    BY <1>6, <2>1, <2>2, TwoCommas
<1>8. Piece(b, 1) = x
  <2>1. 0 + Len(x) <= Len(b) /\ \A i \in 1 .. Len(x) : b[0 + i] = x[i]
    BY <1>1, <1>3, <1>4, <1>5
  <2>2. SubSeq(b, 0 + 1, (0 + Len(x) + 1) - 1) = x
    BY <1>1, <1>4, <2>1, PartOf
  <2> QED
    BY <1>1, <1>7, <2>2 DEF Piece
<1>9. Piece(b, 2) = y
  <2>1. /\ Len(a) \in Nat /\ Len(a) + Len(y) <= Len(b)
        /\ \A i \in 1 .. Len(y) : b[Len(a) + i] = y[i]
    BY <1>1, <1>3, <1>4
  <2>2. SubSeq(b, Len(a) + 1, (Len(a) + Len(y) + 1) - 1) = y
    BY <1>1, <1>4, <2>1, PartOf
  <2> QED
    BY <1>1, <1>3, <1>5, <1>7, <2>2 DEF Piece
<1> QED
  BY <1>7, <1>8, <1>9 DEF a, b

(* And so are three.                                                       *)
LEMMA ThreeParts ==
  ASSUME NEW x, Plain(x), NEW y, Plain(y), NEW z, Plain(z)
  PROVE  LET text == ((x \o <<Comma>>) \o (y \o <<Comma>>)) \o (z \o <<Comma>>)
         IN  /\ Pieces(text) = 3 /\ Piece(text, 1) = x /\ Piece(text, 2) = y
             /\ Piece(text, 3) = z
<1> DEFINE a == x \o <<Comma>>
           b == a \o (y \o <<Comma>>)
           c == b \o (z \o <<Comma>>)
<1>1. /\ x \in Seq(Tokens) /\ Len(x) \in Nat
      /\ y \in Seq(Tokens) /\ Len(y) \in Nat /\ \A i \in 1 .. Len(y) : y[i] # Comma
      /\ z \in Seq(Tokens) /\ Len(z) \in Nat /\ \A i \in 1 .. Len(z) : z[i] # Comma
  BY DEF Plain
<1>2. Comma \in Tokens
  BY CommaIsToken
<1>3. /\ a \in Seq(Tokens) /\ Len(a) = Len(x) + 1
      /\ \A i \in 1 .. Len(x) : a[i] = x[i]
      /\ Commas(a) = {Len(x) + 1}
  BY OnePart
<1> HIDE DEF a
<1>4. /\ b \in Seq(Tokens) /\ Len(b) = Len(a) + Len(y) + 1
      /\ \A i \in 1 .. Len(a) : b[i] = a[i]
      /\ \A i \in 1 .. Len(y) : b[Len(a) + i] = y[i]
      /\ Commas(b) = Commas(a) \cup {Len(a) + Len(y) + 1}
  <2>1. Extended(a, y, b)
    BY <1>3, AddText
  <2> QED
    BY <2>1 DEF Extended
<1> HIDE DEF b
<1>5. /\ c \in Seq(Tokens) /\ Len(c) = Len(b) + Len(z) + 1
      /\ \A i \in 1 .. Len(b) : c[i] = b[i]
      /\ \A i \in 1 .. Len(z) : c[Len(b) + i] = z[i]
      /\ Commas(c) = Commas(b) \cup {Len(b) + Len(z) + 1}
  <2>1. Extended(b, z, c)
    BY <1>4, AddText
  <2> QED
    BY <2>1 DEF Extended
<1> HIDE DEF c
<1> DEFINE c1 == Len(x) + 1
           c2 == Len(x) + Len(y) + 2
           c3 == Len(x) + Len(y) + Len(z) + 3
<1>6. Len(a) = c1 /\ Len(b) = c2 /\ Len(c) = c3
  BY <1>1, <1>3, <1>4, <1>5
<1>7. c1 \in Nat /\ c2 \in Nat /\ c3 \in Nat /\ 0 < c1 /\ c1 < c2 /\ c2 < c3
  BY <1>1
<1>8. Commas(c) = {c1, c2, c3}
  <2>1. Commas(a) = {c1} /\ Commas(b) = Commas(a) \cup {c2} /\ Commas(c) = Commas(b) \cup {c3}
    BY <1>3, <1>4, <1>5, <1>6
  <2> HIDE DEF c1, c2, c3
  <2> QED
    BY <2>1
<1>9. /\ Pieces(c) = 3 /\ CommaAt(c, 0) = 0 /\ CommaAt(c, 1) = c1
      /\ CommaAt(c, 2) = c2 /\ CommaAt(c, 3) = c3
  <2>1. Len(c) \in Nat /\ DOMAIN c = 1 .. Len(c)
    BY <1>5
  <2> HIDE DEF c1, c2, c3
  <2> QED
    BY <1>7, <1>8, <2>1, ThreeCommas
<1>10. Piece(c, 1) = x
  <2>1. 0 + Len(x) <= Len(c) /\ \A i \in 1 .. Len(x) : c[0 + i] = x[i]
    <3>1. \A i \in 1 .. Len(x) : i \in 1 .. Len(a) /\ i \in 1 .. Len(b) /\ 0 + i = i
      BY <1>1, <1>6
    <3>2. 0 + Len(x) <= Len(c)
      BY <1>1, <1>6
    <3> QED
      BY <1>3, <1>4, <1>5, <3>1, <3>2
  <2>2. SubSeq(c, 0 + 1, (0 + Len(x) + 1) - 1) = x
    BY <1>1, <1>5, <2>1, PartOf
  <2> QED
    BY <1>1, <1>9, <2>2 DEF Piece
<1>11. Piece(c, 2) = y
  <2>1. Len(a) \in Nat /\ Len(a) + Len(y) <= Len(c)
    BY <1>1, <1>6
  <2>2. \A i \in 1 .. Len(y) : c[Len(a) + i] = y[i]
    BY <1>1, <1>4, <1>5, <1>6
  <2>3. SubSeq(c, Len(a) + 1, (Len(a) + Len(y) + 1) - 1) = y
    BY <1>1, <1>5, <2>1, <2>2, PartOf
  <2> QED
    BY <1>1, <1>6, <1>9, <2>3, SMTT(40) DEF Piece
<1>12. Piece(c, 3) = z
  <2>1. Len(b) \in Nat /\ Len(b) + Len(z) <= Len(c)
    BY <1>1, <1>6
  <2>2. SubSeq(c, Len(b) + 1, (Len(b) + Len(z) + 1) - 1) = z
    BY <1>1, <1>5, <2>1, PartOf
  <2> QED
    BY <1>1, <1>6, <1>9, <2>2 DEF Piece
<1> QED
  BY <1>9, <1>10, <1>11, <1>12 DEF a, b, c

(* What the variables of a list say, read back.                            *)
ListReadsBack(f, value) ==
    ReadEntries([a \in Attributes[f] |-> SetDictEnvVar(Entries(f, value), a)], f)
      = Entries(f, value)

(* The text of an attribute has no comma, and says whether it is given.    *)
LEMMA AttributeTexts ==
  ASSUME NEW f \in TempestLists, NEW a \in Attributes[f], NEW entry
  PROVE  /\ Plain(AttributeText(entry, a))
         /\ AttributeText(entry, a) \notin {<<>>, <<"-">>} <=> a \in entry
<1> DEFINE x == AttributeText(entry, a)
<1>1. a \in Tokens /\ "-" \in Tokens
  BY DEF Tokens
<1>2. a # Comma /\ "-" # Comma /\ a # "-"
  <2>1. CASE f = "ExternalPlugin"
    <3>1. a \in {"Repository", "ChangeRepository", "ChangeRefspec"}
      BY <2>1 DEF Attributes
    <3> QED
      BY <3>1 DEF Comma
  <2>2. CASE f = "ExtraImages"
    <3>1. a \in { "URL", "OsCloud", "ContainerFormat", "ID", "Name", "DiskFormat",
                  "ImageCreationTimeout", "Flavor.ID", "Flavor.Name", "Flavor.OsCloud",
                  "Flavor.RAM", "Flavor.Disk", "Flavor.Vcpus" }
      BY <2>2 DEF Attributes
    <3> QED
      BY <3>1 DEF Comma
  <2>3. CASE f = "ExtraRPMs"
    <3>1. a \in {"Name"}
      BY <2>3 DEF Attributes
    <3> QED
      BY <3>1 DEF Comma
  <2> QED
    BY <2>1, <2>2, <2>3 DEF TempestLists
<1>3. \A u \in Tokens : u # Comma => Plain(<<u>>)
  BY DEF Plain
<1>4. Plain(<<>>)
  BY DEF Plain
<1>5. x = <<a>> \/ x = <<"-">> \/ x = <<>>
  BY DEF AttributeText
<1>6. Plain(x)
  <2> HIDE DEF x
  <2> QED
    BY <1>1, <1>2, <1>3, <1>4, <1>5
<1>7. <<a>> # <<>> /\ <<a>> # <<"-">>
  BY <1>2
<1>8. x \notin {<<>>, <<"-">>} <=> a \in entry
  BY <1>7 DEF AttributeText
<1> QED
  BY <1>6, <1>8

(* The entries of lists of two and of three.                               *)
LEMMA TwoEntries ==
  ASSUME NEW f \in TempestLists, NEW e1 \in SUBSET Attributes[f],
         NEW e2 \in SUBSET Attributes[f]
  PROVE  ReadEntries([a \in Attributes[f] |-> SetDictEnvVar(<<e1, e2>>, a)], f) = <<e1, e2>>
<1> DEFINE texts == [a \in Attributes[f] |-> SetDictEnvVar(<<e1, e2>>, a)]
<1>1. ASSUME NEW a \in Attributes[f]
      PROVE  /\ Pieces(texts[a]) = 2
             /\ Piece(texts[a], 1) = AttributeText(e1, a)
             /\ Piece(texts[a], 2) = AttributeText(e2, a)
  <2> DEFINE x == AttributeText(e1, a)
             y == AttributeText(e2, a)
  <2>1. Plain(x) /\ Plain(y)
    BY AttributeTexts
  <2>2. texts[a] = FlattenSeq([n \in DOMAIN <<e1, e2>> |->
                                 AttributeText(<<e1, e2>>[n], a) \o <<Comma>>])
    BY DEF SetDictEnvVar, Comma
  <2>3. [n \in DOMAIN <<e1, e2>> |-> AttributeText(<<e1, e2>>[n], a) \o <<Comma>>]
          = <<x \o <<Comma>>, y \o <<Comma>>>>
    BY SMTT(40)
  <2> HIDE DEF x, y, texts
  <2>4. texts[a] = (x \o <<Comma>>) \o (y \o <<Comma>>)
    BY <2>2, <2>3, FlattenTwo
  <2>5. Pieces(texts[a]) = 2 /\ Piece(texts[a], 1) = x /\ Piece(texts[a], 2) = y
    BY <2>1, <2>4, TwoParts
  <2> QED
    BY <2>5 DEF x, y
<1> HIDE DEF texts
<1>2. Required[f] \in Attributes[f]
  BY DEF Required, Attributes, TempestLists
<1>3. ReadEntries(texts, f) =
        [n \in 1 .. 2 |-> {a \in Attributes[f] : /\ n <= Pieces(texts[a])
                                                 /\ Piece(texts[a], n) \notin {<<>>, <<"-">>}}]
  BY <1>1, <1>2 DEF ReadEntries
<1>4. {a \in Attributes[f] : /\ 1 <= Pieces(texts[a])
                             /\ Piece(texts[a], 1) \notin {<<>>, <<"-">>}} = e1
  <2>1. \A a \in Attributes[f] :
          (1 <= Pieces(texts[a]) /\ Piece(texts[a], 1) \notin {<<>>, <<"-">>}) <=> a \in e1
    BY <1>1, AttributeTexts
  <2> QED
    BY <2>1, Zenon
<1>5. {a \in Attributes[f] : /\ 2 <= Pieces(texts[a])
                             /\ Piece(texts[a], 2) \notin {<<>>, <<"-">>}} = e2
  <2>1. \A a \in Attributes[f] :
          (2 <= Pieces(texts[a]) /\ Piece(texts[a], 2) \notin {<<>>, <<"-">>}) <=> a \in e2
    BY <1>1, AttributeTexts
  <2> QED
    BY <2>1, Zenon
<1>6. ReadEntries(texts, f) = <<e1, e2>>
  <2> DEFINE Read(n) == {a \in Attributes[f] : /\ n <= Pieces(texts[a])
                                               /\ Piece(texts[a], n) \notin {<<>>, <<"-">>}}
  <2>1. Read(1) = e1 /\ Read(2) = e2 /\ ReadEntries(texts, f) = [n \in 1 .. 2 |-> Read(n)]
    BY <1>3, <1>4, <1>5
  <2> HIDE DEF Read
  <2> QED
    BY <2>1
<1> QED
  BY <1>6 DEF texts

LEMMA ThreeEntries ==
  ASSUME NEW f \in TempestLists, NEW e1 \in SUBSET Attributes[f],
         NEW e2 \in SUBSET Attributes[f], NEW e3 \in SUBSET Attributes[f]
  PROVE  ReadEntries([a \in Attributes[f] |-> SetDictEnvVar(<<e1, e2, e3>>, a)], f)
           = <<e1, e2, e3>>
<1> DEFINE texts == [a \in Attributes[f] |-> SetDictEnvVar(<<e1, e2, e3>>, a)]
<1>1. ASSUME NEW a \in Attributes[f]
      PROVE  /\ Pieces(texts[a]) = 3
             /\ Piece(texts[a], 1) = AttributeText(e1, a)
             /\ Piece(texts[a], 2) = AttributeText(e2, a)
             /\ Piece(texts[a], 3) = AttributeText(e3, a)
  <2> DEFINE x == AttributeText(e1, a)
             y == AttributeText(e2, a)
             z == AttributeText(e3, a)
  <2>1. Plain(x) /\ Plain(y) /\ Plain(z)
    BY AttributeTexts
  <2> DEFINE Part(e) == AttributeText(e, a) \o <<Comma>>
             parts == [n \in DOMAIN <<e1, e2, e3>> |-> Part(<<e1, e2, e3>>[n])]
  <2>2. texts[a] = FlattenSeq(parts)
    BY DEF SetDictEnvVar, Comma
  <2>3. /\ Part(e1) = x \o <<Comma>> /\ Part(e2) = y \o <<Comma>>
        /\ Part(e3) = z \o <<Comma>>
    OBVIOUS
  <2> HIDE DEF x, y, z, texts, Part
  <2>4. /\ Len(parts) = 3
        /\ parts[1] = Part(e1) /\ parts[2] = Part(e2) /\ parts[3] = Part(e3)
    <3>1. DOMAIN <<e1, e2, e3>> = 1 .. 3
      OBVIOUS
    <3>2. Len(parts) = 3
      BY <3>1
    <3> QED
      BY <3>1, <3>2
  <2> HIDE DEF parts
  <2>5. texts[a] = ((x \o <<Comma>>) \o (y \o <<Comma>>)) \o (z \o <<Comma>>)
    <3>1. FlattenSeq(parts) = (parts[1] \o parts[2]) \o parts[3]
      BY <2>4, FlattenThree
    <3> QED
      BY <2>2, <2>3, <2>4, <3>1, Zenon
  <2>6. /\ Pieces(texts[a]) = 3
        /\ Piece(texts[a], 1) = x /\ Piece(texts[a], 2) = y /\ Piece(texts[a], 3) = z
    BY <2>1, <2>5, ThreeParts
  <2> QED
    BY <2>6 DEF x, y, z
<1> HIDE DEF texts
<1>2. Required[f] \in Attributes[f]
  BY DEF Required, Attributes, TempestLists
<1>3. ReadEntries(texts, f) =
        [n \in 1 .. 3 |-> {a \in Attributes[f] : /\ n <= Pieces(texts[a])
                                                 /\ Piece(texts[a], n) \notin {<<>>, <<"-">>}}]
  BY <1>1, <1>2 DEF ReadEntries
<1>4. {a \in Attributes[f] : /\ 1 <= Pieces(texts[a])
                             /\ Piece(texts[a], 1) \notin {<<>>, <<"-">>}} = e1
  <2>1. \A a \in Attributes[f] :
          (1 <= Pieces(texts[a]) /\ Piece(texts[a], 1) \notin {<<>>, <<"-">>}) <=> a \in e1
    BY <1>1, AttributeTexts
  <2> QED
    BY <2>1, Zenon
<1>5. {a \in Attributes[f] : /\ 2 <= Pieces(texts[a])
                             /\ Piece(texts[a], 2) \notin {<<>>, <<"-">>}} = e2
  <2>1. \A a \in Attributes[f] :
          (2 <= Pieces(texts[a]) /\ Piece(texts[a], 2) \notin {<<>>, <<"-">>}) <=> a \in e2
    BY <1>1, AttributeTexts
  <2> QED
    BY <2>1, Zenon
<1>6. {a \in Attributes[f] : /\ 3 <= Pieces(texts[a])
                             /\ Piece(texts[a], 3) \notin {<<>>, <<"-">>}} = e3
  <2>1. \A a \in Attributes[f] :
          (3 <= Pieces(texts[a]) /\ Piece(texts[a], 3) \notin {<<>>, <<"-">>}) <=> a \in e3
    BY <1>1, AttributeTexts
  <2> QED
    BY <2>1, Zenon
<1>7. ReadEntries(texts, f) = <<e1, e2, e3>>
  <2> DEFINE Read(n) == {a \in Attributes[f] : /\ n <= Pieces(texts[a])
                                               /\ Piece(texts[a], n) \notin {<<>>, <<"-">>}}
  <2>1. /\ Read(1) = e1 /\ Read(2) = e2 /\ Read(3) = e3
        /\ ReadEntries(texts, f) = [n \in 1 .. 3 |-> Read(n)]
    BY <1>3, <1>4, <1>5, <1>6
  <2> HIDE DEF Read
  <2> QED
    BY <2>1
<1> QED
  BY <1>7 DEF texts

(* All lists that a manifest gives are read back.                          *)
LEMMA ListsReadBack ==
  ASSUME NEW f \in TempestLists, NEW value \in SpecValues PROVE ListReadsBack(f, value)
<1>1. Required[f] \in Attributes[f]
  BY DEF Required, Attributes, TempestLists
<1> DEFINE r == {Required[f]}
           all == Attributes[f]
<1>2. r \in SUBSET Attributes[f] /\ all \in SUBSET Attributes[f]
  BY <1>1
<1>3. CASE value = "main"
  <2>1. Entries(f, value) = <<r, all, r>>
    BY <1>3 DEF Entries
  <2> HIDE DEF r, all
  <2> QED
    BY <1>2, <2>1, ThreeEntries DEF ListReadsBack
<1>4. CASE value = "step"
  <2>1. Entries(f, value) = <<all, r>>
    BY <1>4 DEF Entries
  <2> HIDE DEF r, all
  <2> QED
    BY <1>2, <2>1, TwoEntries DEF ListReadsBack
<1>5. CASE value = "empty"
  <2> DEFINE texts == [a \in Attributes[f] |-> SetDictEnvVar(Entries(f, value), a)]
  <2>1. Entries(f, value) = <<>>
    BY <1>5 DEF Entries
  <2>2. texts[Required[f]] = SetDictEnvVar(<<>>, Required[f])
    BY <1>1, <2>1
  <2>3. SetDictEnvVar(<<>>, Required[f]) = <<>>
    <3> DEFINE s == [n \in DOMAIN <<>> |-> AttributeText(<<>>[n], Required[f]) \o <<",">>]
    <3>1. s = <<>>
      OBVIOUS
    <3>2. SetDictEnvVar(<<>>, Required[f]) = FlattenSeq(s)
      BY DEF SetDictEnvVar
    <3> HIDE DEF s
    <3>3. FlattenSeq(<<>>) = <<>>
      BY DEF FlattenSeq
    <3> QED
      BY <3>1, <3>2, <3>3
  <2>4. Pieces(<<>>) = 0
    BY FS_EmptySet DEF Pieces
  <2> HIDE DEF texts
  <2>5. ReadEntries(texts, f) = <<>>
    <3>1. Pieces(texts[Required[f]]) = 0
      BY <2>2, <2>3, <2>4
    <3>2. 1 .. 0 = {}
      OBVIOUS
    <3> QED
      BY <3>1, <3>2 DEF ReadEntries
  <2> QED
    BY <2>1, <2>5 DEF ListReadsBack, texts
<1> QED
  BY <1>3, <1>4, <1>5 DEF SpecValues

-----------------------------------------------------------------------------
(* An option reaches its container: as it is, as a switch that is on, by   *)
(* the file that replaces its own, or as a list.                           *)
Delivered(kind, merged, f) ==
    LET e    == Environment(kind, merged)
        read == Reads(e, f)
    IN  \/ f \notin DOMAIN e.lists /\ read = merged[f]
        \/ read = "on" /\ Given(merged[f])
        \/ /\ f \in OverwrittenFiles
           /\ Given(merged[f]) /\ read = merged["ConfigOverwrite"]
        \/ f \in DOMAIN e.lists /\ ReadEntries(e.lists[f], f) = Entries(f, merged[f])

(* Options that are read otherwise than from a variable.                   *)
FileOptions == TobikoFiles \cup {"ConfigOverwrite"}
WordOptions == {"SkipRegexList", "PytestAddopts"}
(* Options that are not for the test in the container.                     *)
Elsewise == (PodOptions \cup OtherOptions) \cup UnusedOptions

(* An option with a variable of its own,                                   *)
LEMMA ReadsVariable ==
  ASSUME NEW e, NEW merged, NEW f, merged[f] \in SpecValues,
         f \in DOMAIN e.vars, f \notin FileOptions \cup WordOptions,
         e.vars[f] \in { FormatBool(merged[f]), StringOrPlaceholder(merged[f], ""),
                         IF Given(merged[f]) THEN "True" ELSE "" }
  PROVE  \/ Reads(e, f) = merged[f]
         \/ Reads(e, f) = "on" /\ Given(merged[f])
<1>1. Reads(e, f) =
        CASE e.vars[f] = "path"             -> e.files[f]
          [] e.vars[f] \in {"", "false"}    -> "empty"
          [] e.vars[f] \in {"true", "True"} -> "on"
          [] OTHER                          -> e.vars[f]
  BY DEF Reads, FileOptions, WordOptions
<1> QED
  BY <1>1 DEF SpecValues, FormatBool, StringOrPlaceholder, Given

(* and one whose variable or file is left out.                             *)
LEMMA ReadsUnset ==
  ASSUME NEW e, NEW f, f \notin DOMAIN e.vars, f \notin WordOptions,
         f \in FileOptions => f \notin DOMAIN e.files
  PROVE  Reads(e, f) = "empty"
BY DEF Reads, FileOptions, WordOptions

-----------------------------------------------------------------------------
AnsibleStrings ==
    { "AnsibleExtraVars", "AnsibleVarFiles", "AnsibleInventory", "AnsibleGitRepo",
      "AnsibleGitBranch", "AnsiblePlaybookPath", "AnsibleCollections" }

LEMMA AnsibleTestDelivered ==
  ASSUME NEW merged \in [Fields("AnsibleTest") -> SpecValues],
         NEW f \in Fields("AnsibleTest"), f \notin Elsewise
  PROVE  Delivered("AnsibleTest", merged, f)
<1> DEFINE e == Environment("AnsibleTest", merged)
           bools == SetBoolEnvVars(merged, {"Debug"})
           strings == SetStringEnvVars(merged, AnsibleStrings)
<1>1. e.vars = bools ++ strings /\ e.lists = NoVariables
  BY DEF Environment, PrepareAnsibleEnv, AnsibleStrings
<1>2. DOMAIN bools = {"Debug"} /\ DOMAIN strings = AnsibleStrings /\ DOMAIN e.lists = {}
  BY <1>1 DEF SetBoolEnvVars, SetStringEnvVars, NoVariables
<1>3. DOMAIN e.vars = {"Debug"} \cup AnsibleStrings
  BY <1>1, <1>2 DEF ++
<1>4. f \in DOMAIN e.vars =>
        e.vars[f] \in { FormatBool(merged[f]), StringOrPlaceholder(merged[f], ""),
                        IF Given(merged[f]) THEN "True" ELSE "" }
  BY <1>1, <1>2 DEF ++, SetBoolEnvVars, SetStringEnvVars
<1>5. f \in {"Debug"} \cup AnsibleStrings
  BY DEF Fields, StepFields, SpecOnlyFields, Step, AnsibleTestWorkflowSpec,
     AnsibleTestSpec, CommonOptions, WorkflowCommonOptions, CommonOpenstackConfig,
     AnsibleStrings, Elsewise, PodOptions, CopiedOptions, MountedOptions,
     ReferringFields, OtherOptions, UnusedOptions, FixedOptions
<1> HIDE DEF e
<1>6. \/ Reads(e, f) = merged[f]
      \/ Reads(e, f) = "on" /\ Given(merged[f])
  <2>1. merged[f] \in SpecValues
    OBVIOUS
  <2>2. f \in DOMAIN e.vars
    BY <1>3, <1>5
  <2>3. f \notin FileOptions \cup WordOptions
    BY <1>5 DEF FileOptions, WordOptions, TobikoFiles, TobikoKeys, AnsibleStrings
  <2> QED
    BY <1>4, <2>1, <2>2, <2>3, ReadsVariable
<1> QED
  BY <1>2, <1>6 DEF Delivered, e

HorizonTestStrings ==
    { "AdminUsername", "AdminPassword", "DashboardUrl", "AuthUrl", "RepoUrl",
      "HorizonRepoBranch", "ExtraFlag", "ProjectNameXpath", "ProjectTextXpath" }

LEMMA HorizonTestDelivered ==
  ASSUME NEW merged \in [Fields("HorizonTest") -> SpecValues],
         NEW f \in Fields("HorizonTest"), f \notin Elsewise
  PROVE  Delivered("HorizonTest", merged, f)
<1> DEFINE e == Environment("HorizonTest", merged)
           bools == SetBoolEnvVars(merged, {"Debug"})
           strings == SetStringEnvVars(merged, HorizonTestStrings)
           fixed == [o \in FixedOptions |-> "fixed"]
<1>1. e.vars = (bools ++ strings) ++ fixed /\ e.lists = NoVariables
  BY DEF Environment, PrepareHorizonTestEnvVars, HorizonTestStrings
<1>2. DOMAIN bools = {"Debug"} /\ DOMAIN strings = HorizonTestStrings /\ DOMAIN e.lists = {}
  BY <1>1 DEF SetBoolEnvVars, SetStringEnvVars, NoVariables
<1>3. DOMAIN e.vars = ({"Debug"} \cup HorizonTestStrings) \cup FixedOptions
  BY <1>1, <1>2 DEF ++
<1>4. f \in DOMAIN e.vars =>
        e.vars[f] \in { FormatBool(merged[f]), StringOrPlaceholder(merged[f], ""),
                        IF Given(merged[f]) THEN "True" ELSE "" }
  <2>1. f \notin FixedOptions
    BY DEF Elsewise, UnusedOptions
  <2> QED
    BY <1>1, <1>2, <2>1 DEF ++, SetBoolEnvVars, SetStringEnvVars
<1>5. f \in {"Debug"} \cup HorizonTestStrings
  BY DEF Fields, StepFields, SpecOnlyFields, Step, NoStep,
     HorizonTestSpec, CommonOptions, WorkflowCommonOptions, CommonOpenstackConfig,
     HorizonTestStrings, Elsewise, PodOptions, CopiedOptions, MountedOptions,
     ReferringFields, OtherOptions, UnusedOptions, FixedOptions
<1> HIDE DEF e
<1>6. \/ Reads(e, f) = merged[f]
      \/ Reads(e, f) = "on" /\ Given(merged[f])
  <2>1. merged[f] \in SpecValues
    OBVIOUS
  <2>2. f \in DOMAIN e.vars
    BY <1>3, <1>5
  <2>3. f \notin FileOptions \cup WordOptions
    BY <1>5 DEF FileOptions, WordOptions, TobikoFiles, TobikoKeys, HorizonTestStrings
  <2> QED
    BY <1>4, <2>1, <2>2, <2>3, ReadsVariable
<1> QED
  BY <1>2, <1>6 DEF Delivered, e

LEMMA Joined ==
  ASSUME NEW x, NEW y, NEW z
  PROVE  /\ <<>> \o <<x>> = <<x>>
         /\ <<x>> \o <<y>> = <<x, y>>
         /\ <<x, y>> \o <<z>> = <<x, y, z>>
<1>1. /\ <<>> \in Seq({x, y, z}) /\ <<x>> \in Seq({x, y, z})
      /\ <<y>> \in Seq({x, y, z}) /\ <<z>> \in Seq({x, y, z})
      /\ <<x, y>> \in Seq({x, y, z}) /\ <<x, y, z>> \in Seq({x, y, z})
  OBVIOUS
<1>2. <<>> \o <<x>> = <<x>>
  BY <1>1
<1>3. <<x>> \o <<y>> = <<x, y>>
  <2>1. /\ <<x>> \o <<y>> \in Seq({x, y, z}) /\ Len(<<x>> \o <<y>>) = 2
        /\ \A n \in 1 .. 2 : (<<x>> \o <<y>>)[n] = <<x, y>>[n]
    BY <1>1
  <2> QED
    BY <1>1, <2>1, SeqEqual
<1>4. <<x, y>> \o <<z>> = <<x, y, z>>
  <2>1. /\ <<x, y>> \o <<z>> \in Seq({x, y, z}) /\ Len(<<x, y>> \o <<z>>) = 3
        /\ \A n \in 1 .. 3 : (<<x, y>> \o <<z>>)[n] = <<x, y, z>>[n]
    BY <1>1
  <2> QED
    BY <1>1, <2>1, SeqEqual
<1> QED
  BY <1>2, <1>3, <1>4

(* The words of Tobiko: what is joined into one variable is found again.   *)
LEMMA ReadsWords ==
  ASSUME NEW merged, merged["PytestAddopts"] \in SpecValues,
         merged["SkipRegexList"] \in SpecValues, NEW f \in WordOptions
  PROVE  ReadPytestAddopts(PreparePytestAddopts(merged))[f] = merged[f]
<1> DEFINE a == merged["PytestAddopts"]
           b == merged["SkipRegexList"]
           words == PreparePytestAddopts(merged)
           skip(p) == \/ words[p] = "--skipregex"
                      \/ p > 1 /\ words[p - 1] = "--skipregex"
           word(P) == IF P = {} THEN "empty" ELSE words[Max(P)]
           SkipSet == {p \in 2 .. Len(words) : skip(p - 1) /\ skip(p)}
           RestSet == {p \in DOMAIN words : ~skip(p)}
<1>1. /\ ReadPytestAddopts(words)["SkipRegexList"] = word(SkipSet)
      /\ ReadPytestAddopts(words)["PytestAddopts"] = word(RestSet)
  BY DEF ReadPytestAddopts
<1>2. \A n \in Int : Max({n}) = n
  BY DEF Max
<1>3. CASE ~Given(a) /\ ~Given(b)
  <2>1. words = <<>>
    BY <1>3 DEF PreparePytestAddopts
  <2>2. SkipSet = {} /\ RestSet = {}
    BY <2>1
  <2> QED
    BY <1>1, <1>3, <2>2 DEF WordOptions, Given, SpecValues
<1>4. CASE Given(a) /\ ~Given(b)
  <2>1. words = <<a>>
    BY <1>4 DEF PreparePytestAddopts
  <2>2. SkipSet = {} /\ RestSet = {1}
    BY <1>4, <2>1 DEF Given
  <2>3. words[Max({1})] = a
    BY <1>2, <2>1
  <2> QED
    BY <1>1, <1>4, <2>2, <2>3 DEF WordOptions, Given, SpecValues
<1>5. CASE ~Given(a) /\ Given(b)
  <2>1. words = <<"--skipregex", b>>
    <3>1. words = (<<>> \o <<"--skipregex">>) \o <<b>>
      BY <1>5 DEF PreparePytestAddopts
    <3> QED
      BY <3>1, Joined
  <2>2. SkipSet = {2} /\ RestSet = {}
    BY <1>5, <2>1 DEF Given
  <2>3. words[Max({2})] = b
    BY <1>2, <2>1
  <2> QED
    BY <1>1, <1>5, <2>2, <2>3 DEF WordOptions, Given, SpecValues
<1>6. CASE Given(a) /\ Given(b)
  <2>1. words = <<a, "--skipregex", b>>
    <3>1. words = (<<a>> \o <<"--skipregex">>) \o <<b>>
      BY <1>6 DEF PreparePytestAddopts
    <3> QED
      BY <3>1, Joined
  <2>2. SkipSet = {3} /\ RestSet = {1}
    BY <1>6, <2>1 DEF Given
  <2>3. words[Max({3})] = b /\ words[Max({1})] = a
    BY <1>2, <2>1
  <2> QED
    BY <1>1, <1>6, <2>2, <2>3 DEF WordOptions, Given, SpecValues
<1> QED
  BY <1>3, <1>4, <1>5, <1>6

LEMMA TobikoDelivered ==
  ASSUME NEW merged \in [Fields("Tobiko") -> SpecValues],
         NEW f \in Fields("Tobiko"), f \notin Elsewise,
         f \in TobikoKeys /\ Given(merged[f]) => mountKeys(merged)
  PROVE  Delivered("Tobiko", merged, f)
<1> DEFINE e == Environment("Tobiko", merged)
           bools == SetBoolEnvVars(merged, {"Debug"})
           prevent == [o \in {"PreventCreate"} |-> IF Given(merged[o]) THEN "True" ELSE ""]
           strings == SetStringEnvVars(merged, {"Testenv", "Version"})
           given == SetGiven(merged, {"NumProcesses", "Patch"})
           Set == {o \in {"NumProcesses", "Patch"} : Given(merged[o])}
           mounted == IF mountKeys(merged) THEN TobikoFiles ELSE {"Config"}
<1>1. /\ e.vars = ((bools ++ prevent) ++ strings) ++ given
      /\ e.files = SetStringEnvVars(merged, mounted)
      /\ e.lists = NoVariables
      /\ e.words = PreparePytestAddopts(merged)
  BY DEF Environment, PrepareTobikoEnvVars
<1>2. /\ DOMAIN bools = {"Debug"} /\ DOMAIN prevent = {"PreventCreate"}
      /\ DOMAIN strings = {"Testenv", "Version"} /\ DOMAIN given = Set
      /\ DOMAIN e.lists = {}
  BY <1>1 DEF SetBoolEnvVars, SetStringEnvVars, SetGiven, NoVariables
<1>3. DOMAIN e.vars = {"Debug", "PreventCreate", "Testenv", "Version"} \cup Set
  BY <1>1, <1>2 DEF ++
<1>4. f \in DOMAIN e.vars =>
        e.vars[f] \in { FormatBool(merged[f]), StringOrPlaceholder(merged[f], ""),
                        IF Given(merged[f]) THEN "True" ELSE "" }
  <2>1. /\ f \in DOMAIN bools => bools[f] = FormatBool(merged[f])
        /\ f \in DOMAIN prevent => prevent[f] = IF Given(merged[f]) THEN "True" ELSE ""
        /\ f \in DOMAIN strings => strings[f] = StringOrPlaceholder(merged[f], "")
        /\ f \in DOMAIN given => given[f] = StringOrPlaceholder(merged[f], "")
    BY DEF SetBoolEnvVars, SetStringEnvVars, SetGiven, StringOrPlaceholder
  <2> HIDE DEF e, bools, prevent, strings, given
  <2>2. f \in DOMAIN e.vars =>
          e.vars[f] = IF f \in DOMAIN bools THEN bools[f]
                      ELSE IF f \in DOMAIN prevent THEN prevent[f]
                      ELSE IF f \in DOMAIN strings THEN strings[f]
                      ELSE given[f]
    BY <1>1 DEF ++
  <2>3. f \in DOMAIN e.vars => \/ f \in DOMAIN bools \/ f \in DOMAIN prevent
                               \/ f \in DOMAIN strings \/ f \in DOMAIN given
    BY <1>1 DEF ++
  <2> QED
    BY <2>1, <2>2, <2>3
<1>5. f \in {"Debug", "PreventCreate", "Testenv", "Version", "NumProcesses", "Patch"}
             \cup (TobikoFiles \cup WordOptions)
  BY DEF Fields, StepFields, SpecOnlyFields, Step, TobikoWorkflowSpec, TobikoSpec,
     CommonOptions, WorkflowCommonOptions, CommonOpenstackConfig, TobikoFiles, TobikoKeys,
     WordOptions, Elsewise, PodOptions, CopiedOptions, MountedOptions, ReferringFields,
     OtherOptions, UnusedOptions, FixedOptions
<1>6. /\ merged[f] \in SpecValues
      /\ merged["PytestAddopts"] \in SpecValues /\ merged["SkipRegexList"] \in SpecValues
  BY DEF Fields, StepFields, Step, TobikoWorkflowSpec
<1>7. \/ Reads(e, f) = merged[f]
      \/ Reads(e, f) = "on" /\ Given(merged[f])
  <2> HIDE DEF e, mounted
  <2>1. CASE f \in TobikoFiles
    <3>1. f \notin DOMAIN e.vars /\ f \notin WordOptions /\ f \in FileOptions
      BY <1>3, <2>1 DEF FileOptions, TobikoFiles, TobikoKeys, WordOptions
    <3>2. CASE f \in mounted
      <4>1. f \in DOMAIN e.files /\ e.files[f] = StringOrPlaceholder(merged[f], "")
        BY <1>1, <3>2 DEF SetStringEnvVars
      <4> QED
        BY <1>6, <2>1, <3>1, <4>1 DEF Reads, WordOptions, StringOrPlaceholder, Given,
           SpecValues
    <3>3. CASE f \notin mounted
      <4>1. f \notin DOMAIN e.files
        BY <1>1, <3>3 DEF SetStringEnvVars
      <4>2. ~Given(merged[f])
        BY <2>1, <3>3 DEF mounted, TobikoFiles
      <4> QED
        BY <1>6, <3>1, <4>1, <4>2, ReadsUnset DEF Given, SpecValues
    <3> QED
      BY <3>2, <3>3
  <2>2. CASE f \in WordOptions
    <3>1. f \notin FileOptions /\ f \notin DOMAIN e.vars
      BY <1>3, <2>2 DEF FileOptions, TobikoFiles, TobikoKeys, WordOptions
    <3>2. ReadPytestAddopts(e.words)[f] = merged[f]
      BY <1>1, <1>6, <2>2, ReadsWords
    <3> QED
      BY <1>6, <2>2, <3>1, <3>2 DEF Reads, FileOptions, WordOptions, SpecValues
  <2>3. CASE f \in {"NumProcesses", "Patch"} /\ f \notin DOMAIN e.vars
    <3>1. ~Given(merged[f]) /\ f \notin FileOptions \cup WordOptions
      BY <1>3, <2>3 DEF FileOptions, WordOptions, TobikoFiles, TobikoKeys
    <3> QED
      BY <1>6, <2>3, <3>1, ReadsUnset DEF Given, SpecValues
  <2>4. CASE f \in DOMAIN e.vars
    <3>1. f \notin FileOptions \cup WordOptions
      BY <1>3, <2>4 DEF FileOptions, WordOptions, TobikoFiles, TobikoKeys
    <3> QED
      BY <1>4, <1>6, <2>4, <3>1, ReadsVariable
  <2> QED
    BY <1>3, <1>5, <2>1, <2>2, <2>3, <2>4
<1> HIDE DEF e
<1> QED
  BY <1>2, <1>7 DEF Delivered, e

(* The options of Tempest by the variables that they have.                 *)
TempestBools ==
    { "Serial", "RunParallel", "Smoke", "Create", "CollectTiming", "Insecure",
      "NoDefaultDeployer", "ConfDebug", "Verbose", "NonAdmin", "RetryImage",
      "ConvertToRaw", "Debug", "Cleanup", "RerunFailedTests", "RerunOverrideStatus" }
TempestStrings ==
    { "Timeout", "FlavorMinMem", "FlavorMinDisk", "Out", "CreateAccountsFile",
      "GenerateProfile", "ImageDiskFormat", "Image", "NetworkID", "Append", "Remove",
      "Overrides", "TimingDataUrl" }

(* Whether and how vs has option f.                                        *)
HasOption(merged, f, vs) ==
    /\ f \in DOMAIN vs <=>
         \/ f \in TempestBools \/ f \in TempestStrings
         \/ /\ f \in TempestFiles \cup TempestconfFiles \/ f = "Concurrency"
            /\ Given(merged[f])
    /\ f \in TempestBools => vs[f] = FormatBool(merged[f])
    /\ f \in TempestStrings => vs[f] = StringOrPlaceholder(merged[f], "")
    /\ f \in TempestFiles \cup TempestconfFiles /\ Given(merged[f]) => vs[f] = "path"
    /\ f = "Concurrency" /\ Given(merged[f]) => vs[f] = merged[f]

LEMMA TempestVariables ==
  ASSUME NEW merged, NEW f
  PROVE  HasOption(merged, f, TempestEnvVars(merged))
<1> DEFINE vs == TempestEnvVars(merged)
<1> DEFINE run == setTempestConfigVars(merged)
           conf == setTempestconfConfigVars(merged)
           b1 == {"Serial", "RunParallel", "Smoke"}
           b2 == { "Create", "CollectTiming", "Insecure", "NoDefaultDeployer",
                   "ConfDebug", "Verbose", "NonAdmin", "RetryImage", "ConvertToRaw" }
           b3 == {"Debug", "Cleanup", "RerunFailedTests", "RerunOverrideStatus"}
           s2 == { "Timeout", "FlavorMinMem", "FlavorMinDisk", "Out",
                   "CreateAccountsFile", "GenerateProfile", "ImageDiskFormat",
                   "Image", "NetworkID", "Append", "Remove", "Overrides" }
<1>1. /\ f \in DOMAIN run <=> \/ f \in TempestFiles /\ Given(merged[f])
                              \/ f \in b1
                              \/ f = "Concurrency" /\ Given(merged[f])
      /\ f \in TempestFiles /\ Given(merged[f]) => run[f] = "path"
      /\ f \in b1 => run[f] = FormatBool(merged[f])
      /\ f = "Concurrency" /\ Given(merged[f]) => run[f] = merged[f]
  <2> DEFINE paths == SetFileEnvVars(merged, TempestFiles)
             flags == SetBoolEnvVars(merged, b1)
             number == SetGiven(merged, {"Concurrency"})
  <2>1. /\ f \in DOMAIN paths <=> f \in TempestFiles /\ Given(merged[f])
        /\ f \in DOMAIN paths => paths[f] = "path"
        /\ f \in DOMAIN flags <=> f \in b1
        /\ f \in DOMAIN flags => flags[f] = FormatBool(merged[f])
        /\ f \in DOMAIN number <=> f = "Concurrency" /\ Given(merged[f])
        /\ f \in DOMAIN number => number[f] = merged[f]
    BY DEF SetFileEnvVars, SetBoolEnvVars, SetGiven, Given
  <2>2. run = (paths ++ flags) ++ number
    BY DEF setTempestConfigVars
  <2>3. /\ f \in b1 => f \notin TempestFiles
        /\ f = "Concurrency" => f \notin TempestFiles /\ f \notin b1
    BY DEF TempestFiles
  <2> HIDE DEF run, paths, flags, number, b1
  <2>4. /\ f \in DOMAIN run <=> \/ f \in DOMAIN paths \/ f \in DOMAIN flags
                                \/ f \in DOMAIN number
        /\ f \in DOMAIN run => run[f] = IF f \in DOMAIN paths THEN paths[f]
                                        ELSE IF f \in DOMAIN flags THEN flags[f]
                                        ELSE number[f]
    BY <2>2 DEF ++
  <2> HIDE DEF Given
  <2>5. f \in DOMAIN run <=> \/ f \in TempestFiles /\ Given(merged[f])
                             \/ f \in b1
                             \/ f = "Concurrency" /\ Given(merged[f])
    BY <2>1, <2>4, Zenon
  <2> QED
    BY <2>1, <2>3, <2>4, <2>5
<1>2. /\ f \in DOMAIN conf <=> \/ f \in TempestconfFiles /\ Given(merged[f])
                               \/ f \in b2
                               \/ f \in s2
      /\ f \in TempestconfFiles /\ Given(merged[f]) => conf[f] = "path"
      /\ f \in b2 => conf[f] = FormatBool(merged[f])
      /\ f \in s2 => conf[f] = StringOrPlaceholder(merged[f], "")
  BY DEF setTempestconfConfigVars, SetFileEnvVars, SetBoolEnvVars, SetStringEnvVars,
         ++, TempestconfFiles, Given
<1> DEFINE bools == SetBoolEnvVars(merged, b3)
           url == SetStringEnvVars(merged, {"TimingDataUrl"})
<1>3. vs = ((run ++ conf) ++ bools) ++ url
  BY DEF TempestEnvVars
<1>4. /\ f \in DOMAIN bools <=> f \in b3
      /\ f \in b3 => bools[f] = FormatBool(merged[f])
      /\ f \in DOMAIN url <=> f = "TimingDataUrl"
      /\ f = "TimingDataUrl" => url[f] = StringOrPlaceholder(merged[f], "")
  BY DEF SetBoolEnvVars, SetStringEnvVars
<1> HIDE DEF run, conf, bools, url
<1>5. /\ f \in DOMAIN vs <=> \/ f \in DOMAIN run \/ f \in DOMAIN conf
                             \/ f \in DOMAIN bools \/ f \in DOMAIN url
      /\ f \in DOMAIN vs =>
           vs[f] = IF f \in DOMAIN run THEN run[f]
                   ELSE IF f \in DOMAIN conf THEN conf[f]
                   ELSE IF f \in DOMAIN bools THEN bools[f] ELSE url[f]
  BY <1>3 DEF ++
<1>6. /\ f \in TempestBools <=> f \in b1 \/ f \in b2 \/ f \in b3
      /\ f \in TempestStrings <=> f \in s2 \/ f = "TimingDataUrl"
      /\ f \in b1 => ~(\/ f \in b2 \/ f \in b3 \/ f \in s2 \/ f = "TimingDataUrl"
                       \/ f = "Concurrency" \/ f \in TempestFiles \/ f \in TempestconfFiles)
      /\ f \in b2 => ~(\/ f \in b3 \/ f \in s2 \/ f = "TimingDataUrl"
                       \/ f = "Concurrency" \/ f \in TempestFiles \/ f \in TempestconfFiles)
      /\ f \in b3 => ~(\/ f \in s2 \/ f = "TimingDataUrl"
                       \/ f = "Concurrency" \/ f \in TempestFiles \/ f \in TempestconfFiles)
      /\ f \in s2 => ~(\/ f = "TimingDataUrl" \/ f = "Concurrency"
                       \/ f \in TempestFiles \/ f \in TempestconfFiles)
      /\ f \in {"TimingDataUrl", "Concurrency"} =>
           ~(f \in TempestFiles \/ f \in TempestconfFiles)
      /\ ~(f \in TempestFiles /\ f \in TempestconfFiles)
  BY DEF TempestBools, TempestStrings, TempestFiles, TempestconfFiles
<1> HIDE DEF b1, b2, b3, s2, vs
<1>7. f \in DOMAIN vs <=>
        \/ f \in TempestBools \/ f \in TempestStrings
        \/ /\ f \in TempestFiles \cup TempestconfFiles \/ f = "Concurrency"
           /\ Given(merged[f])
  <2>1. f \in TempestFiles \cup TempestconfFiles <=> f \in TempestFiles \/ f \in TempestconfFiles
    OBVIOUS
  <2> QED
    BY <1>1, <1>2, <1>4, <1>5, <1>6, <2>1, Zenon
<1>8. f \in TempestBools => vs[f] = FormatBool(merged[f])
  <2>1. CASE f \in b1
    BY <1>1, <1>5, <2>1
  <2>2. CASE f \in b2
    BY <1>1, <1>2, <1>5, <1>6, <2>2
  <2>3. CASE f \in b3
    BY <1>1, <1>2, <1>4, <1>5, <1>6, <2>3
  <2> QED
    BY <1>6, <2>1, <2>2, <2>3
<1>9. f \in TempestStrings => vs[f] = StringOrPlaceholder(merged[f], "")
  BY <1>1, <1>2, <1>4, <1>5, <1>6, <1>7 DEF Given
<1>10. f \in TempestFiles \cup TempestconfFiles /\ Given(merged[f]) => vs[f] = "path"
  BY <1>1, <1>2, <1>4, <1>5, <1>6, <1>7 DEF Given
<1>11. f = "Concurrency" /\ Given(merged[f]) => vs[f] = merged[f]
  BY <1>1, <1>5, <1>7 DEF Given
<1> QED
  BY <1>7, <1>8, <1>9, <1>10, <1>11 DEF HasOption, vs

LEMMA TempestDelivered ==
  ASSUME NEW merged \in [Fields("Tempest") -> SpecValues],
         NEW f \in Fields("Tempest"), f \notin Elsewise
  PROVE  Delivered("Tempest", merged, f)
<1> DEFINE e == Environment("Tempest", merged)
           files == TempestFiles \cup TempestconfFiles
           overwrite == IF Given(merged["ConfigOverwrite"])
                        THEN [o \in OverwrittenFiles |-> merged["ConfigOverwrite"]]
                        ELSE NoVariables
           given == SetGiven(merged, files)
<1>1. /\ e.vars = TempestEnvVars(merged)
      /\ e.files = overwrite ++ given
      /\ e.lists = Dictionaries(merged, TempestLists)
  BY DEF Environment, customData
<1>2. /\ merged[f] \in SpecValues /\ "ConfigOverwrite" \in Fields("Tempest")
      /\ merged["ConfigOverwrite"] \in SpecValues
  BY DEF Fields, StepFields, Step, WorkflowTempestSpec
<1>3. DOMAIN e.lists = TempestLists
  BY <1>1 DEF Dictionaries
<1>4. f \notin TobikoFiles \cup WordOptions
  BY DEF Fields, StepFields, SpecOnlyFields, Step, WorkflowTempestSpec, TempestSpec,
     CommonOptions, WorkflowCommonOptions, WorkflowTempestRunSpec, TempestRunSpec,
     WorkflowTempestconfRunSpec, TempestconfRunSpec, CommonOpenstackConfig,
     TobikoFiles, TobikoKeys, WordOptions
<1> HIDE DEF e, overwrite, given
<1>5. HasOption(merged, f, e.vars)
  BY <1>1, TempestVariables
<1> HIDE DEF files
<1>6. CASE f \in TempestLists
  <2>1. e.lists[f] = [a \in Attributes[f] |-> SetDictEnvVar(Entries(f, merged[f]), a)]
    BY <1>1, <1>6 DEF Dictionaries
  <2>2. ListReadsBack(f, merged[f])
    BY <1>2, <1>6, ListsReadBack
  <2> QED
    BY <1>3, <1>6, <2>1, <2>2 DEF Delivered, ListReadsBack, e
<1>7. CASE f = "ConfigOverwrite"
  <2>1. f \notin DOMAIN e.vars /\ f \notin TempestLists
    BY <1>5, <1>7 DEF HasOption, files, TempestBools, TempestStrings, TempestFiles,
       TempestconfFiles, TempestLists
  <2>2. /\ f \in DOMAIN e.files <=> Given(merged[f])
        /\ Given(merged[f]) => e.files[f] = merged[f]
    <3>1. f \notin DOMAIN given
      BY <1>7 DEF given, files, SetGiven, TempestFiles, TempestconfFiles
    <3>2. /\ f \in DOMAIN overwrite <=> Given(merged[f])
          /\ Given(merged[f]) => overwrite[f] = merged[f]
      BY <1>7 DEF overwrite, OverwrittenFiles, NoVariables
    <3> QED
      BY <1>1, <3>1, <3>2 DEF ++
  <2>3. Reads(e, f) = merged[f]
    BY <1>2, <1>4, <1>7, <2>1, <2>2 DEF Reads, WordOptions, Given, SpecValues
  <2> QED
    BY <1>3, <2>1, <2>3 DEF Delivered, e
<1>8. CASE f \in files /\ Given(merged[f])
  <2>1. f \in DOMAIN e.vars /\ e.vars[f] = "path" /\ f \notin TempestLists
    BY <1>5, <1>8 DEF HasOption, files, TempestLists, TempestFiles, TempestconfFiles
  <2>2. f \notin FileOptions
    BY <1>4, <1>8 DEF FileOptions, files, TempestFiles, TempestconfFiles
  <2>3. Reads(e, f) = e.files[f]
    BY <1>4, <2>1, <2>2 DEF Reads, FileOptions, WordOptions
  <2>4. f \in DOMAIN given /\ given[f] = merged[f]
    BY <1>8 DEF given, SetGiven
  <2>5. CASE f \in OverwrittenFiles /\ Given(merged["ConfigOverwrite"])
    <3>1. f \in DOMAIN overwrite /\ overwrite[f] = merged["ConfigOverwrite"]
      BY <2>5 DEF overwrite
    <3>2. e.files[f] = merged["ConfigOverwrite"]
      BY <1>1, <3>1 DEF ++
    <3> QED
      BY <1>8, <2>3, <2>5, <3>2 DEF Delivered, e
  <2>6. CASE ~(f \in OverwrittenFiles /\ Given(merged["ConfigOverwrite"]))
    <3>1. f \notin DOMAIN overwrite
      BY <2>6 DEF overwrite, NoVariables
    <3>2. e.files[f] = merged[f]
      BY <1>1, <2>4, <3>1 DEF ++
    <3> QED
      BY <1>3, <2>1, <2>3, <3>2 DEF Delivered, e
  <2> QED
    BY <2>5, <2>6
<1>9. CASE f \in files /\ ~Given(merged[f])
  <2>1. f \notin DOMAIN e.vars /\ f \notin TempestLists /\ f \notin FileOptions
    BY <1>4, <1>5, <1>9 DEF HasOption, files, TempestLists, TempestFiles,
       TempestconfFiles, TempestBools, TempestStrings, FileOptions
  <2>2. Reads(e, f) = "empty"
    BY <1>4, <2>1, ReadsUnset
  <2> QED
    BY <1>2, <1>3, <1>9, <2>1, <2>2 DEF Delivered, e, Given, SpecValues
<1>10. CASE f = "Concurrency"
  <2>1. f \notin FileOptions \cup WordOptions /\ f \notin TempestLists
    BY <1>10 DEF FileOptions, TobikoFiles, TobikoKeys, WordOptions, TempestLists
  <2>2. \/ Reads(e, f) = merged[f]
        \/ Reads(e, f) = "on" /\ Given(merged[f])
    <3>1. CASE Given(merged[f])
      <4>1. f \in DOMAIN e.vars /\ e.vars[f] = StringOrPlaceholder(merged[f], "")
        BY <1>5, <1>10, <3>1 DEF HasOption, StringOrPlaceholder
      <4>2. /\ e.vars[f] \in { FormatBool(merged[f]), StringOrPlaceholder(merged[f], ""),
                               IF Given(merged[f]) THEN "True" ELSE "" }
            /\ merged[f] \in SpecValues /\ f \notin FileOptions \cup WordOptions
        BY <1>2, <2>1, <4>1
      <4> QED
        BY <4>1, <4>2, ReadsVariable
    <3>2. CASE ~Given(merged[f])
      <4>1. f \notin DOMAIN e.vars
        BY <1>5, <1>10, <3>2 DEF HasOption, files, TempestFiles, TempestconfFiles,
           TempestBools, TempestStrings
      <4>2. Reads(e, f) = "empty"
        BY <2>1, <4>1, ReadsUnset
      <4> QED
        BY <1>2, <2>1, <3>2, <4>2 DEF Given, SpecValues
    <3> QED
      BY <3>1, <3>2
  <2> QED
    BY <1>3, <2>1, <2>2 DEF Delivered, e
<1>11. CASE f \notin TempestLists /\ f \notin files \cup {"Concurrency", "ConfigOverwrite"}
  <2>1. f \notin FileOptions \cup WordOptions
    BY <1>4, <1>11 DEF FileOptions
  <2>2. f \in TempestBools \cup TempestStrings
    BY <1>11 DEF Fields, StepFields, SpecOnlyFields, Step, WorkflowTempestSpec, TempestSpec,
       CommonOptions, WorkflowCommonOptions, WorkflowTempestRunSpec, TempestRunSpec,
       WorkflowTempestconfRunSpec, TempestconfRunSpec, CommonOpenstackConfig, files,
       TempestBools, TempestStrings, TempestLists, TempestFiles, TempestconfFiles,
       Elsewise, PodOptions, CopiedOptions, MountedOptions, ReferringFields,
       OtherOptions, UnusedOptions, FixedOptions
  <2>3. /\ f \in DOMAIN e.vars
        /\ e.vars[f] \in { FormatBool(merged[f]), StringOrPlaceholder(merged[f], ""),
                           IF Given(merged[f]) THEN "True" ELSE "" }
    BY <1>5, <2>2 DEF HasOption
  <2>4. \/ Reads(e, f) = merged[f]
        \/ Reads(e, f) = "on" /\ Given(merged[f])
    BY <1>2, <2>1, <2>3, ReadsVariable
  <2> QED
    BY <1>3, <1>11, <2>4 DEF Delivered, e
<1> QED
  BY <1>6, <1>7, <1>8, <1>9, <1>10, <1>11

-----------------------------------------------------------------------------
(* Only Tempest has a ConfigOverwrite, and no step deviates in it.         *)
LEMMA OverwrittenIsTempest ==
  ASSUME NEW kind \in Kinds, NEW f \in Fields(kind), f \in OverwrittenFiles
  PROVE  kind = "Tempest"
<1> USE DEF Fields, StepFields, SpecOnlyFields, Step, OverwrittenFiles, CommonOptions,
        WorkflowCommonOptions, CommonOpenstackConfig
<1>1. kind # "Tobiko"
  BY DEF TobikoWorkflowSpec, TobikoSpec
<1>2. kind # "HorizonTest"
  BY DEF NoStep, HorizonTestSpec
<1>3. kind # "AnsibleTest"
  BY DEF AnsibleTestWorkflowSpec, AnsibleTestSpec
<1> QED
  BY <1>1, <1>2, <1>3 DEF Kinds

LEMMA OverwriteNeverDeviates ==
  /\ "ConfigOverwrite" \in Fields("Tempest")
  /\ \A value : ~Deviates("Tempest", "ConfigOverwrite", value)
<1>1. "ConfigOverwrite" \in Fields("Tempest")
  BY DEF Fields, StepFields, Step, WorkflowTempestSpec
<1>2. \A value : ~Deviates("Tempest", "ConfigOverwrite", value)
  BY DEF Deviates, Step, WorkflowTempestSpec, DefaultedFields, CommonOpenstackConfig
<1> QED
  BY <1>1, <1>2

(* A key that a manifest gives for a step is one that the step has.        *)
LEMMA KeyOfStep ==
  ASSUME NEW i \in Instances, NEW g \in DOMAIN Manifests[i],
         NEW k \in Steps(SpecOf(i, g)), NEW f \in TobikoKeys, Kind[i] = "Tobiko",
         Given(Meant(i, SpecOf(i, g), k, f))
  PROVE  Given(StepSpec(Kind[i], SpecOf(i, g), k)[f])
<1> DEFINE spec == SpecOf(i, g)
<1>1. f \in Fields(Kind[i])
  BY DEF Fields, StepFields, Step, TobikoWorkflowSpec, TobikoKeys
<1>2. \A value : Deviates(Kind[i], f, value) => value = "empty"
  BY DEF Deviates, Step, TobikoWorkflowSpec, DefaultedFields, CommonOpenstackConfig,
     TobikoKeys
<1>3. ~( /\ k < Len(spec.workflow) /\ f \in StepFields(Kind[i])
         /\ Deviates(Kind[i], f, spec.workflow[k + 1][f]) )
  BY <1>2 DEF Meant, Given
<1>4. StepSpec(Kind[i], spec, k)[f] = Meant(i, spec, k, f)
  BY <1>1, <1>3, MergedIsMeant
<1> QED
  BY <1>4

(* Only Tobiko has keys.                                                   *)
LEMMA KeysAreTobiko ==
  ASSUME NEW kind \in Kinds, NEW f \in Fields(kind), f \in TobikoKeys
  PROVE  kind = "Tobiko"
<1> USE DEF Fields, StepFields, SpecOnlyFields, Step, TobikoKeys, CommonOptions,
        WorkflowCommonOptions, CommonOpenstackConfig
<1>1. kind # "Tempest"
  BY DEF WorkflowTempestSpec, TempestSpec, WorkflowTempestRunSpec, TempestRunSpec,
     WorkflowTempestconfRunSpec, TempestconfRunSpec
<1>2. kind # "HorizonTest"
  BY DEF NoStep, HorizonTestSpec
<1>3. kind # "AnsibleTest"
  BY DEF AnsibleTestWorkflowSpec, AnsibleTestSpec
<1> QED
  BY <1>1, <1>2, <1>3 DEF Kinds

(* Every option of a step that is for the test arrives.                    *)
LEMMA OptionArrives ==
  ASSUME NEW i \in Instances, NEW g \in DOMAIN Manifests[i],
         NEW k \in Steps(SpecOf(i, g)),
         NEW f \in Fields(Kind[i]) \ (PodOptions \cup OtherOptions)
  PROVE  Arrives(i, SpecOf(i, g), k, f)
<1> DEFINE spec == SpecOf(i, g)
           merged == StepSpec(Kind[i], spec, k)
           Known(h) == /\ k < Len(spec.workflow) /\ h \in StepFields(Kind[i])
                       /\ Deviates(Kind[i], h, spec.workflow[k + 1][h])
<1>1. CASE f \in UnusedOptions \/ Known(f) \/ LoneKey(i, spec, k, f)
  BY <1>1 DEF Arrives, Documented
<1>2. CASE f \notin UnusedOptions /\ ~Known(f) /\ ~LoneKey(i, spec, k, f)
  <2>1. Kind[i] \in Kinds
    BY KindAssumption
  <2>2. merged \in [Fields(Kind[i]) -> SpecValues]
    BY MergedSpec
  <2>3. merged[f] = Meant(i, spec, k, f)
    BY <1>2, MergedIsMeant
  <2>0. f \notin Elsewise
    BY <1>2 DEF Elsewise
  <2>4. f \in OverwrittenFiles =>
          merged["ConfigOverwrite"] = Meant(i, spec, k, "ConfigOverwrite")
    <3> SUFFICES ASSUME f \in OverwrittenFiles
                 PROVE  merged["ConfigOverwrite"] = Meant(i, spec, k, "ConfigOverwrite")
      OBVIOUS
    <3>1. Kind[i] = "Tempest"
      BY <2>1, OverwrittenIsTempest
    <3>2. "ConfigOverwrite" \in Fields(Kind[i]) /\ ~Known("ConfigOverwrite")
      BY <3>1, OverwriteNeverDeviates
    <3> QED
      BY <3>2, MergedIsMeant
  <2>5. f \in TobikoKeys /\ Given(merged[f]) => mountKeys(merged)
    <3> SUFFICES ASSUME f \in TobikoKeys, Given(merged[f]) PROVE mountKeys(merged)
      OBVIOUS
    <3>1. Kind[i] = "Tobiko"
      BY <2>1, KeysAreTobiko
    <3>2. \A h \in TobikoKeys : Given(Meant(i, spec, k, h))
      BY <1>2, <2>3 DEF LoneKey
    <3>3. \A h \in TobikoKeys : Given(merged[h])
      BY <3>1, <3>2, KeyOfStep
    <3> QED
      BY <3>3 DEF mountKeys, TobikoKeys
  <2> HIDE DEF merged, spec
  <2>6. Delivered(Kind[i], merged, f)
    <3>1. CASE Kind[i] = "Tempest"
      BY <2>0, <2>2, <3>1, TempestDelivered
    <3>2. CASE Kind[i] = "Tobiko"
      BY <2>0, <2>2, <2>5, <3>2, TobikoDelivered
    <3>3. CASE Kind[i] = "AnsibleTest"
      BY <2>0, <2>2, <3>3, AnsibleTestDelivered
    <3>4. CASE Kind[i] = "HorizonTest"
      BY <2>0, <2>2, <3>4, HorizonTestDelivered
    <3> QED
      BY <2>1, <3>1, <3>2, <3>3, <3>4 DEF Kinds
  <2> QED
    BY <2>3, <2>4, <2>6 DEF Delivered, Arrives, merged, spec
<1> QED
  BY <1>1, <1>2

(* Whatever the manifests, the updates and the interleaving of the passes: *)
(* when a pass builds its pod, every option for the test that the manifest *)
(* gives for the step, or else for the spec, is what the container will    *)
(* read, but for the deviations of MergeSections that are known            *)
(* (common.go:950; SetDictEnvVar, common.go:882; generateServiceConfigMaps *)
(* and the Prepare functions) and a key of Tobiko without the other        *)
(* (tobiko_controller.go:131).  NamesDiffer, as pods are found by the name *)
(* of the instance only.                                                   *)
THEOREM OptionsArrive == ASSUME NamesDiffer PROVE Spec => []ReadsWhatIsMeant
<1>1. ManifestInv => ReadsWhatIsMeant
  <2> SUFFICES ASSUME ManifestInv, NEW i \in Instances, pc[i] = "create"
               PROVE  AllArrive[i][mem[i].cr][mem[i].step]
    BY DEF ReadsWhatIsMeant
  <2>1. mem[i].cr \in DOMAIN Manifests[i] /\ mem[i].step \in Steps(SpecOf(i, mem[i].cr))
    BY DEF ManifestInv, PassesOfManifests, SpecInHand
  <2>2. \A f \in Fields(Kind[i]) \ (PodOptions \cup OtherOptions) :
           Arrives(i, SpecOf(i, mem[i].cr), mem[i].step, f)
    BY <2>1, OptionArrives
  <2> QED
    BY <2>1, <2>2 DEF AllArrive, SpecOf
<1> QED
  BY <1>1, ManifestInvHolds, PTL
=============================================================================
