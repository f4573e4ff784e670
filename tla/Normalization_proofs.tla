------------------------ MODULE Normalization_proofs ------------------------
(***************************************************************************)
(* Lemmas about Normalization, for texts of any length: what picking lines *)
(* keeps, what a person who reads a text finds in it, and what the hash    *)
(* does not see.                                                           *)
(***************************************************************************)
EXTENDS Normalization, FiniteSetTheorems, SequenceTheorems, TLAPS

-----------------------------------------------------------------------------
(* Picking lines.                                                          *)

Rank(kept, i) == Cardinality({j \in kept : j <= i})

LEMMA RankIsStrict ==
  ASSUME NEW N \in Nat, NEW kept \in SUBSET (1..N), NEW i \in kept, NEW k \in kept, i < k
  PROVE  Rank(kept, i) # Rank(kept, k)
  <1> DEFINE I == {j \in kept : j <= i}
             K == {j \in kept : j <= k}
  <1>0. \A j \in kept : j \in Int
    OBVIOUS
  <1>1. I \in SUBSET K /\ k \in K /\ k \notin I
    <2>1. \A j \in kept : j <= i => j <= k
      BY <1>0
    <2>2. k <= k /\ ~(k <= i)
      BY <1>0
    <2> QED
      BY <2>1, <2>2
  <1>2. IsFiniteSet(K)
    <2>1. IsFiniteSet(1..N)
      BY FS_Interval
    <2>2. K \in SUBSET (1..N)
      OBVIOUS
    <2> QED
      BY <2>1, <2>2, FS_Subset, Zenon
  <1>3. Cardinality(K) = Cardinality(I) => K = I
    BY <1>1, <1>2, FS_Subset
  <1> QED
    BY <1>1, <1>3 DEF Rank

\* The lines of `kept` are numbered from 1 on, without gaps.
LEMMA RanksNumber ==
  ASSUME NEW N \in Nat, NEW kept \in SUBSET (1..N)
  PROVE  /\ Cardinality(kept) \in Nat
         /\ \A i \in kept : Rank(kept, i) \in 1..Cardinality(kept)
         /\ \A n \in 1..Cardinality(kept) : \E i \in kept : Rank(kept, i) = n
         /\ \A i, k \in kept : Rank(kept, i) = Rank(kept, k) => i = k
  <1>1. IsFiniteSet(kept) /\ Cardinality(kept) \in Nat
    <2>1. IsFiniteSet(1..N)
      BY FS_Interval
    <2> QED
      BY <2>1, FS_Subset, FS_CardinalityType, Zenon
  <1>2. ASSUME NEW i \in kept PROVE Rank(kept, i) \in 1..Cardinality(kept)
    <2> DEFINE I == {j \in kept : j <= i}
    <2>1. i \in I /\ I \in SUBSET kept
      OBVIOUS
    <2>2. IsFiniteSet(I) /\ Cardinality(I) <= Cardinality(kept)
      BY <1>1, <2>1, FS_Subset
    <2>3. Cardinality(I) \in Nat
      BY <2>2, FS_CardinalityType
    <2>4. Cardinality(I) # 0
      BY <2>1, <2>2, FS_EmptySet
    <2> QED
      BY <1>1, <2>2, <2>3, <2>4 DEF Rank
  <1>3. ASSUME NEW i \in kept, NEW k \in kept, Rank(kept, i) = Rank(kept, k) PROVE i = k
    <2>1. i \in Int /\ k \in Int
      OBVIOUS
    <2>2. CASE i < k
      BY <1>3, <2>2, RankIsStrict
    <2>3. CASE k < i
      BY <1>3, <2>3, RankIsStrict
    <2> QED
      BY <2>1, <2>2, <2>3
  <1> DEFINE rank == [i \in kept |-> Rank(kept, i)]
             T == 1..Cardinality(kept)
  <1>4. rank \in Injection(kept, T)
    <2>1. rank \in [kept -> T]
      BY <1>2
    <2>2. \A i, k \in kept : rank[i] = rank[k] => i = k
      BY <1>3
    <2> HIDE DEF rank, T
    <2> QED
      BY <2>1, <2>2 DEF Injection, IsInjective
  <1>5. IsFiniteSet(T) /\ Cardinality(T) = Cardinality(kept)
    BY <1>1, FS_Interval
  <1>6. rank \in Surjection(kept, T)
    <2> HIDE DEF rank, T
    <2> QED
      BY <1>4, <1>5, FS_Injection
  <1>7. \A n \in T : \E i \in kept : rank[i] = n
    BY <1>6 DEF Surjection
  <1> QED
    BY <1>1, <1>2, <1>3, <1>7

\* Exactly the lines of `kept` are picked.
LEMMA PickProperties ==
  ASSUME NEW S, NEW lines \in Seq(S), NEW kept \in SUBSET DOMAIN lines
  PROVE  /\ Pick(lines, kept) \in Seq(S)
         /\ DOMAIN Pick(lines, kept) = 1..Cardinality(kept)
         /\ \A n \in DOMAIN Pick(lines, kept) : \E i \in kept : Pick(lines, kept)[n] = lines[i]
         /\ \A i \in kept : \E n \in DOMAIN Pick(lines, kept) : Pick(lines, kept)[n] = lines[i]
  <1> DEFINE N == Len(lines)
             At(n) == CHOOSE i \in kept : Rank(kept, i) = n
             C == Cardinality(kept)
             picked == [n \in 1..C |-> lines[At(n)]]
  <1>1. N \in Nat /\ DOMAIN lines = 1..N /\ lines \in [1..N -> S]
    BY LenProperties
  <1>2. /\ C \in Nat
        /\ \A i \in kept : Rank(kept, i) \in 1..C
        /\ \A n \in 1..C : \E i \in kept : Rank(kept, i) = n
        /\ \A i, k \in kept : Rank(kept, i) = Rank(kept, k) => i = k
    <2> HIDE DEF N
    <2> QED
      BY <1>1, RanksNumber
  <1>3. Pick(lines, kept) = picked
    BY Zenon DEF Pick, Rank
  <1>4. \A n \in 1..C : At(n) \in kept /\ Rank(kept, At(n)) = n
    BY <1>2
  <1>5. \A i \in kept : At(Rank(kept, i)) = i
    BY <1>2, <1>4
  <1> HIDE DEF N, At, C
  <1>6. picked \in [1..C -> S]
    BY <1>1, <1>4
  <1>7. picked \in Seq(S)
    BY <1>2, <1>6, SeqDef
  <1>8. \A n \in 1..C : \E i \in kept : picked[n] = lines[i]
    BY <1>4
  <1>9. \A i \in kept : \E n \in 1..C : picked[n] = lines[i]
    BY <1>2, <1>5
  <1>10. DOMAIN picked = 1..C
    OBVIOUS
  <1>11. DOMAIN Pick(lines, kept) = 1..Cardinality(kept)
    BY <1>3, <1>10 DEF C
  <1> HIDE DEF picked
  <1> QED
    BY <1>3, <1>7, <1>8, <1>9, <1>10, <1>11

-----------------------------------------------------------------------------
(* What a text says.                                                       *)

\* Lines of a text: what people write, and the labels.
TextLines ==
  [mark : Marks, word : Words \cup Addresses \cup {DisplayName, Invisible} \cup Labels,
   capital : BOOLEAN, hidden : BOOLEAN]

Says(lines) == Read(lines, Unmarked(lines))

LEMMA WhatIsSaid ==
  \A lines, x : x \in Says(lines) <=>
      /\ x \notin {Invisible} \cup Labels
      /\ \E n \in DOMAIN lines : lines[n].mark = "none" /\ lines[n].word = x
  BY DEF Says, Read, Unmarked

LEMMA LinesAreTextLines ==
  \A lines \in Seq(Lines) : lines \in Seq(TextLines)
  <1>1. Lines \subseteq TextLines
    BY DEF Lines, TextLines
  <1> QED
    BY <1>1, SeqMonotonic

LEMMA ConcatSays ==
  ASSUME NEW s \in Seq(TextLines), NEW t \in Seq(TextLines)
  PROVE  Says(s \o t) = Says(s) \cup Says(t)
  <1> DEFINE st == s \o t
  <1>1. /\ Len(s) \in Nat /\ DOMAIN s = 1..Len(s)
        /\ Len(t) \in Nat /\ DOMAIN t = 1..Len(t)
    BY LenProperties
  <1>2. /\ st \in Seq(TextLines) /\ Len(st) = Len(s) + Len(t)
        /\ \A i \in 1..Len(s) + Len(t) : st[i] = IF i <= Len(s) THEN s[i] ELSE t[i - Len(s)]
    BY ConcatProperties
  <1>3. DOMAIN st = 1..Len(s) + Len(t)
    BY <1>2, LenProperties
  <1> HIDE DEF st
  <1>4. ASSUME NEW n \in DOMAIN s PROVE n \in DOMAIN st /\ st[n] = s[n]
    BY <1>1, <1>2, <1>3
  <1>5. ASSUME NEW n \in DOMAIN t PROVE Len(s) + n \in DOMAIN st /\ st[Len(s) + n] = t[n]
    BY <1>1, <1>2, <1>3
  <1>6. ASSUME NEW n \in DOMAIN st
        PROVE (\E k \in DOMAIN s : st[n] = s[k]) \/ (\E k \in DOMAIN t : st[n] = t[k])
    <2>1. CASE n <= Len(s)
      BY <1>1, <1>2, <1>3, <2>1
    <2>2. CASE ~(n <= Len(s))
      <3>1. n - Len(s) \in DOMAIN t /\ st[n] = t[n - Len(s)]
        BY <1>1, <1>2, <1>3, <2>2
      <3> QED
        BY <3>1
    <2> QED
      BY <2>1, <2>2
  <1>7. \A x : x \in Says(st) <=> x \in Says(s) \/ x \in Says(t)
    BY <1>4, <1>5, <1>6, WhatIsSaid
  <1> QED
    BY <1>7 DEF st

LEMMA LabeledLines ==
  ASSUME NEW label \in Labels, NEW lines \in Seq(Lines)
  PROVE  /\ labeled(label, lines) \in Seq(TextLines)
         /\ Says(labeled(label, lines)) = Says(lines)
  <1>1. <<Plain(label)>> \in Seq(TextLines)
    <2>1. Plain(label) \in TextLines
      BY DEF Plain, TextLines, Marks
    <2> QED
      BY <2>1
  <1>2. Says(<<Plain(label)>>) = {}
    <2>1. \A n \in DOMAIN <<Plain(label)>> : <<Plain(label)>>[n].word = label
      BY DEF Plain
    <2> QED
      BY <2>1, WhatIsSaid
  <1>3. lines \in Seq(TextLines) /\ <<>> \in Seq(TextLines)
    BY LinesAreTextLines
  <1>4. <<Plain(label)>> \o lines \in Seq(TextLines)
    BY <1>1, <1>3, ConcatProperties
  <1>5. Says(<<Plain(label)>> \o lines) = Says(lines)
    <2>1. Says(<<Plain(label)>> \o lines) = Says(<<Plain(label)>>) \cup Says(lines)
      BY <1>1, <1>3, ConcatSays
    <2> QED
      BY <1>2, <2>1, Zenon
  <1> QED
    BY <1>3, <1>4, <1>5 DEF labeled

LEMMA CleanLines ==
  ASSUME NEW lines \in Seq(TextLines)
  PROVE  /\ clean(lines) \in Seq(TextLines)
         /\ Says(clean(lines)) = Says(lines)
  <1> DEFINE shown == {i \in DOMAIN lines : lines[i].word # Invisible \/ lines[i].mark # "none"}
             picked == Pick(lines, shown)
             text == [n \in DOMAIN picked |-> [picked[n] EXCEPT !.hidden = FALSE]]
             C == Cardinality(shown)
  <1>1. clean(lines) = text
    BY DEF clean
  <1>2. shown \in SUBSET DOMAIN lines
    OBVIOUS
  <1>3. /\ picked \in Seq(TextLines) /\ DOMAIN picked = 1..C
        /\ \A n \in DOMAIN picked : \E i \in shown : picked[n] = lines[i]
        /\ \A i \in shown : \E n \in DOMAIN picked : picked[n] = lines[i]
    <2> HIDE DEF shown
    <2> QED
      BY <1>2, PickProperties
  <1>4. C \in Nat
    <2>1. Len(lines) \in Nat /\ shown \in SUBSET (1..Len(lines))
      BY LenProperties
    <2> HIDE DEF shown
    <2> QED
      BY <2>1, RanksNumber
  <1>5. picked \in [DOMAIN picked -> TextLines]
    BY <1>3, LenProperties
  <1>6. \A i \in DOMAIN lines :
           i \in shown <=> lines[i].word # Invisible \/ lines[i].mark # "none"
    OBVIOUS
  <1> HIDE DEF shown, picked, C
  <1>7. ASSUME NEW n \in DOMAIN picked
        PROVE  /\ text[n] \in TextLines
               /\ text[n].mark = picked[n].mark /\ text[n].word = picked[n].word
    BY <1>5 DEF TextLines
  <1>8. text \in Seq(TextLines)
    BY <1>3, <1>4, <1>7, SeqDef
  <1>9. DOMAIN text = DOMAIN picked
    OBVIOUS
  <1> HIDE DEF text
  <1>10. ASSUME NEW x, x \notin {Invisible} \cup Labels
         PROVE  (\E n \in DOMAIN text : text[n].mark = "none" /\ text[n].word = x)
                <=> \E i \in DOMAIN lines : lines[i].mark = "none" /\ lines[i].word = x
    <2>1. ASSUME NEW n \in DOMAIN text, text[n].mark = "none", text[n].word = x
          PROVE  \E i \in DOMAIN lines : lines[i].mark = "none" /\ lines[i].word = x
      BY <1>2, <1>3, <1>7, <1>9, <2>1
    <2>2. ASSUME NEW i \in DOMAIN lines, lines[i].mark = "none", lines[i].word = x
          PROVE  \E n \in DOMAIN text : text[n].mark = "none" /\ text[n].word = x
      <3>1. i \in shown
        BY <1>6, <1>10, <2>2
      <3> QED
        BY <1>3, <1>7, <1>9, <2>2, <3>1
    <2> QED
      BY <2>1, <2>2
  <1>11. \A x : x \in Says(text) <=> x \in Says(lines)
    BY <1>10, WhatIsSaid
  <1> QED
    BY <1>1, <1>8, <1>11

LEMMA LowerSays ==
  ASSUME NEW lines \in Seq(TextLines)
  PROVE  Says(ToLower(lines)) = Says(lines)
  <1>1. DOMAIN ToLower(lines) = DOMAIN lines
    BY DEF ToLower
  <1>2. ASSUME NEW n \in DOMAIN lines
        PROVE  ToLower(lines)[n].mark = lines[n].mark /\ ToLower(lines)[n].word = lines[n].word
    <2>1. lines[n] \in TextLines
      BY LenProperties
    <2> QED
      BY <2>1 DEF ToLower, TextLines
  <1>3. \A x : x \in Says(ToLower(lines)) <=> x \in Says(lines)
    BY <1>1, <1>2, WhatIsSaid
  <1> QED
    BY <1>3

\* What is left of a mail is what is new in it, unless it was written below
\* the divider.
LEMMA NewestIsNew ==
  ASSUME NEW p, IsPayload(p), TopPosted(p), p.channel = "email"
  PROVE  \A i \in DOMAIN p.body :
            p.body[i].mark = "none" => (i \in Newest(p.body) <=> i \in New(p))
  <1> DEFINE body == p.body
             above == Before(body, DOMAIN body, "divider")
             unquoted == {i \in above : ~Matches(body[i], "quote")}
  <1>1. Len(body) \in Nat /\ DOMAIN body = 1..Len(body)
    BY LenProperties DEF IsPayload
  <1>2. ASSUME NEW i \in DOMAIN body
        PROVE  i \in above <=> \A j \in 1..i : ~Matches(body[j], "divider")
    BY <1>1 DEF Before
  <1>3. ASSUME NEW i \in DOMAIN body
        PROVE  i \in unquoted <=> i \in above /\ ~Matches(body[i], "quote")
    OBVIOUS
  <1>4. ASSUME NEW i \in DOMAIN body
        PROVE  i \in Newest(body) <=>
                  i \in unquoted /\ \A j \in unquoted : j <= i => ~Matches(body[j], "signature")
    BY DEF Newest, Before
  <1> HIDE DEF above, unquoted
  <1>5. ASSUME NEW i \in DOMAIN body, body[i].mark = "none"
        PROVE  i \in Newest(body) <=> i \in New(p)
    <2>1. i \in New(p) <=> \A j \in 1..i : ~Matches(body[j], "signature")
      BY <1>5 DEF New, Unmarked
    <2>2. ASSUME i \in New(p) PROVE i \in Newest(body)
      <3>1. i \in above
        BY <1>2, <2>2 DEF TopPosted
      <3>2. i \in unquoted
        BY <1>3, <1>5, <3>1 DEF Matches
      <3>3. \A j \in unquoted : j <= i => j \in 1..i
        BY <1>1 DEF unquoted, above, Before
      <3> QED
        BY <1>4, <2>1, <2>2, <3>2, <3>3
    <2>3. ASSUME i \in Newest(body) PROVE i \in New(p)
      <3>1. i \in unquoted /\ i \in above
        BY <1>3, <1>4, <2>3
      <3>2. ASSUME NEW j \in 1..i PROVE ~Matches(body[j], "signature")
        <4>1. j \in DOMAIN body /\ j <= i /\ 1..j \subseteq 1..i
          BY <1>1
        <4>2. j \in above
          BY <1>2, <3>1, <4>1
        <4>3. CASE j \in unquoted
          BY <1>4, <2>3, <4>1, <4>3
        <4>4. CASE j \notin unquoted
          BY <1>3, <4>1, <4>2, <4>4 DEF Matches
        <4> QED
          BY <4>3, <4>4
      <3> QED
        BY <2>1, <3>2
    <2> QED
      BY <2>2, <2>3
  <1> QED
    BY <1>5

LEMMA BodySays ==
  ASSUME NEW p, IsPayload(p), TopPosted(p)
  PROVE  Body(p) \in Seq(TextLines) /\ Says(Body(p)) = Read(p.body, New(p))
  <1> DEFINE body == p.body
  <1>1. body \in Seq(TextLines)
    BY LinesAreTextLines DEF IsPayload
  <1>2. CASE p.channel # "email"
    <2>1. New(p) = Unmarked(p.body)
      BY <1>2 DEF New
    <2> QED
      BY <1>1, <1>2, <2>1 DEF Body, Says
  <1>3. CASE p.channel = "email"
    <2> DEFINE kept == Newest(body)
               picked == Pick(body, kept)
    <2>1. kept \in SUBSET DOMAIN body
      BY DEF Newest, Before
    <2>2. Body(p) = picked
      BY <1>3 DEF Body, trimQuotedReply
    <2>3. /\ picked \in Seq(TextLines)
          /\ \A n \in DOMAIN picked : \E i \in kept : picked[n] = body[i]
          /\ \A i \in kept : \E n \in DOMAIN picked : picked[n] = body[i]
      <3> HIDE DEF kept
      <3> QED
        BY <1>1, <2>1, PickProperties
    <2>4. \A i \in DOMAIN body : body[i].mark = "none" => (i \in kept <=> i \in New(p))
      BY <1>3, NewestIsNew
    <2>5. \A i \in New(p) : i \in DOMAIN body /\ body[i].mark = "none"
      BY DEF New, Unmarked
    <2>6. \A x : x \in Read(body, New(p)) <=>
              /\ x \notin {Invisible} \cup Labels
              /\ \E i \in New(p) : body[i].word = x
      BY DEF Read
    <2> HIDE DEF kept, picked, body
    <2>7. \A x : x \in Says(picked) <=> x \in Read(body, New(p))
      BY <2>1, <2>3, <2>4, <2>5, <2>6, WhatIsSaid
    <2>8. Says(picked) = Read(body, New(p))
      BY <2>7
    <2> QED
      BY <2>2, <2>3, <2>8 DEF body
  <1> QED
    BY <1>2, <1>3

LEMMA EmailLines ==
  ASSUME NEW p, IsPayload(p)
  PROVE  Email(p) \in Seq(Lines)
  <1> DEFINE address == [Plain(p.from.address) EXCEPT !.capital = p.from.capital, !.hidden = p.from.hidden]
             before == IF p.from.named THEN <<Plain(DisplayName)>> ELSE <<>>
  <1>1. CASE p.channel # "web_form" \/ p.from.address = Missing
    BY <1>1 DEF Email
  <1>2. CASE ~(p.channel # "web_form" \/ p.from.address = Missing)
    <2>1. p.from.address \in Addresses /\ p.from.capital \in BOOLEAN /\ p.from.hidden \in BOOLEAN
      BY <1>2 DEF IsPayload
    <2>2. address \in Lines
      BY <2>1 DEF Plain, Lines, Marks
    <2>3. before \in Seq(Lines)
      <3>1. Plain(DisplayName) \in Lines
        BY DEF Plain, Lines, Marks
      <3>2. <<Plain(DisplayName)>> \in Seq(Lines) /\ <<>> \in Seq(Lines)
        BY <3>1
      <3> QED
        BY <3>2
    <2>4. Email(p) = before \o <<address>>
      BY <1>2 DEF Email
    <2> HIDE DEF address, before
    <2>5. <<address>> \in Seq(Lines)
      BY <2>2
    <2> QED
      BY <2>3, <2>4, <2>5, ConcatProperties
  <1> QED
    BY <1>1, <1>2

LEMMA RawLines ==
  ASSUME NEW p, IsPayload(p), TopPosted(p)
  PROVE  Raw(p) \in Seq(TextLines) /\ Says(Raw(p)) = Said(p)
  <1> DEFINE s == labeled("Subject:", p.subject)
             n == labeled("Name:", p.name)
             m == labeled("Email:", Email(p))
             b == Body(p)
  <1>1. s \in Seq(TextLines) /\ Says(s) = Read(p.subject, Unmarked(p.subject))
    BY LabeledLines DEF IsPayload, Labels, Says
  <1>2. n \in Seq(TextLines) /\ Says(n) = Read(p.name, Unmarked(p.name))
    BY LabeledLines DEF IsPayload, Labels, Says
  <1>3. b \in Seq(TextLines) /\ Says(b) = Read(p.body, New(p))
    BY BodySays
  <1>e. m \in Seq(TextLines) /\ Says(m) = Read(Email(p), Unmarked(Email(p)))
    BY EmailLines, LabeledLines DEF Labels, Says
  <1>4. Raw(p) = ((s \o n) \o m) \o b
    BY DEF Raw
  <1> HIDE DEF s, n, m, b
  <1>5. s \o n \in Seq(TextLines) /\ Says(s \o n) = Says(s) \cup Says(n)
    BY <1>1, <1>2, ConcatProperties, ConcatSays
  <1>6. (s \o n) \o m \in Seq(TextLines) /\ Says((s \o n) \o m) = Says(s \o n) \cup Says(m)
    BY <1>e, <1>5, ConcatProperties, ConcatSays
  <1>7. ((s \o n) \o m) \o b \in Seq(TextLines)
    BY <1>3, <1>6, ConcatProperties
  <1>8. Says(((s \o n) \o m) \o b) = Says((s \o n) \o m) \cup Says(b)
    BY <1>3, <1>6, ConcatSays
  <1>9. Said(p) = ((Says(s) \cup Says(n)) \cup Says(m)) \cup Says(b)
    BY <1>1, <1>2, <1>3, <1>e DEF Said
  <1> QED
    BY <1>4, <1>5, <1>6, <1>7, <1>8, <1>9

(***************************************************************************)
(* Normalize loses no word of what a sender says and adds none: a reader   *)
(* of the text that is stored finds the words of the subject, the form and *)
(* the new part of the body, and no others, however long they are - unless *)
(* the new part stands below the divider.                                  *)
(***************************************************************************)
THEOREM NothingSaidIsLost ==
  ASSUME NEW p, IsPayload(p), TopPosted(p)
  PROVE  Text(p) \in Seq(TextLines) /\ Says(Text(p)) = Said(p)
  BY RawLines, CleanLines DEF Text

\* So texts that are equal in lower case say the same.
LEMMA EqualHashesSayTheSame ==
  ASSUME NEW p, IsPayload(p), TopPosted(p), NEW q, IsPayload(q), TopPosted(q),
         DedupeHash(normalizeSender(p.from), Text(p)) = DedupeHash(normalizeSender(q.from), Text(q))
  PROVE  p.from.address = q.from.address /\ Said(p) = Said(q)
  <1>1. ToLower(Text(p)) = ToLower(Text(q)) /\ p.from.address = q.from.address
    BY DEF DedupeHash, normalizeSender
  <1>2. Says(ToLower(Text(p))) = Said(p) /\ Says(ToLower(Text(q))) = Said(q)
    BY NothingSaidIsLost, LowerSays
  <1> QED
    BY <1>1, <1>2

-----------------------------------------------------------------------------
(* What the hash does not see.                                             *)

LEMMA ConcatNoise ==
  ASSUME NEW s \in Seq(TextLines), NEW t \in Seq(TextLines), NoiseApart(s, t),
         NEW u \in Seq(TextLines), NEW v \in Seq(TextLines), NoiseApart(u, v)
  PROVE  NoiseApart(s \o u, t \o v)
  <1>1. /\ Len(s) \in Nat /\ DOMAIN s = 1..Len(s) /\ Len(t) \in Nat /\ DOMAIN t = 1..Len(t)
        /\ Len(u) \in Nat /\ DOMAIN u = 1..Len(u) /\ Len(v) \in Nat /\ DOMAIN v = 1..Len(v)
    BY LenProperties
  <1>2. Len(s) = Len(t) /\ Len(u) = Len(v)
    <2>1. \A a, b \in Nat : 1..a = 1..b => a = b
      <3>1. \A n \in Nat : Cardinality(1..n) = n
        BY FS_Interval
      <3> QED
        BY <3>1, Zenon
    <2> QED
      BY <1>1, <2>1 DEF NoiseApart
  <1> DEFINE su == s \o u
             tv == t \o v
             N == Len(s) + Len(u)
  <1>3. /\ su \in Seq(TextLines) /\ Len(su) = N
        /\ \A i \in 1..N : su[i] = IF i <= Len(s) THEN s[i] ELSE u[i - Len(s)]
    BY ConcatProperties
  <1>4. /\ tv \in Seq(TextLines) /\ Len(tv) = N
        /\ \A i \in 1..N : tv[i] = IF i <= Len(s) THEN t[i] ELSE v[i - Len(s)]
    BY <1>2, ConcatProperties
  <1>5. DOMAIN su = 1..N /\ DOMAIN tv = 1..N
    BY <1>3, <1>4, LenProperties
  <1> HIDE DEF su, tv
  <1>6. ASSUME NEW i \in 1..N
        PROVE  /\ su[i].mark = tv[i].mark /\ su[i].word = tv[i].word
               /\ su[i].mark # "none" => su[i].hidden = tv[i].hidden
    <2>1. CASE i <= Len(s)
      <3>1. su[i] = s[i] /\ tv[i] = t[i] /\ i \in DOMAIN s
        BY <1>1, <1>3, <1>4, <2>1
      <3> QED
        BY <3>1 DEF NoiseApart
    <2>2. CASE ~(i <= Len(s))
      <3>1. su[i] = u[i - Len(s)] /\ tv[i] = v[i - Len(s)] /\ i - Len(s) \in DOMAIN u
        BY <1>1, <1>3, <1>4, <2>2
      <3> QED
        BY <3>1 DEF NoiseApart
    <2> QED
      BY <2>1, <2>2
  <1>7. NoiseApart(su, tv)
    BY <1>5, <1>6 DEF NoiseApart
  <1> QED
    BY <1>7 DEF su, tv

LEMMA LabeledNoise ==
  ASSUME NEW label \in Labels, NEW s \in Seq(Lines), NEW t \in Seq(Lines), NoiseApart(s, t)
  PROVE  NoiseApart(labeled(label, s), labeled(label, t))
  <1>1. s = <<>> <=> t = <<>>
    BY LenProperties DEF NoiseApart
  <1>2. CASE s = <<>>
    BY <1>1, <1>2 DEF labeled, NoiseApart
  <1>3. CASE s # <<>>
    <2>1. <<Plain(label)>> \in Seq(TextLines)
      BY DEF Plain, TextLines, Marks
    <2>2. NoiseApart(<<Plain(label)>>, <<Plain(label)>>)
      BY DEF NoiseApart
    <2>3. NoiseApart(<<Plain(label)>> \o s, <<Plain(label)>> \o t)
      BY <2>1, <2>2, LinesAreTextLines, ConcatNoise
    <2> QED
      BY <1>1, <1>3, <2>3 DEF labeled
  <1> QED
    BY <1>2, <1>3

\* The patterns find the same lines, so the same are kept.
LEMMA NewestNoise ==
  ASSUME NEW s, NEW t, NoiseApart(s, t)
  PROVE  Newest(s) = Newest(t)
  <1>1. \A i \in DOMAIN s : \A mark \in {"quote", "divider", "signature"} :
            Matches(s[i], mark) <=> Matches(t[i], mark)
    BY DEF NoiseApart, Matches
  <1>2. Before(s, DOMAIN s, "divider") = Before(t, DOMAIN t, "divider")
    BY <1>1 DEF Before, NoiseApart
  <1> DEFINE above == Before(s, DOMAIN s, "divider")
  <1>3. above \subseteq DOMAIN s
    BY DEF Before
  <1> HIDE DEF above
  <1>4. {i \in above : ~Matches(s[i], "quote")} = {i \in above : ~Matches(t[i], "quote")}
    BY <1>1, <1>3
  <1> DEFINE unquoted == {i \in above : ~Matches(s[i], "quote")}
  <1>5. unquoted \subseteq DOMAIN s
    BY <1>3
  <1>6. Newest(s) = Before(s, unquoted, "signature")
    BY DEF Newest, above
  <1>7. Newest(t) = Before(t, unquoted, "signature")
    BY <1>2, <1>4 DEF Newest, above
  <1> HIDE DEF unquoted
  <1>8. Before(s, unquoted, "signature") = Before(t, unquoted, "signature")
    BY <1>1, <1>5 DEF Before
  <1> QED
    BY <1>6, <1>7, <1>8

LEMMA PickNoise ==
  ASSUME NEW s \in Seq(TextLines), NEW t \in Seq(TextLines), NoiseApart(s, t),
         NEW kept \in SUBSET DOMAIN s
  PROVE  NoiseApart(Pick(s, kept), Pick(t, kept))
  <1> DEFINE At(n) == CHOOSE i \in kept : Cardinality({j \in kept : j <= i}) = n
             C == Cardinality(kept)
  <1>1. Pick(s, kept) = [n \in 1..C |-> s[At(n)]] /\ Pick(t, kept) = [n \in 1..C |-> t[At(n)]]
    BY DEF Pick
  <1>2. \A n \in 1..C : At(n) \in kept
    <2>1. Len(s) \in Nat /\ kept \in SUBSET (1..Len(s))
      BY LenProperties
    <2>2. \A n \in 1..C : \E i \in kept : Rank(kept, i) = n
      BY <2>1, RanksNumber
    <2> QED
      BY <2>2 DEF Rank
  <1> HIDE DEF At, C
  <1> QED
    BY <1>1, <1>2 DEF NoiseApart

LEMMA BodyNoise ==
  ASSUME NEW p, IsPayload(p), NEW q, IsPayload(q), SameButForNoise(p, q)
  PROVE  /\ Body(p) \in Seq(TextLines) /\ Body(q) \in Seq(TextLines)
         /\ NoiseApart(Body(p), Body(q))
  <1>1. /\ p.body \in Seq(TextLines) /\ q.body \in Seq(TextLines)
        /\ p.channel = q.channel /\ NoiseApart(p.body, q.body)
    BY LinesAreTextLines DEF IsPayload, SameButForNoise
  <1>2. CASE p.channel # "email"
    BY <1>1, <1>2 DEF Body
  <1>3. CASE p.channel = "email"
    <2> DEFINE kept == Newest(p.body)
    <2>1. kept = Newest(q.body)
      BY <1>1, NewestNoise
    <2>2. kept \in SUBSET DOMAIN p.body /\ kept \in SUBSET DOMAIN q.body
      BY <1>1 DEF Newest, Before, NoiseApart
    <2>3. Body(p) = Pick(p.body, kept) /\ Body(q) = Pick(q.body, kept)
      BY <1>1, <1>3, <2>1 DEF Body, trimQuotedReply
    <2> HIDE DEF kept
    <2>4. Pick(p.body, kept) \in Seq(TextLines) /\ Pick(q.body, kept) \in Seq(TextLines)
      BY <1>1, <2>2, PickProperties
    <2>5. NoiseApart(Pick(p.body, kept), Pick(q.body, kept))
      BY <1>1, <2>2, PickNoise
    <2> QED
      BY <2>3, <2>4, <2>5
  <1> QED
    BY <1>2, <1>3

\* An address in a form is part of the text as it was typed.
LEMMA EmailNoise ==
  ASSUME NEW p, IsPayload(p), NEW q, IsPayload(q), SameButForNoise(p, q)
  PROVE  NoiseApart(Email(p), Email(q))
  <1> DEFINE address(x) == [Plain(x.from.address) EXCEPT !.capital = x.from.capital, !.hidden = x.from.hidden]
             before(x) == IF x.from.named THEN <<Plain(DisplayName)>> ELSE <<>>
  <1>1. p.channel = q.channel /\ p.from.address = q.from.address
    BY DEF SameButForNoise
  <1>2. CASE p.channel # "web_form" \/ p.from.address = Missing
    BY <1>1, <1>2 DEF Email, NoiseApart
  <1>3. CASE ~(p.channel # "web_form" \/ p.from.address = Missing)
    <2>1. Email(p) = before(p) \o <<address(p)>> /\ Email(q) = before(q) \o <<address(q)>>
      BY <1>1, <1>3 DEF Email
    <2>2. before(p) = before(q)
      BY <1>3 DEF SameButForNoise
    <2>3. \A x : IsPayload(x) /\ x.from.address # Missing => address(x) \in TextLines
      BY DEF IsPayload, Plain, TextLines, Marks
    <2>b. before(p) \in Seq(TextLines)
      <3>1. Plain(DisplayName) \in TextLines
        BY DEF Plain, TextLines, Marks
      <3>2. <<Plain(DisplayName)>> \in Seq(TextLines) /\ <<>> \in Seq(TextLines)
        BY <3>1
      <3> QED
        BY <3>2
    <2>4. \A x : address(x).mark = "none" /\ address(x).word = x.from.address
      BY DEF Plain
    <2> HIDE DEF address, before
    <2>5. <<address(p)>> \in Seq(TextLines) /\ <<address(q)>> \in Seq(TextLines)
      BY <1>1, <1>3, <2>3
    <2>6. NoiseApart(<<address(p)>>, <<address(q)>>)
      BY <1>1, <2>4 DEF NoiseApart
    <2>7. NoiseApart(before(p), before(p))
      BY DEF NoiseApart
    <2> QED
      BY <2>1, <2>2, <2>5, <2>6, <2>7, <2>b, ConcatNoise
  <1> QED
    BY <1>2, <1>3

LEMMA RawNoise ==
  ASSUME NEW p, IsPayload(p), NEW q, IsPayload(q), SameButForNoise(p, q)
  PROVE  /\ Raw(p) \in Seq(TextLines) /\ Raw(q) \in Seq(TextLines)
         /\ NoiseApart(Raw(p), Raw(q))
  <1> DEFINE ps == labeled("Subject:", p.subject)
             qs == labeled("Subject:", q.subject)
             pn == labeled("Name:", p.name)
             qn == labeled("Name:", q.name)
             pm == labeled("Email:", Email(p))
             qm == labeled("Email:", Email(q))
  <1>1. /\ ps \in Seq(TextLines) /\ qs \in Seq(TextLines)
        /\ pn \in Seq(TextLines) /\ qn \in Seq(TextLines)
    BY LabeledLines DEF IsPayload, Labels
  <1>2. NoiseApart(ps, qs) /\ NoiseApart(pn, qn)
    BY LabeledNoise DEF IsPayload, Labels, SameButForNoise
  <1>e. pm \in Seq(TextLines) /\ qm \in Seq(TextLines) /\ NoiseApart(pm, qm)
    BY EmailLines, EmailNoise, LabeledLines, LabeledNoise DEF Labels
  <1> HIDE DEF ps, qs, pn, qn, pm, qm
  <1>3. ps \o pn \in Seq(TextLines) /\ qs \o qn \in Seq(TextLines)
    BY <1>1, ConcatProperties
  <1>4. NoiseApart(ps \o pn, qs \o qn)
    BY <1>1, <1>2, ConcatNoise
  <1>5. (ps \o pn) \o pm \in Seq(TextLines) /\ (qs \o qn) \o qm \in Seq(TextLines)
    BY <1>3, <1>e, ConcatProperties
  <1>6. NoiseApart((ps \o pn) \o pm, (qs \o qn) \o qm)
    BY <1>3, <1>4, <1>e, ConcatNoise
  <1>7. /\ ((ps \o pn) \o pm) \o Body(p) \in Seq(TextLines)
        /\ ((qs \o qn) \o qm) \o Body(q) \in Seq(TextLines)
    BY <1>5, BodyNoise, ConcatProperties
  <1>8. NoiseApart(((ps \o pn) \o pm) \o Body(p), ((qs \o qn) \o qm) \o Body(q))
    BY <1>5, <1>6, BodyNoise, ConcatNoise
  <1> QED
    BY <1>7, <1>8 DEF Raw, ps, qs, pn, qn, pm, qm

LEMMA CleanNoise ==
  ASSUME NEW s \in Seq(TextLines), NEW t \in Seq(TextLines), NoiseApart(s, t)
  PROVE  ToLower(clean(s)) = ToLower(clean(t))
  <1> DEFINE shown == {i \in DOMAIN s : s[i].word # Invisible \/ s[i].mark # "none"}
             sp == Pick(s, shown)
             tp == Pick(t, shown)
  <1>1. shown = {i \in DOMAIN t : t[i].word # Invisible \/ t[i].mark # "none"}
    BY DEF NoiseApart
  <1>2. shown \in SUBSET DOMAIN s /\ shown \in SUBSET DOMAIN t
    BY DEF NoiseApart
  <1>3. clean(s) = [n \in DOMAIN sp |-> [sp[n] EXCEPT !.hidden = FALSE]]
    BY DEF clean
  <1>4. clean(t) = [n \in DOMAIN tp |-> [tp[n] EXCEPT !.hidden = FALSE]]
    BY <1>1 DEF clean
  <1> HIDE DEF shown
  <1>5. sp \in Seq(TextLines) /\ tp \in Seq(TextLines)
    BY <1>2, PickProperties
  <1>6. NoiseApart(sp, tp)
    BY <1>2, PickNoise
  <1> HIDE DEF sp, tp
  <1>7. DOMAIN clean(s) = DOMAIN sp /\ DOMAIN clean(t) = DOMAIN sp
    BY <1>3, <1>4, <1>6 DEF NoiseApart
  <1>8. ASSUME NEW n \in DOMAIN sp
        PROVE  [clean(s)[n] EXCEPT !.capital = FALSE] = [clean(t)[n] EXCEPT !.capital = FALSE]
    <2>1. sp[n] \in TextLines /\ tp[n] \in TextLines
      BY <1>5, <1>6, LenProperties DEF NoiseApart
    <2>2. sp[n].mark = tp[n].mark /\ sp[n].word = tp[n].word
      BY <1>6 DEF NoiseApart
    <2>3. clean(s)[n] = [sp[n] EXCEPT !.hidden = FALSE] /\ clean(t)[n] = [tp[n] EXCEPT !.hidden = FALSE]
      BY <1>3, <1>4, <1>6 DEF NoiseApart
    <2> QED
      BY <2>1, <2>2, <2>3 DEF TextLines
  <1> QED
    BY <1>7, <1>8 DEF ToLower

(***************************************************************************)
(* No noise changes a hash: payloads that differ in case, in runes that    *)
(* pad a word but precede no mark and, but for the web form, in the        *)
(* sender's display name have one idempotency key, if neither brings its   *)
(* own.                                                                    *)
(***************************************************************************)
THEOREM NoiseIsNotHashed ==
  ASSUME NEW p, IsPayload(p), NEW q, IsPayload(q), SameButForNoise(p, q),
         p.key = Missing, q.key = Missing
  PROVE  IdempotencyKey(p) = IdempotencyKey(q)
  <1>1. ToLower(Text(p)) = ToLower(Text(q))
    BY RawNoise, CleanNoise DEF Text
  <1>2. normalizeSender(p.from) = normalizeSender(q.from)
    BY DEF normalizeSender, SameButForNoise
  <1> QED
    BY <1>1, <1>2 DEF IdempotencyKey, DedupeHash
=============================================================================
