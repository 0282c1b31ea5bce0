------------------------ MODULE AdsTxtParser_proofs -------------------------
(***************************************************************************)
(* Proofs about the ads.txt parser: what Parse and CountAdvertisers        *)
(* return for every content, of every length, over every set of names.     *)
(* Both are recursive functions over the positions 0..n of a sequence.     *)
(* Their values are reached without an induction theorem over an          *)
(* operator: a least counterexample among the positions 0..n cannot        *)
(* exist (well-foundedness of < on Nat), and a recursive function is the   *)
(* one table that satisfies its defining equation.                         *)
(***************************************************************************)
EXTENDS AdsTxtParser, SequenceTheorems, FiniteSetTheorems,
        WellFoundedInduction, TLAPS

(* Every non-empty set of naturals has a least element.                    *)
LEMMA LeastPos ==
  ASSUME NEW T \in SUBSET Nat, T # {}
  PROVE  \E m \in T : \A y \in T : m <= y
<1>1. PICK x \in T : \A y \in T : ~(<<y, x>> \in OpToRel(<, Nat))
  BY NatLessThanWellFounded, WFMin
<1>2. \A y \in T : (y < x) => <<y, x>> \in OpToRel(<, Nat)
  BY DEF OpToRel
<1>3. \A y \in T : ~(y < x)
  BY <1>1, <1>2, Zenon
<1> QED
  BY <1>3

-----------------------------------------------------------------------------
(* Parse's accumulator.                                                    *)

\* What line k adds to the entries: parseLine's result for a record.
Piece(c, k) == IF c[k].kind = "record" THEN parseLine(c[k]) ELSE << >>

\* The accumulator grows by concatenation.
Cat(a, b) == a \o b

\* g is the table of Parse's accumulator over the first n lines of c.
IsAcc(g, c, n) ==
  g = [k \in 0..n |-> IF k = 0 THEN << >> ELSE Cat(g[k - 1], Piece(c, k))]

\* Two tables of the accumulator are equal.
LEMMA AccUnique ==
  ASSUME NEW c, NEW n \in Nat, NEW g, NEW h, IsAcc(g, c, n), IsAcc(h, c, n)
  PROVE  g = h
<1>1. /\ DOMAIN g = 0..n /\ g[0] = << >>
      /\ \A k \in 1..n : g[k] = Cat(g[k - 1], Piece(c, k))
      /\ DOMAIN h = 0..n /\ h[0] = << >>
      /\ \A k \in 1..n : h[k] = Cat(h[k - 1], Piece(c, k))
  BY DEF IsAcc
<1> DEFINE T == {k \in 0..n : g[k] # h[k]}
<1>2. T = {}
  <2> SUFFICES ASSUME T # {} PROVE FALSE
    OBVIOUS
  <2>0. T \in SUBSET Nat
    OBVIOUS
  <2>1. PICK m \in T : \A y \in T : m <= y
    BY <2>0, LeastPos
  <2>2. m # 0
    BY <1>1, <2>1
  <2>3. m \in 1..n /\ m - 1 \in 0..n /\ m - 1 \notin T
    BY <2>0, <2>1, <2>2
  <2>4. g[m] = Cat(g[m - 1], Piece(c, m)) /\ h[m] = Cat(h[m - 1], Piece(c, m))
        /\ g[m - 1] = h[m - 1]
    BY <1>1, <2>3
  <2> QED
    BY <2>1, <2>4, Zenon
<1>3. \A k \in 0..n : g[k] = h[k]
  BY <1>2
<1>4. g = [k \in 0..n |-> g[k]] /\ h = [k \in 0..n |-> h[k]]
  BY DEF IsAcc
<1> QED
  BY <1>3, <1>4

\* A table of the accumulator exists for every number of lines.
LEMMA AccExists ==
  ASSUME NEW c, NEW n \in Nat
  PROVE  \E g : IsAcc(g, c, n)
<1> DEFINE T == {m \in 0..n : ~\E g : IsAcc(g, c, m)}
<1>1. T = {}
  <2> SUFFICES ASSUME T # {} PROVE FALSE
    OBVIOUS
  <2>0. T \in SUBSET Nat
    OBVIOUS
  <2>1. PICK m \in T : \A y \in T : m <= y
    BY <2>0, LeastPos
  <2>2. CASE m = 0
    <3>1. IsAcc([k \in 0..0 |-> << >>], c, 0)
      BY DEF IsAcc
    <3> QED
      BY <2>1, <2>2, <3>1
  <2>3. CASE m # 0
    <3>1. m - 1 \in Nat /\ m - 1 \notin T /\ m \in Nat
      BY <2>1, <2>3
    <3>2. PICK g : IsAcc(g, c, m - 1)
      BY <2>1, <3>1
    <3> DEFINE g1 == [k \in 0..m |-> IF k < m THEN g[k]
                                     ELSE Cat(g[m - 1], Piece(c, m))]
    <3>3. /\ DOMAIN g = 0..m - 1 /\ g[0] = << >>
          /\ \A k \in 1..m - 1 : g[k] = Cat(g[k - 1], Piece(c, k))
      <4>1. DOMAIN g = 0..m - 1
        BY <3>2 DEF IsAcc
      <4>2. g[0] = << >>
        BY <3>1, <3>2 DEF IsAcc
      <4>3. \A k \in 1..m - 1 : g[k] = Cat(g[k - 1], Piece(c, k))
        BY <3>1, <3>2 DEF IsAcc
      <4> QED
        BY <4>1, <4>2, <4>3
    <3>4. \A k \in 0..m : g1[k] = IF k = 0 THEN << >>
                                  ELSE Cat(g1[k - 1], Piece(c, k))
      BY <3>1, <3>3
    <3>5. IsAcc(g1, c, m)
      BY <3>4 DEF IsAcc
    <3> QED
      BY <2>1, <3>5
  <2> QED
    BY <2>2, <2>3
<1> QED
  BY <1>1

\* Parse returns the last entry of the table, or the error.
LEMMA ParseAcc ==
  ASSUME NEW c, Len(c) \in Nat, NEW g, IsAcc(g, c, Len(c))
  PROVE  Parse(c) = IF c = << >> \/ g[Len(c)] = << >> THEN ParseError
                    ELSE [entries |-> g[Len(c)], err |-> FALSE]
<1>1. \A h : (h = [k \in 0..Len(c) |->
                    IF k = 0 THEN << >>
                    ELSE h[k - 1] \o (IF c[k].kind = "record"
                                      THEN parseLine(c[k]) ELSE << >>)])
             <=> IsAcc(h, c, Len(c))
  BY DEF IsAcc, Piece, Cat
<1>2. \A h : IsAcc(h, c, Len(c)) => h = g
  BY AccUnique
<1> QED
  BY <1>1, <1>2 DEF Parse

-----------------------------------------------------------------------------
(* CountAdvertisers' table.                                                *)

\* One more entry adds one to its exchange domain's count.
Bump(t, e) == [t EXCEPT ![e.domain] = @ + 1]

\* g is the table of CountAdvertisers over the first n entries of s.
IsCnt(g, s, n) ==
  g = [k \in 0..n |-> IF k = 0 THEN [d \in Domain |-> 0]
                      ELSE Bump(g[k - 1], s[k])]

\* Two tables of the counts are equal.
LEMMA CntUnique ==
  ASSUME NEW s, NEW n \in Nat, NEW g, NEW h, IsCnt(g, s, n), IsCnt(h, s, n)
  PROVE  g = h
<1>1. /\ DOMAIN g = 0..n /\ g[0] = [d \in Domain |-> 0]
      /\ \A k \in 1..n : g[k] = Bump(g[k - 1], s[k])
      /\ DOMAIN h = 0..n /\ h[0] = [d \in Domain |-> 0]
      /\ \A k \in 1..n : h[k] = Bump(h[k - 1], s[k])
  BY DEF IsCnt
<1> DEFINE T == {k \in 0..n : g[k] # h[k]}
<1>2. T = {}
  <2> SUFFICES ASSUME T # {} PROVE FALSE
    OBVIOUS
  <2>0. T \in SUBSET Nat
    OBVIOUS
  <2>1. PICK m \in T : \A y \in T : m <= y
    BY <2>0, LeastPos
  <2>2. m # 0
    BY <1>1, <2>1
  <2>3. m \in 1..n /\ m - 1 \in 0..n /\ m - 1 \notin T
    BY <2>0, <2>1, <2>2
  <2>4. g[m] = Bump(g[m - 1], s[m]) /\ h[m] = Bump(h[m - 1], s[m])
        /\ g[m - 1] = h[m - 1]
    BY <1>1, <2>3
  <2> QED
    BY <2>1, <2>4, Zenon
<1>3. \A k \in 0..n : g[k] = h[k]
  BY <1>2
<1>4. g = [k \in 0..n |-> g[k]] /\ h = [k \in 0..n |-> h[k]]
  BY DEF IsCnt
<1> QED
  BY <1>3, <1>4

\* A table of the counts exists for every number of entries.
LEMMA CntExists ==
  ASSUME NEW s, NEW n \in Nat
  PROVE  \E g : IsCnt(g, s, n)
<1> DEFINE T == {m \in 0..n : ~\E g : IsCnt(g, s, m)}
<1>1. T = {}
  <2> SUFFICES ASSUME T # {} PROVE FALSE
    OBVIOUS
  <2>0. T \in SUBSET Nat
    OBVIOUS
  <2>1. PICK m \in T : \A y \in T : m <= y
    BY <2>0, LeastPos
  <2>2. CASE m = 0
    <3>1. IsCnt([k \in 0..0 |-> [d \in Domain |-> 0]], s, 0)
      BY DEF IsCnt
    <3> QED
      BY <2>1, <2>2, <3>1
  <2>3. CASE m # 0
    <3>1. m - 1 \in Nat /\ m - 1 \notin T /\ m \in Nat
      BY <2>1, <2>3
    <3>2. PICK g : IsCnt(g, s, m - 1)
      BY <2>1, <3>1
    <3> DEFINE g1 == [k \in 0..m |-> IF k < m THEN g[k]
                                     ELSE Bump(g[m - 1], s[m])]
    <3>3. /\ DOMAIN g = 0..m - 1 /\ g[0] = [d \in Domain |-> 0]
          /\ \A k \in 1..m - 1 : g[k] = Bump(g[k - 1], s[k])
      <4>1. DOMAIN g = 0..m - 1
        BY <3>2 DEF IsCnt
      <4>2. g[0] = [d \in Domain |-> 0]
        BY <3>1, <3>2 DEF IsCnt
      <4>3. \A k \in 1..m - 1 : g[k] = Bump(g[k - 1], s[k])
        BY <3>1, <3>2 DEF IsCnt
      <4> QED
        BY <4>1, <4>2, <4>3
    <3>4. \A k \in 0..m : g1[k] = IF k = 0 THEN [d \in Domain |-> 0]
                                  ELSE Bump(g1[k - 1], s[k])
      BY <3>1, <3>3
    <3>5. IsCnt(g1, s, m)
      BY <3>4 DEF IsCnt
    <3> QED
      BY <2>1, <3>5
  <2> QED
    BY <2>2, <2>3
<1> QED
  BY <1>1

\* CountAdvertisers returns the last entry of the table.
LEMMA CountCnt ==
  ASSUME NEW s, Len(s) \in Nat, NEW g, IsCnt(g, s, Len(s))
  PROVE  CountAdvertisers(s) = g[Len(s)]
<1>1. \A h : (h = [k \in 0..Len(s) |->
                    IF k = 0 THEN [d \in Domain |-> 0]
                    ELSE [h[k - 1] EXCEPT ![s[k].domain] = @ + 1]])
             <=> IsCnt(h, s, Len(s))
  BY DEF IsCnt, Bump
<1>2. \A h : IsCnt(h, s, Len(s)) => h = g
  BY CntUnique
<1> QED
  BY <1>1, <1>2 DEF CountAdvertisers

\* No entries, no counts.
LEMMA CountEmpty == CountAdvertisers(<< >>) = [d \in Domain |-> 0]
<1>1. IsCnt([k \in 0..0 |-> [d \in Domain |-> 0]], << >>, 0)
  BY DEF IsCnt
<1> QED
  BY <1>1, CountCnt

\* Appending an entry adds one to its exchange domain's count.
LEMMA CountAppend ==
  ASSUME NEW s \in Seq(Entry), NEW e \in Entry
  PROVE  CountAdvertisers(Append(s, e)) = Bump(CountAdvertisers(s), e)
<1>1. Len(s) \in Nat /\ Len(Append(s, e)) = Len(s) + 1
      /\ Append(s, e)[Len(s) + 1] = e
      /\ \A k \in 1..Len(s) : Append(s, e)[k] = s[k]
  BY AppendProperties
<1>2. PICK g : IsCnt(g, s, Len(s))
  BY <1>1, CntExists
<1>3. /\ DOMAIN g = 0..Len(s) /\ g[0] = [d \in Domain |-> 0]
      /\ \A k \in 1..Len(s) : g[k] = Bump(g[k - 1], s[k])
  BY <1>2 DEF IsCnt
<1> DEFINE g1 == [k \in 0..Len(s) + 1 |->
                    IF k <= Len(s) THEN g[k] ELSE Bump(g[Len(s)], e)]
<1>4. \A k \in 0..Len(s) + 1 :
        g1[k] = IF k = 0 THEN [d \in Domain |-> 0]
                ELSE Bump(g1[k - 1], Append(s, e)[k])
  BY <1>1, <1>3
<1>5. IsCnt(g1, Append(s, e), Len(Append(s, e)))
  BY <1>1, <1>4 DEF IsCnt
<1>6. CountAdvertisers(Append(s, e)) = g1[Len(s) + 1]
  BY <1>1, <1>5, CountCnt
<1>7. CountAdvertisers(s) = g[Len(s)]
  BY <1>1, <1>2, CountCnt
<1> QED
  BY <1>1, <1>6, <1>7

-----------------------------------------------------------------------------
(* What a line adds.                                                       *)

\* The entry parseLine builds from a line.
EntryOf(l) == [domain |-> ToLower(l.tok), accountType |-> l.word]

\* A line adds its entry when it is an entry line, and nothing otherwise.
LEMMA PieceEntry ==
  ASSUME NEW c \in Seq(Lines), NEW k \in 1..Len(c)
  PROVE  /\ Piece(c, k) = IF IsEntryLine(c[k]) THEN << EntryOf(c[k]) >>
                          ELSE << >>
         /\ IsEntryLine(c[k]) => EntryOf(c[k]) \in Entry
<1>1. c[k] \in Lines
  BY ElementOfSeq
<1>2. CASE c[k].kind = "record"
  <2>1. c[k] \in [kind : {"record"}, acct : AcctCases, word : AccountWords,
                  tok : Token]
    BY <1>1, <1>2 DEF Lines
  <2>2. EntryOf(c[k]) \in Entry
    BY <2>1 DEF EntryOf, Entry, ToLower, Token, Domain
  <2>3. Piece(c, k) = parseLine(c[k])
    BY <1>2 DEF Piece
  <2>4. parseLine(c[k]) = IF IsEntryLine(c[k]) THEN << EntryOf(c[k]) >>
                          ELSE << >>
    BY <1>2 DEF parseLine, IsEntryLine, MatchesLine, isValidDomain, ToLower,
                EntryOf
  <2> QED
    BY <2>2, <2>3, <2>4
<1>3. CASE c[k].kind # "record"
  BY <1>3 DEF Piece, IsEntryLine
<1> QED
  BY <1>2, <1>3

\* The entry lines among the first k lines that name domain d.
Hits(c, k, d) == {i \in 1..k : IsEntryLine(c[i]) /\ ToLower(c[i].tok) = d}

LEMMA HitsFinite ==
  ASSUME NEW c, NEW k \in Nat, NEW d
  PROVE  IsFiniteSet(Hits(c, k, d)) /\ Cardinality(Hits(c, k, d)) \in Nat
<1>1. IsFiniteSet(1..k)
  BY FS_Interval
<1>2. Hits(c, k, d) \subseteq 1..k
  BY DEF Hits
<1> QED
  BY <1>1, <1>2, FS_Subset, FS_CardinalityType

\* After k lines the accumulator holds entries, and their counts are the
\* numbers of entry lines so far naming each domain.
AccOK(c, g, k) ==
  /\ g[k] \in Seq(Entry)
  /\ CountAdvertisers(g[k]) = [d \in Domain |-> Cardinality(Hits(c, k, d))]

(* An entry line appends its entry and adds one to its domain's count;    *)
(* any other line leaves both alone.                                       *)
LEMMA AccStep ==
  ASSUME NEW c \in Seq(Lines), NEW g, IsAcc(g, c, Len(c)),
         NEW m \in 1..Len(c), AccOK(c, g, m - 1)
  PROVE  AccOK(c, g, m)
<1> DEFINE p == g[m - 1]
           t == [d \in Domain |-> Cardinality(Hits(c, m - 1, d))]
<1>1. /\ g[m] = Cat(p, Piece(c, m))
      /\ p \in Seq(Entry) /\ CountAdvertisers(p) = t
      /\ m - 1 \in Nat
  BY DEF IsAcc, AccOK
<1>2. \A d \in Domain : m \notin Hits(c, m - 1, d)
  BY DEF Hits
<1>3. CASE IsEntryLine(c[m])
  <2> DEFINE e == EntryOf(c[m])
  <2>1. e \in Entry /\ Piece(c, m) = << e >>
    BY <1>3, PieceEntry
  <2>2. g[m] = Append(p, e)
    BY <1>1, <2>1, AppendIsConcat DEF Cat
  <2>3. g[m] \in Seq(Entry)
    BY <1>1, <2>1, <2>2, AppendProperties
  <2>4. CountAdvertisers(g[m]) = Bump(t, e)
    BY <1>1, <2>1, <2>2, CountAppend
  <2>5. e.domain \in Domain /\ e.domain = ToLower(c[m].tok)
    BY <2>1 DEF Entry, EntryOf
  <2>6. ASSUME NEW d \in Domain
        PROVE  Bump(t, e)[d] = Cardinality(Hits(c, m, d))
    <3>1. IsFiniteSet(Hits(c, m - 1, d))
      BY <1>1, HitsFinite
    <3>2. CASE d = e.domain
      <4>1. Hits(c, m, d) = Hits(c, m - 1, d) \cup {m}
        BY <1>3, <2>5, <3>2 DEF Hits
      <4>2. Cardinality(Hits(c, m, d)) = Cardinality(Hits(c, m - 1, d)) + 1
        BY <1>2, <3>1, <4>1, FS_AddElement
      <4> QED
        BY <2>5, <3>2, <4>2 DEF Bump
    <3>3. CASE d # e.domain
      <4>1. Hits(c, m, d) = Hits(c, m - 1, d)
        BY <2>5, <3>3 DEF Hits
      <4> QED
        BY <2>5, <3>3, <4>1 DEF Bump
    <3> QED
      BY <3>2, <3>3
  <2>7. Bump(t, e) = [d \in Domain |-> Cardinality(Hits(c, m, d))]
    BY <2>6 DEF Bump
  <2> QED
    BY <2>3, <2>4, <2>7 DEF AccOK
<1>4. CASE ~IsEntryLine(c[m])
  <2>1. Piece(c, m) = << >>
    BY <1>4, PieceEntry
  <2>2. g[m] = p
    BY <1>1, <2>1, ConcatEmptySeq DEF Cat
  <2>3. \A d \in Domain : Hits(c, m, d) = Hits(c, m - 1, d)
    BY <1>4 DEF Hits
  <2> QED
    BY <1>1, <2>2, <2>3 DEF AccOK
<1> QED
  BY <1>3, <1>4

\* Every prefix of the lines satisfies AccOK.
LEMMA AccCounts ==
  ASSUME NEW c \in Seq(Lines), NEW g, IsAcc(g, c, Len(c))
  PROVE  \A k \in 0..Len(c) : AccOK(c, g, k)
<1> DEFINE T == {k \in 0..Len(c) : ~AccOK(c, g, k)}
<1>1. T = {}
  <2> SUFFICES ASSUME T # {} PROVE FALSE
    OBVIOUS
  <2>0. T \in SUBSET Nat
    OBVIOUS
  <2>1. PICK m \in T : \A y \in T : m <= y
    BY <2>0, LeastPos
  <2>2. CASE m = 0
    <3>1. g[0] = << >>
      BY DEF IsAcc
    <3>2. \A d \in Domain : Hits(c, 0, d) = {}
      BY DEF Hits
    <3>3. \A d \in Domain : Cardinality(Hits(c, 0, d)) = 0
      BY <3>2, FS_EmptySet
    <3>4. CountAdvertisers(g[0]) = [d \in Domain |-> Cardinality(Hits(c, 0, d))]
      BY <3>1, <3>3, CountEmpty
    <3>5. g[0] \in Seq(Entry)
      BY <3>1, EmptySeq
    <3>6. AccOK(c, g, 0)
      BY <3>4, <3>5 DEF AccOK
    <3> QED
      BY <2>1, <2>2, <3>6
  <2>3. CASE m # 0
    <3>1. m \in 1..Len(c) /\ m - 1 \in 0..Len(c) /\ m - 1 \notin T
      BY <2>0, <2>1, <2>3
    <3>2. AccOK(c, g, m)
      BY <3>1, AccStep
    <3> QED
      BY <2>1, <3>2
  <2> QED
    BY <2>2, <2>3
<1> QED
  BY <1>1

\* The entry lines among the first k lines.
Upto(c, k) == {i \in 1..k : IsEntryLine(c[i])}

\* After k lines the accumulator holds one entry per entry line so far,
\* the entry of line i at i's place among them.
AccOrder(c, g, k) ==
  /\ Len(g[k]) = Cardinality(Upto(c, k))
  /\ \A i \in Upto(c, k) : g[k][Cardinality(Upto(c, i))] = EntryOf(c[i])

LEMMA UptoFinite ==
  ASSUME NEW c, NEW k \in Nat
  PROVE  IsFiniteSet(Upto(c, k)) /\ Cardinality(Upto(c, k)) \in Nat
<1>1. IsFiniteSet(1..k)
  BY FS_Interval
<1> QED
  BY <1>1, FS_Subset, FS_CardinalityType DEF Upto

\* An entry line's place lies between 1 and the number of entry lines up
\* to any later line.
LEMMA RankBounds ==
  ASSUME NEW c, NEW k \in Nat, NEW i \in Upto(c, k)
  PROVE  Cardinality(Upto(c, i)) \in 1..Cardinality(Upto(c, k))
<1>1. i \in Nat /\ i <= k /\ i \in Upto(c, i)
  BY DEF Upto
<1>2. IsFiniteSet(Upto(c, k)) /\ Upto(c, i) \subseteq Upto(c, k)
  BY <1>1, UptoFinite DEF Upto
<1>3. Cardinality(Upto(c, i)) <= Cardinality(Upto(c, k))
  BY <1>2, FS_Subset
<1>4. IsFiniteSet(Upto(c, i)) /\ Cardinality(Upto(c, i)) \in Nat
  BY <1>1, UptoFinite
<1>5. Cardinality(Upto(c, i)) # 0
  BY <1>1, <1>4, FS_EmptySet
<1> QED
  BY <1>3, <1>4, <1>5

(* An entry line appends its entry at the next place; any other line     *)
(* leaves the accumulator alone.                                           *)
LEMMA OrderStep ==
  ASSUME NEW c \in Seq(Lines), NEW g, IsAcc(g, c, Len(c)),
         NEW m \in 1..Len(c), AccOK(c, g, m - 1), AccOrder(c, g, m - 1)
  PROVE  AccOrder(c, g, m)
<1> DEFINE p == g[m - 1]
<1>1. /\ g[m] = Cat(p, Piece(c, m))
      /\ p \in Seq(Entry) /\ Len(p) = Cardinality(Upto(c, m - 1))
      /\ \A i \in Upto(c, m - 1) : p[Cardinality(Upto(c, i))] = EntryOf(c[i])
      /\ m - 1 \in Nat
  <2>1. g[m] = Cat(p, Piece(c, m))
    BY DEF IsAcc
  <2>2. p \in Seq(Entry)
    BY DEF AccOK
  <2>3. /\ Len(p) = Cardinality(Upto(c, m - 1))
        /\ \A i \in Upto(c, m - 1) : p[Cardinality(Upto(c, i))] = EntryOf(c[i])
    BY DEF AccOrder
  <2> QED
    BY <2>1, <2>2, <2>3
<1>2. CASE IsEntryLine(c[m])
  <2> DEFINE e == EntryOf(c[m])
  <2>1. e \in Entry /\ Piece(c, m) = << e >>
    BY <1>2, PieceEntry
  <2>2. g[m] = Append(p, e)
    BY <1>1, <2>1, AppendIsConcat DEF Cat
  <2>3. /\ Len(g[m]) = Len(p) + 1 /\ g[m][Len(p) + 1] = e
        /\ \A j \in 1..Len(p) : g[m][j] = p[j]
    <3>1. /\ Len(Append(p, e)) = Len(p) + 1 /\ Append(p, e)[Len(p) + 1] = e
          /\ \A j \in 1..Len(p) : Append(p, e)[j] = p[j]
      BY <1>1, <2>1, AppendProperties
    <3> QED
      BY <2>2, <3>1
  <2>4. Upto(c, m) = Upto(c, m - 1) \cup {m} /\ m \notin Upto(c, m - 1)
    BY <1>2 DEF Upto
  <2>5. Cardinality(Upto(c, m)) = Cardinality(Upto(c, m - 1)) + 1
    BY <1>1, <2>4, UptoFinite, FS_AddElement
  <2>6. ASSUME NEW i \in Upto(c, m)
        PROVE  g[m][Cardinality(Upto(c, i))] = EntryOf(c[i])
    <3>1. CASE i = m
      BY <1>1, <2>3, <2>5, <3>1
    <3>2. CASE i # m
      <4>1. i \in Upto(c, m - 1)
        BY <2>4, <3>2
      <4>2. Cardinality(Upto(c, i)) \in 1..Len(p)
        BY <1>1, <4>1, RankBounds
      <4> QED
        BY <1>1, <2>3, <4>1, <4>2
    <3> QED
      BY <3>1, <3>2
  <2> QED
    BY <1>1, <2>3, <2>5, <2>6 DEF AccOrder
<1>3. CASE ~IsEntryLine(c[m])
  <2>1. Piece(c, m) = << >>
    BY <1>3, PieceEntry
  <2>2. g[m] = p
    BY <1>1, <2>1, ConcatEmptySeq DEF Cat
  <2>3. Upto(c, m) = Upto(c, m - 1)
    BY <1>3 DEF Upto
  <2> QED
    BY <1>1, <2>2, <2>3 DEF AccOrder
<1> QED
  BY <1>2, <1>3

\* Every prefix of the lines satisfies AccOrder.
LEMMA OrderAll ==
  ASSUME NEW c \in Seq(Lines), NEW g, IsAcc(g, c, Len(c))
  PROVE  \A k \in 0..Len(c) : AccOrder(c, g, k)
<1> DEFINE T == {k \in 0..Len(c) : ~AccOrder(c, g, k)}
<1>1. T = {}
  <2> SUFFICES ASSUME T # {} PROVE FALSE
    OBVIOUS
  <2>0. T \in SUBSET Nat
    OBVIOUS
  <2>1. PICK m \in T : \A y \in T : m <= y
    BY <2>0, LeastPos
  <2>2. CASE m = 0
    <3>1. g[0] = << >> /\ Upto(c, 0) = {}
      BY DEF IsAcc, Upto
    <3>2. AccOrder(c, g, 0)
      BY <3>1, FS_EmptySet DEF AccOrder
    <3> QED
      BY <2>1, <2>2, <3>2
  <2>3. CASE m # 0
    <3>1. m \in 1..Len(c) /\ m - 1 \in 0..Len(c) /\ m - 1 \notin T
      BY <2>0, <2>1, <2>3
    <3>2. AccOK(c, g, m - 1)
      BY <3>1, AccCounts
    <3>3. AccOrder(c, g, m)
      BY <3>1, <3>2, OrderStep
    <3> QED
      BY <2>1, <3>3
  <2> QED
    BY <2>2, <2>3
<1> QED
  BY <1>1

(* What Parse returns, for every content: the error exactly when no line *)
(* is an entry line, and otherwise one entry per entry line, in order.     *)
LEMMA ParseOrder ==
  ASSUME NEW c \in Seq(Lines)
  PROVE  IF EntryLines(c) = {} THEN Parse(c).err
         ELSE /\ ~Parse(c).err
              /\ Len(Parse(c).entries) = Cardinality(EntryLines(c))
              /\ \A k \in EntryLines(c) :
                   Parse(c).entries[Rank(c, k)] =
                     [domain |-> [name |-> c[k].tok.name, dots |-> c[k].tok.dots],
                      accountType |-> c[k].word]
<1>1. Len(c) \in Nat
  OBVIOUS
<1>2. PICK g : IsAcc(g, c, Len(c))
  BY <1>1, AccExists
<1>3. Parse(c) = IF c = << >> \/ g[Len(c)] = << >> THEN ParseError
                 ELSE [entries |-> g[Len(c)], err |-> FALSE]
  BY <1>1, <1>2, ParseAcc
<1>4. g[Len(c)] \in Seq(Entry) /\ AccOrder(c, g, Len(c))
  <2>1. Len(c) \in 0..Len(c)
    BY <1>1
  <2>2. AccOK(c, g, Len(c))
    BY <1>2, <2>1, AccCounts
  <2>3. AccOrder(c, g, Len(c))
    BY <1>2, <2>1, OrderAll
  <2> QED
    BY <2>2, <2>3 DEF AccOK
<1>5. EntryLines(c) = Upto(c, Len(c))
  BY DEF EntryLines, Upto
<1>6. IsFiniteSet(EntryLines(c)) /\ Cardinality(EntryLines(c)) \in Nat
  BY <1>1, <1>5, UptoFinite
<1>7. CASE EntryLines(c) = {}
  <2>1. Len(g[Len(c)]) = 0
    BY <1>4, <1>5, <1>7, FS_EmptySet DEF AccOrder
  <2>2. g[Len(c)] = << >>
    BY <1>4, <2>1
  <2> QED
    BY <1>3, <1>7, <2>2 DEF ParseError
<1>8. CASE EntryLines(c) # {}
  <2>1. Len(g[Len(c)]) = Cardinality(EntryLines(c))
        /\ Cardinality(EntryLines(c)) # 0
    BY <1>4, <1>5, <1>6, <1>8, FS_EmptySet DEF AccOrder
  <2>2. c # << >> /\ g[Len(c)] # << >>
    BY <1>8, <2>1 DEF EntryLines
  <2>3. Parse(c) = [entries |-> g[Len(c)], err |-> FALSE]
    BY <1>3, <2>2
  <2>4. ASSUME NEW k \in EntryLines(c)
        PROVE  g[Len(c)][Rank(c, k)] =
                 [domain |-> [name |-> c[k].tok.name, dots |-> c[k].tok.dots],
                  accountType |-> c[k].word]
    <3>1. Rank(c, k) = Cardinality(Upto(c, k))
      <4>1. {i \in EntryLines(c) : i <= k} = Upto(c, k)
        BY DEF EntryLines, Upto
      <4> QED
        BY <4>1 DEF Rank
    <3>2. g[Len(c)][Cardinality(Upto(c, k))] = EntryOf(c[k])
      BY <1>4, <1>5 DEF AccOrder
    <3> QED
      BY <3>1, <3>2 DEF EntryOf, ToLower
  <2> QED
    BY <1>8, <2>1, <2>3, <2>4
<1> QED
  BY <1>7, <1>8

-----------------------------------------------------------------------------
(* The analysis steps.  Parse runs once on the content, and the counts    *)
(* are taken only of entries Parse returned without an error.             *)
PInv ==
  /\ TypeOK
  /\ step # "parse" => parsed = Parse(content)
  /\ step = "count" => ~parsed.err
  /\ step = "done" /\ ~parsed.err => counts = CountAdvertisers(parsed.entries)

\* The contents enumerated are sequences of lines.
LEMMA ContentsSeq == Contents \subseteq Seq(Lines)
<1> SUFFICES ASSUME NEW n \in 0..MaxLines, NEW f \in [1..n -> Lines]
             PROVE  f \in Seq(Lines)
  BY DEF Contents
<1> QED
  BY ParserAssumption

(* What Parse returns, for every content: a Result, and when it is not an *)
(* error, entries whose counts are the numbers of entry lines naming each *)
(* domain.                                                                 *)
LEMMA ParseCounts ==
  ASSUME NEW c \in Seq(Lines)
  PROVE  /\ Parse(c) \in Result
         /\ ~Parse(c).err =>
              CountAdvertisers(Parse(c).entries)
                = [d \in Domain |-> Cardinality(Hits(c, Len(c), d))]
<1>1. Len(c) \in Nat
  OBVIOUS
<1>2. PICK g : IsAcc(g, c, Len(c))
  BY <1>1, AccExists
<1>3. Parse(c) = IF c = << >> \/ g[Len(c)] = << >> THEN ParseError
                 ELSE [entries |-> g[Len(c)], err |-> FALSE]
  BY <1>1, <1>2, ParseAcc
<1>4. AccOK(c, g, Len(c))
  BY <1>1, <1>2, AccCounts
<1>5. ParseError \in Result
  BY EmptySeq DEF ParseError, Result
<1>6. Parse(c) \in Result
  BY <1>3, <1>4, <1>5 DEF AccOK, Result
<1>7. ~Parse(c).err => Parse(c).entries = g[Len(c)]
  BY <1>3 DEF ParseError
<1> QED
  BY <1>4, <1>6, <1>7 DEF AccOK

\* The counts are natural numbers.
LEMMA CountsType ==
  ASSUME NEW c \in Seq(Lines)
  PROVE  [d \in Domain |-> Cardinality(Hits(c, Len(c), d))] \in [Domain -> Nat]
BY HitsFinite

LEMMA InitPInv == Init => PInv
<1> SUFFICES ASSUME Init PROVE PInv
  OBVIOUS
<1>1. ParseError \in Result
  BY EmptySeq DEF ParseError, Result
<1>2. [d \in Domain |-> 0] \in [Domain -> Nat]
  OBVIOUS
<1> QED
  BY <1>1, <1>2 DEF Init, PInv, TypeOK

LEMMA NextPInv == PInv /\ [Next]_vars => PInv'
<1> SUFFICES ASSUME PInv, [Next]_vars PROVE PInv'
  OBVIOUS
<1>0. content \in Seq(Lines)
  BY ContentsSeq DEF PInv, TypeOK
<1>1. CASE DoParse
  <2>1. Parse(content) \in Result
    BY <1>0, ParseCounts
  <2> QED
    BY <1>1, <2>1 DEF DoParse, PInv, TypeOK
<1>2. CASE DoCount
  <2>1. parsed = Parse(content) /\ ~Parse(content).err
    BY <1>2 DEF DoCount, PInv
  <2>2. counts' \in [Domain -> Nat]
    BY <1>0, <1>2, <2>1, ParseCounts, CountsType DEF DoCount
  <2> QED
    BY <1>2, <2>2 DEF DoCount, PInv, TypeOK
<1>3. CASE UNCHANGED vars
  BY <1>3 DEF vars, PInv, TypeOK
<1> QED
  BY <1>1, <1>2, <1>3 DEF Next

(* Type correctness of the analysis of one body, for every content of      *)
(* every length: Parse returns entries of models.AdsTxtEntry or the error, *)
(* and CountAdvertisers a count per advertiser domain.                     *)
THEOREM TypeOKHolds == Spec => []TypeOK
<1>1. PInv => TypeOK
  BY DEF PInv
<1> QED
  BY <1>1, InitPInv, NextPInv, PTL DEF Spec

(* Tests (TestParser_CountAdvertisers), for every content of every length  *)
(* and every set of names: once buildAnalysis has counted, an advertiser's *)
(* count is the number of entry lines naming it, case ignored.  Parse     *)
(* appends one entry per entry line, and CountAdvertisers adds one to its *)
(* domain per entry.                                                       *)
THEOREM CountsMatchReferenceHolds == Spec => []CountsMatchReference
<1>1. PInv => CountsMatchReference
  <2> SUFFICES ASSUME PInv, step = "done", ~parsed.err
               PROVE  \A d \in Domain :
                        counts[d] = Cardinality({k \in EntryLines(content) :
                                                   ToLower(content[k].tok) = d})
    BY DEF CountsMatchReference
  <2>1. content \in Seq(Lines)
    BY ContentsSeq DEF PInv, TypeOK
  <2>2. counts = [d \in Domain |-> Cardinality(Hits(content, Len(content), d))]
    BY <2>1, ParseCounts DEF PInv
  <2>3. \A d \in Domain :
          Hits(content, Len(content), d)
            = {k \in EntryLines(content) : ToLower(content[k].tok) = d}
    BY DEF Hits, EntryLines
  <2> QED
    BY <2>2, <2>3
<1> QED
  BY <1>1, InitPInv, NextPInv, PTL DEF Spec

(* Tests (TestParser_Parse), for every content of every length and every *)
(* set of names: Parse fails exactly when no line is an entry line, and    *)
(* otherwise returns one entry per entry line, in the order of the lines,  *)
(* its exchange domain lower-cased and its account type upper-cased.       *)
THEOREM ParsedMatchesReferenceHolds == Spec => []ParsedMatchesReference
<1>1. PInv => ParsedMatchesReference
  <2> SUFFICES ASSUME PInv, step # "parse"
               PROVE  ParsedMatchesReference
    BY DEF ParsedMatchesReference
  <2>1. content \in Seq(Lines) /\ parsed = Parse(content)
    BY ContentsSeq DEF PInv, TypeOK
  <2> QED
    BY <2>1, ParseOrder DEF ParsedMatchesReference
<1> QED
  BY <1>1, InitPInv, NextPInv, PTL DEF Spec

=============================================================================
