--------------------------- MODULE GatewayProofs ---------------------------
(***************************************************************************)
(* Proofs about Gateway, Config and Paths: the configuration of an agent   *)
(* that is up, the time limit and the directory of a command and the place *)
(* of an uploaded file, for every default, every file and environment,     *)
(* every path, every request and every width of the machine's integers.    *)
(*                                                                         *)
(* Paths are cleaned and followed by folds over their segments.  What a    *)
(* fold does is proved by induction on the number of segments; the         *)
(* induction itself is the least number at which a statement fails.        *)
(***************************************************************************)
EXTENDS Gateway, WellFoundedInduction, FiniteSetTheorems, SequenceTheorems, TLAPS

(***************************************************************************)
(* Induction.                                                              *)
(***************************************************************************)

\* A set of numbers that is not empty has a least member.
LEMMA LeastNumber ==
    ASSUME NEW T \in SUBSET Nat, T # {}
    PROVE  \E m \in T : \A k \in T : m <= k
<1>1. PICK m \in T : \A k \in T : ~(<<k, m>> \in OpToRel(<, Nat))
  BY NatLessThanWellFounded, WFMin
<1>2. \A k \in T : ~(k < m)
  BY <1>1 DEF OpToRel
<1> QED
  BY <1>2

\* A set with 0, and with the successor of every member, has every number.
LEMMA NumberInduction ==
    ASSUME NEW T \in SUBSET Nat, 0 \in T, \A n \in T : n + 1 \in T
    PROVE  T = Nat
<1> SUFFICES ASSUME Nat \ T # {} PROVE FALSE
  OBVIOUS
<1>1. PICK m \in Nat \ T : \A k \in Nat \ T : m <= k
  BY LeastNumber
<1>2. m - 1 \in Nat /\ m - 1 \notin Nat \ T
  BY <1>1
<1> QED
  BY <1>2

\* A set of sequences with the empty one, and with every extension of its
\* members, has all of them.
LEMMA SequenceInduction ==
    ASSUME NEW S, NEW T \in SUBSET Seq(S), <<>> \in T,
           \A s \in T, e \in S : Append(s, e) \in T
    PROVE  T = Seq(S)
<1> DEFINE N == {n \in Nat : \A s \in Seq(S) : Len(s) = n => s \in T}
<1>1. 0 \in N
  BY EmptySeq
<1>2. ASSUME NEW n \in N PROVE n + 1 \in N
  <2> SUFFICES ASSUME NEW s \in Seq(S), Len(s) = n + 1 PROVE s \in T
    OBVIOUS
  <2>1. s # <<>>
    BY EmptySeq
  <2>2. PICK r \in Seq(S), e \in S : s = Append(r, e)
    BY <2>1, SequenceEmptyOrAppend
  <2>3. Len(r) = n
    BY <2>2, AppendProperties, LenProperties
  <2> QED
    BY <2>2, <2>3
<1>3. N = Nat
  <2> HIDE DEF N
  <2>1. N \in SUBSET Nat
    BY DEF N
  <2> QED
    BY <1>1, <1>2, <2>1, NumberInduction
<1> QED
  BY <1>3, LenProperties

\* The greatest member of a set of positive numbers with an upper bound.
LEMMA MaxIsMember ==
    ASSUME NEW n \in Nat, NEW t \in SUBSET (1..n), t # {}
    PROVE  Max(t) \in t /\ \A i \in t : i <= Max(t)
<1> DEFINE N == {k \in Nat : \E i \in t : k = n - i}
<1>1. N \in SUBSET Nat /\ N # {}
  <2>1. PICK i \in t : TRUE
    OBVIOUS
  <2>2. n - i \in N
    BY <2>1
  <2> QED
    BY <2>2
<1>2. PICK m \in N : \A k \in N : m <= k
  <2> HIDE DEF N
  <2> QED
    BY <1>1, LeastNumber
<1>3. PICK i \in t : m = n - i
  BY <1>2
<1>4. \A j \in t : i >= j
  <2> TAKE j \in t
  <2>1. n - j \in N /\ i \in 1..n /\ j \in 1..n
    OBVIOUS
  <2> QED
    BY <1>2, <1>3, <2>1
<1>5. \E x \in t : \A y \in t : x >= y
  BY <1>4
<1>6. Max(t) \in t /\ \A y \in t : Max(t) >= y
  BY <1>5 DEF Max
<1> QED
  BY <1>6

(***************************************************************************)
(* The folds of Paths.  FoldLeft is defined by a table: a function from    *)
(* sets of positions to what is reached after them.  A table exists for    *)
(* every number of segments, and says what one segment more does.          *)
(***************************************************************************)

\* One segment more, of a walk or of a path that is being cleaned.
Step(kind, abs, here, s) ==
    IF kind = "walk" THEN Descend(here, s) ELSE Push(abs, here, s)

\* g is the table of segs up to n, from base on.
Table(kind, abs, base, segs, n, g) ==
    g = [t \in SUBSET (1..n) |->
            IF t = {} THEN base ELSE Step(kind, abs, g[t \ {Max(t)}], segs[Max(t)])]

\* There is a table for every length: a longer one is made from a shorter one.
LEMMA TableExists ==
    ASSUME NEW kind, NEW abs, NEW base, NEW segs
    PROVE  \A n \in Nat : \E g : Table(kind, abs, base, segs, n, g)
<1> DEFINE N == {n \in Nat : \E g : Table(kind, abs, base, segs, n, g)}
<1>1. 0 \in N
  <2> DEFINE g == [t \in SUBSET (1..0) |-> base]
  <2>1. SUBSET (1..0) = {{}}
    OBVIOUS
  <2>2. Table(kind, abs, base, segs, 0, g)
    BY <2>1 DEF Table
  <2> QED
    BY <2>2
<1>2. ASSUME NEW n \in N PROVE n + 1 \in N
  <2>1. PICK g : Table(kind, abs, base, segs, n, g)
    OBVIOUS
  <2> DEFINE h == [t \in SUBSET (1..(n + 1)) |->
                      IF n + 1 \in t THEN Step(kind, abs, g[t \ {n + 1}], segs[n + 1]) ELSE g[t]]
  <2>2. ASSUME NEW t \in SUBSET (1..(n + 1))
        PROVE  h[t] = IF t = {} THEN base ELSE Step(kind, abs, h[t \ {Max(t)}], segs[Max(t)])
    <3>1. CASE n + 1 \in t
      <4>1. Max(t) = n + 1
        <5>1. n \in Nat /\ n + 1 \in Nat /\ t # {}
          BY <3>1
        <5> HIDE DEF N, h
        <5>2. Max(t) \in t /\ n + 1 <= Max(t)
          BY <3>1, <5>1, MaxIsMember
        <5>3. Max(t) \in 1..(n + 1)
          BY <5>2
        <5> QED
          BY <5>1, <5>2, <5>3
      <4>2. t \ {n + 1} \in SUBSET (1..(n + 1)) /\ n + 1 \notin t \ {n + 1}
        OBVIOUS
      <4>3. h[t \ {n + 1}] = g[t \ {n + 1}]
        BY <4>2
      <4>4. h[t] = Step(kind, abs, g[t \ {n + 1}], segs[n + 1])
        BY <3>1
      <4> QED
        BY <3>1, <4>1, <4>3, <4>4
    <3>2. CASE n + 1 \notin t
      <4>1. t \in SUBSET (1..n)
        BY <3>2
      <4>2. h[t] = g[t]
        BY <3>2
      <4>3. CASE t = {}
        BY <2>1, <4>1, <4>2, <4>3 DEF Table
      <4>4. CASE t # {}
        <5>1. t \ {Max(t)} \in SUBSET (1..n)
          BY <4>1
        <5>2. h[t \ {Max(t)}] = g[t \ {Max(t)}]
          BY <5>1
        <5>3. g[t] = Step(kind, abs, g[t \ {Max(t)}], segs[Max(t)])
          BY <2>1, <4>1, <4>4 DEF Table
        <5> QED
          BY <4>2, <4>4, <5>2, <5>3
      <4> QED
        BY <4>3, <4>4
    <3> QED
      BY <3>1, <3>2
  <2>3. Table(kind, abs, base, segs, n + 1, h)
    <3>1. h = [t \in SUBSET (1..(n + 1)) |-> h[t]]
      OBVIOUS
    <3> HIDE DEF h
    <3> QED
      BY <2>2, <3>1 DEF Table
  <2> QED
    BY <2>3
<1>3. N = Nat
  <2> HIDE DEF N
  <2>1. N \in SUBSET Nat
    BY DEF N
  <2> QED
    BY <1>1, <1>2, <2>1, NumberInduction
<1> QED
  BY <1>3

\* A table is determined on the intervals from 1 on by the segments in them.
LEMMA TableStep ==
    ASSUME NEW kind, NEW abs, NEW base, NEW segs, NEW n \in Nat, NEW g,
           Table(kind, abs, base, segs, n, g), NEW k \in Nat, k < n
    PROVE  g[1..0] = base /\ g[1..(k + 1)] = Step(kind, abs, g[1..k], segs[k + 1])
<1>1. 1..0 = {} /\ {} \in SUBSET (1..n)
  OBVIOUS
<1>2. 1..(k + 1) \in SUBSET (1..n) /\ k + 1 \in 1..(k + 1)
  OBVIOUS
<1>3. Max(1..(k + 1)) = k + 1
  <2>1. Max(1..(k + 1)) \in 1..(k + 1) /\ k + 1 <= Max(1..(k + 1))
    BY <1>2, MaxIsMember
  <2> QED
    BY <2>1
<1>4. (1..(k + 1)) \ {k + 1} = 1..k
  OBVIOUS
<1>5. g[{}] = base
  BY <1>1 DEF Table
<1>6. g[1..(k + 1)] = Step(kind, abs, g[(1..(k + 1)) \ {Max(1..(k + 1))}], segs[Max(1..(k + 1))])
  BY <1>2 DEF Table
<1> QED
  BY <1>1, <1>3, <1>4, <1>5, <1>6

\* Walk goes by such a table.
LEMMA WalkTable ==
    ASSUME NEW at, NEW S, NEW segs \in Seq(S)
    PROVE  \E g : Table("walk", "any", at, segs, Len(segs), g) /\ Walk(at, segs) = g[1..Len(segs)]
<1> DEFINE h == CHOOSE g : Table("walk", "any", at, segs, Len(segs), g)
<1>1. Len(segs) \in Nat /\ DOMAIN segs = 1..Len(segs)
  BY LenProperties
<1>2. Walk(at, segs) =
         (CHOOSE g : g = [t \in SUBSET DOMAIN segs |->
             IF t = {} THEN at ELSE Descend(g[t \ {Max(t)}], segs[Max(t)])])[DOMAIN segs]
  BY SMT DEF Walk, FoldLeft, MapThenFoldSet
<1>3. Walk(at, segs) = h[1..Len(segs)]
  BY ONLY <1>1, <1>2, SMT DEF Table, Step
<1>4. Table("walk", "any", at, segs, Len(segs), h)
  BY <1>1, TableExists
<1> QED
  BY <1>3, <1>4

\* CleanSegs goes by such a table.
LEMMA CleanTable ==
    ASSUME NEW abs, NEW S, NEW segs \in Seq(S)
    PROVE  \E g : /\ Table("clean", abs, <<>>, segs, Len(segs), g)
                  /\ CleanSegs(abs, segs) = g[1..Len(segs)]
<1> DEFINE h == CHOOSE g : Table("clean", abs, <<>>, segs, Len(segs), g)
<1>1. Len(segs) \in Nat /\ DOMAIN segs = 1..Len(segs)
  BY LenProperties
<1>2. CleanSegs(abs, segs) =
         (CHOOSE g : g = [t \in SUBSET DOMAIN segs |->
             IF t = {} THEN <<>> ELSE Push(abs, g[t \ {Max(t)}], segs[Max(t)])])[DOMAIN segs]
  BY SMT DEF CleanSegs, FoldLeft, MapThenFoldSet
<1>3. CleanSegs(abs, segs) = h[1..Len(segs)]
  BY ONLY <1>1, <1>2, SMT DEF Table, Step
<1>4. Table("clean", abs, <<>>, segs, Len(segs), h)
  BY <1>1, TableExists
<1> QED
  BY <1>3, <1>4

\* Two tables of sequences that begin alike begin alike.
LEMMA TableSame ==
    ASSUME NEW kind, NEW abs, NEW base, NEW segs, NEW m \in Nat, NEW g,
           Table(kind, abs, base, segs, m, g),
           NEW more, NEW n \in Nat, NEW h, Table(kind, abs, base, more, n, h),
           m <= n, \A i \in 1..m : more[i] = segs[i]
    PROVE  g[1..m] = h[1..m]
<1> DEFINE N == {k \in Nat : k <= m => g[1..k] = h[1..k]}
<1>1. 0 \in N
  <2>1. 1..0 = {} /\ {} \in SUBSET (1..m) /\ {} \in SUBSET (1..n)
    OBVIOUS
  <2>2. g[{}] = base /\ h[{}] = base
    BY <2>1 DEF Table
  <2> QED
    BY <2>1, <2>2
<1>2. ASSUME NEW k \in N PROVE k + 1 \in N
  <2> SUFFICES ASSUME k + 1 <= m PROVE g[1..(k + 1)] = h[1..(k + 1)]
    OBVIOUS
  <2>1. k \in Nat /\ k < m /\ k < n /\ g[1..k] = h[1..k] /\ k + 1 \in 1..m
    OBVIOUS
  <2>2. g[1..(k + 1)] = Step(kind, abs, g[1..k], segs[k + 1])
    BY <2>1, TableStep
  <2>3. h[1..(k + 1)] = Step(kind, abs, h[1..k], more[k + 1])
    BY <2>1, TableStep
  <2> QED
    BY <2>1, <2>2, <2>3
<1>3. N = Nat
  <2> HIDE DEF N
  <2>1. N \in SUBSET Nat
    BY DEF N
  <2> QED
    BY <1>1, <1>2, <2>1, NumberInduction
<1> QED
  BY <1>3

\* The table of one segment more takes one step more.
LEMMA TableMore ==
    ASSUME NEW kind, NEW abs, NEW base, NEW segs, NEW n \in Nat, NEW g,
           Table(kind, abs, base, segs, n, g),
           NEW more, NEW h, Table(kind, abs, base, more, n + 1, h),
           \A i \in 1..n : more[i] = segs[i]
    PROVE  h[1..(n + 1)] = Step(kind, abs, g[1..n], more[n + 1])
<1>1. n + 1 \in Nat /\ n <= n + 1 /\ n < n + 1
  OBVIOUS
<1>2. g[1..n] = h[1..n]
  BY <1>1, TableSame
<1>3. h[1..(n + 1)] = Step(kind, abs, h[1..n], more[n + 1])
  BY <1>1, TableStep
<1> QED
  BY <1>2, <1>3

\* A walk by no segment stays.
LEMMA WalkStay == \A at : Walk(at, <<>>) = at
<1> TAKE at
<1>1. <<>> \in Seq({}) /\ Len(<<>>) = 0 /\ 1..0 = {}
  BY EmptySeq
<1>2. PICK g : Table("walk", "any", at, <<>>, 0, g) /\ Walk(at, <<>>) = g[1..0]
  BY <1>1, WalkTable
<1>3. g[{}] = at
  BY <1>2 DEF Table
<1> QED
  BY <1>1, <1>2, <1>3

\* One segment more is one step more.
LEMMA WalkStep ==
    \A at, S : \A segs \in Seq(S) : \A s \in S :
        Walk(at, Append(segs, s)) = Descend(Walk(at, segs), s)
<1> TAKE at, S
<1> TAKE segs \in Seq(S)
<1> TAKE s \in S
<1> DEFINE more == Append(segs, s)
           n == Len(segs)
<1>1. /\ n \in Nat /\ more \in Seq(S) /\ Len(more) = n + 1
      /\ \A i \in 1..n : more[i] = segs[i]
      /\ more[n + 1] = s
  BY AppendProperties, LenProperties
<1>2. PICK g : Table("walk", "any", at, segs, n, g) /\ Walk(at, segs) = g[1..n]
  BY WalkTable
<1>3. PICK h : Table("walk", "any", at, more, n + 1, h) /\ Walk(at, more) = h[1..(n + 1)]
  BY <1>1, WalkTable
<1> HIDE DEF more, n
<1>4. h[1..(n + 1)] = Step("walk", "any", g[1..n], more[n + 1])
  <2>1. n \in Nat /\ \A i \in 1..n : more[i] = segs[i]
    BY <1>1
  <2>2. Table("walk", "any", at, segs, n, g) /\ Table("walk", "any", at, more, n + 1, h)
    BY <1>2, <1>3
  <2> QED
    BY ONLY <2>1, <2>2, TableMore
<1>5. Walk(at, more) = Descend(Walk(at, segs), s)
  BY <1>1, <1>2, <1>3, <1>4 DEF Step
<1> QED
  BY <1>5 DEF more

\* Nothing is clean.
LEMMA CleanNothing == \A abs : CleanSegs(abs, <<>>) = <<>>
<1> TAKE abs
<1>1. <<>> \in Seq({}) /\ Len(<<>>) = 0 /\ 1..0 = {}
  BY EmptySeq
<1>2. PICK g : Table("clean", abs, <<>>, <<>>, 0, g) /\ CleanSegs(abs, <<>>) = g[1..0]
  BY <1>1, CleanTable
<1>3. g[{}] = <<>>
  BY <1>2 DEF Table
<1> QED
  BY <1>1, <1>2, <1>3

\* One segment more is one Push more.
LEMMA CleanStep ==
    \A abs, S : \A segs \in Seq(S) : \A s \in S :
        CleanSegs(abs, Append(segs, s)) = Push(abs, CleanSegs(abs, segs), s)
<1> TAKE abs, S
<1> TAKE segs \in Seq(S)
<1> TAKE s \in S
<1> DEFINE more == Append(segs, s)
           n == Len(segs)
<1>1. /\ n \in Nat /\ more \in Seq(S) /\ Len(more) = n + 1
      /\ \A i \in 1..n : more[i] = segs[i]
      /\ more[n + 1] = s
  BY AppendProperties, LenProperties
<1>2. PICK g : Table("clean", abs, <<>>, segs, n, g) /\ CleanSegs(abs, segs) = g[1..n]
  BY CleanTable
<1>3. PICK h : Table("clean", abs, <<>>, more, n + 1, h) /\ CleanSegs(abs, more) = h[1..(n + 1)]
  BY <1>1, CleanTable
<1> HIDE DEF more, n
<1>4. h[1..(n + 1)] = Step("clean", abs, g[1..n], more[n + 1])
  <2>1. n \in Nat /\ \A i \in 1..n : more[i] = segs[i]
    BY <1>1
  <2>2. Table("clean", abs, <<>>, segs, n, g) /\ Table("clean", abs, <<>>, more, n + 1, h)
    BY <1>2, <1>3
  <2> QED
    BY ONLY <2>1, <2>2, TableMore
<1>5. CleanSegs(abs, more) = Push(abs, CleanSegs(abs, segs), s)
  BY <1>1, <1>2, <1>3, <1>4 DEF Step
<1> QED
  BY <1>5 DEF more

(***************************************************************************)
(* Segments.  They are strings; the two that the code itself writes are    *)
(* named, because the provers do not know that a literal is a string.      *)
(***************************************************************************)

Segment == STRING \cup {"..", "uploads"}

\* The segment that goes up, and those that go nowhere.
Dots == ".."
Skip == {"", "."}

\* The others name something.
Name == {s \in Segment : s \notin Skip /\ s # Dots}

\* The clean sequences of segments of a relative path: ".." only in front.
Stacks ==
    {w \in Seq(Segment) :
        /\ \A i \in 1..Len(w) : w[i] \notin Skip
        /\ \A i \in 1..Len(w) : w[i] = Dots => \A j \in 1..i : w[j] = Dots}

\* Paths.
Path == [abs : BOOLEAN, segs : Seq(Segment)]

\* The last element of a sequence and what is before it.
LEMMA FrontLast ==
    ASSUME NEW S, NEW r \in Seq(S), NEW e \in S
    PROVE  Front(Append(r, e)) = r /\ Last(Append(r, e)) = e /\ Append(r, e) # <<>>
<1> DEFINE w == Append(r, e)
<1>1. /\ w \in Seq(S) /\ Len(w) = Len(r) + 1 /\ Len(r) \in Nat
      /\ \A i \in 1..Len(r) : w[i] = r[i]
      /\ w[Len(r) + 1] = e /\ w # <<>>
  BY AppendProperties, LenProperties
<1>2. Front(w) = r
  <2> HIDE DEF w
  <2> DEFINE f == SubSeq(w, 1, Len(r))
  <2>1. \A i \in 1..Len(r) : w[i] \in S
    BY <1>1, ElementOfSeq
  <2>2. f \in Seq(S) /\ Len(f) = Len(r) /\ \A i \in 1..Len(r) : f[i] = w[i]
    <3>1. 1 \in Int /\ Len(r) \in Int
      BY <1>1
    <3>2. /\ f \in Seq(S)
          /\ Len(f) = IF 1 <= Len(r) THEN Len(r) - 1 + 1 ELSE 0
          /\ \A i \in 1..(Len(r) - 1 + 1) : f[i] = w[1 + i - 1]
      BY <2>1, <3>1, SubSeqProperties
    <3> QED
      BY <1>1, <3>2
  <2>3. f = r
    BY <1>1, <2>2, SeqEqual
  <2>4. Len(w) - 1 = Len(r)
    BY <1>1
  <2> QED
    BY <2>3, <2>4 DEF Front
<1> QED
  BY <1>1, <1>2 DEF Last

\* What a step and a Push do, case by case.
LEMMA DescendCases ==
    \A here, s :
        /\ s \in Skip => Descend(here, s) = here
        /\ s = Dots /\ here = <<>> => Descend(here, s) = here
        /\ s = Dots /\ here # <<>> => Descend(here, s) = Front(here)
        /\ s \notin Skip /\ s # Dots => Descend(here, s) = Append(here, s)
BY DEF Descend, Skip, Dots

\* The same for a Push.
LEMMA PushCases ==
    \A w, s :
        /\ s \in Skip => Push(FALSE, w, s) = w
        /\ s = Dots /\ w # <<>> /\ Last(w) # Dots => Push(FALSE, w, s) = Front(w)
        /\ s = Dots /\ (w = <<>> \/ Last(w) = Dots) => Push(FALSE, w, s) = Append(w, s)
        /\ s \notin Skip /\ s # Dots => Push(FALSE, w, s) = Append(w, s)
<1> TAKE w, s
<1>1. ASSUME s \in Skip PROVE Push(FALSE, w, s) = w
  BY <1>1 DEF Push, Skip
<1>2. ASSUME s = Dots, w # <<>>, Last(w) # Dots PROVE Push(FALSE, w, s) = Front(w)
  BY <1>2 DEF Push, Dots
<1>3. ASSUME s = Dots, w = <<>> \/ Last(w) = Dots PROVE Push(FALSE, w, s) = Append(w, s)
  BY <1>3 DEF Push, Dots
<1>4. ASSUME s \notin Skip, s # Dots PROVE Push(FALSE, w, s) = Append(w, s)
  BY <1>4 DEF Push, Skip, Dots
<1> QED
  BY <1>1, <1>2, <1>3, <1>4

\* A step leads from a sequence of names to a sequence of names.
LEMMA DescendNames ==
    ASSUME NEW at \in Seq(Name), NEW s \in Segment
    PROVE  Descend(at, s) \in Seq(Name)
<1>1. CASE s \in Skip \/ (s = Dots /\ at = <<>>)
  BY <1>1, DescendCases
<1>2. CASE s = Dots /\ at # <<>>
  <2>1. PICK r \in Seq(Name), e \in Name : at = Append(r, e)
    BY <1>2, SequenceEmptyOrAppend
  <2>2. Descend(at, s) = Front(at)
    BY <1>2, DescendCases
  <2> QED
    BY <2>1, <2>2, FrontLast
<1>3. CASE s \notin Skip /\ s # Dots
  <2>1. s \in Name /\ Descend(at, s) = Append(at, s)
    BY <1>3, DescendCases DEF Name
  <2>2. Append(at, s) \in Seq(Name)
    BY <2>1, AppendProperties
  <2> QED
    BY <2>1, <2>2
<1> QED
  BY <1>1, <1>2, <1>3

\* One name behind two sequences.
LEMMA AppendConcat ==
    \A S : \A a \in Seq(S), b \in Seq(S), s \in S : a \o Append(b, s) = Append(a \o b, s)
<1> TAKE S
<1> TAKE a \in Seq(S), b \in Seq(S), s \in S
<1>1. <<s>> \in Seq(S)
  OBVIOUS
<1>2. a \o b \in Seq(S)
  BY ConcatProperties
<1>3. Append(b, s) = b \o <<s>>
  BY AppendIsConcat
<1>4. Append(a \o b, s) = (a \o b) \o <<s>>
  BY <1>2, AppendIsConcat
<1> QED
  BY <1>1, <1>3, <1>4, ConcatAssociative

\* So does a walk.
LEMMA WalkNames ==
    ASSUME NEW at \in Seq(Name)
    PROVE  \A segs \in Seq(Segment) : Walk(at, segs) \in Seq(Name)
<1> DEFINE T == {segs \in Seq(Segment) : Walk(at, segs) \in Seq(Name)}
<1>1. <<>> \in T
  BY EmptySeq, WalkStay
<1>2. ASSUME NEW segs \in T, NEW s \in Segment PROVE Append(segs, s) \in T
  <2>1. segs \in Seq(Segment) /\ Walk(at, segs) \in Seq(Name)
    OBVIOUS
  <2>2. Append(segs, s) \in Seq(Segment)
    BY <2>1, AppendProperties
  <2>3. Walk(at, Append(segs, s)) = Descend(Walk(at, segs), s)
    BY ONLY <2>1, s \in Segment, WalkStep
  <2>4. Descend(Walk(at, segs), s) \in Seq(Name)
    BY <2>1, DescendNames
  <2> QED
    BY <2>2, <2>3, <2>4
<1>3. T = Seq(Segment)
  <2> HIDE DEF T
  <2>1. T \in SUBSET Seq(Segment)
    BY DEF T
  <2> QED
    BY <1>1, <1>2, <2>1, SequenceInduction
<1> QED
  BY <1>3

\* A walk along names only goes down.
LEMMA WalkDown ==
    ASSUME NEW at \in Seq(Name)
    PROVE  \A segs \in Seq(Name) : Walk(at, segs) = at \o segs
<1> DEFINE T == {segs \in Seq(Name) : Walk(at, segs) = at \o segs}
<1>1. <<>> \in T
  BY EmptySeq, WalkStay, ConcatEmptySeq
<1>2. ASSUME NEW segs \in T, NEW s \in Name PROVE Append(segs, s) \in T
  <2>1. segs \in Seq(Name)
    OBVIOUS
  <2>6. Walk(at, segs) = at \o segs
    OBVIOUS
  <2>2. Append(segs, s) \in Seq(Name)
    BY <2>1, AppendProperties
  <2>3. Walk(at, Append(segs, s)) = Descend(Walk(at, segs), s)
    BY ONLY <2>1, s \in Name, WalkStep
  <2>4. Descend(at \o segs, s) = Append(at \o segs, s)
    BY DescendCases DEF Name
  <2>5. at \o Append(segs, s) = Append(at \o segs, s)
    <3> HIDE DEF T
    <3> QED
      BY <2>1, AppendConcat, SMT
  <2> QED
    BY <2>6, <2>2, <2>3, <2>4, <2>5
<1>3. T = Seq(Name)
  <2> HIDE DEF T
  <2>1. T \in SUBSET Seq(Name)
    BY DEF T
  <2> QED
    BY <1>1, <1>2, <2>1, SequenceInduction
<1> QED
  BY <1>3

\* A walk along two sequences is two walks.
LEMMA WalkConcat ==
    ASSUME NEW at, NEW a \in Seq(Segment)
    PROVE  \A b \in Seq(Segment) : Walk(at, a \o b) = Walk(Walk(at, a), b)
<1> DEFINE T == {b \in Seq(Segment) : Walk(at, a \o b) = Walk(Walk(at, a), b)}
<1>1. <<>> \in T
  BY EmptySeq, WalkStay, ConcatEmptySeq
<1>2. ASSUME NEW b \in T, NEW s \in Segment PROVE Append(b, s) \in T
  <2>1. b \in Seq(Segment)
    OBVIOUS
  <2>2. a \o b \in Seq(Segment)
    BY <2>1, ConcatProperties
  <2>6. Append(b, s) \in Seq(Segment)
    BY <2>1, AppendProperties
  <2>7. Walk(at, a \o b) = Walk(Walk(at, a), b)
    OBVIOUS
  <2>3. a \o Append(b, s) = Append(a \o b, s)
    BY ONLY <2>1, a \in Seq(Segment), s \in Segment, AppendConcat
  <2>4. Walk(at, Append(a \o b, s)) = Descend(Walk(at, a \o b), s)
    <3> DEFINE c == a \o b
    <3>1. c \in Seq(Segment)
      BY <2>2
    <3> HIDE DEF T, c
    <3>2. Walk(at, Append(c, s)) = Descend(Walk(at, c), s)
      BY <3>1, WalkStep
    <3> QED
      BY <3>2 DEF c
  <2>5. Walk(Walk(at, a), Append(b, s)) = Descend(Walk(Walk(at, a), b), s)
    BY ONLY <2>1, s \in Segment, WalkStep
  <2> QED
    BY <2>6, <2>7, <2>3, <2>4, <2>5
<1>3. T = Seq(Segment)
  <2> HIDE DEF T
  <2>1. T \in SUBSET Seq(Segment)
    BY DEF T
  <2> QED
    BY <1>1, <1>2, <2>1, SequenceInduction
<1> QED
  BY <1>3

(***************************************************************************)
(* Absolute paths: cleaning one is walking it from the root.               *)
(***************************************************************************)

\* Behind names, a Push of an absolute path is a step of the walk.
LEMMA PushIsDescend ==
    ASSUME NEW w, NEW s, w # <<>> => Last(w) # Dots
    PROVE  Push(TRUE, w, s) = Descend(w, s)
<1>1. CASE s \in Skip
  BY <1>1 DEF Push, Descend, Skip
<1>2. CASE s = Dots /\ w # <<>>
  BY <1>2 DEF Push, Descend, Dots
<1>3. CASE s = Dots /\ w = <<>>
  BY <1>3 DEF Push, Descend, Dots
<1>4. CASE s \notin Skip /\ s # Dots
  BY <1>4 DEF Push, Descend, Skip, Dots
<1> QED
  BY <1>1, <1>2, <1>3, <1>4

\* So cleaning all segments of an absolute path is walking along all of them.
LEMMA CleanAbsolute ==
    \A segs \in Seq(Segment) : CleanSegs(TRUE, segs) = Walk(<<>>, segs)
<1> DEFINE T == {segs \in Seq(Segment) : CleanSegs(TRUE, segs) = Walk(<<>>, segs)}
<1>1. <<>> \in T
  BY EmptySeq, CleanNothing, WalkStay
<1>2. ASSUME NEW segs \in T, NEW s \in Segment PROVE Append(segs, s) \in T
  <2> DEFINE w == Walk(<<>>, segs)
  <2>1. segs \in Seq(Segment)
    OBVIOUS
  <2>2. CleanSegs(TRUE, segs) = w
    OBVIOUS
  <2>3. CleanSegs(TRUE, Append(segs, s)) = Push(TRUE, CleanSegs(TRUE, segs), s)
    BY ONLY <2>1, s \in Segment, CleanStep, Zenon
  <2>4. Walk(<<>>, Append(segs, s)) = Descend(w, s)
    BY ONLY <2>1, s \in Segment, WalkStep, Zenon
  <2>5. w \in Seq(Name)
    <3>1. <<>> \in Seq(Name)
      BY EmptySeq
    <3> QED
      BY <2>1, <3>1, WalkNames
  <2> HIDE DEF w, T
  <2>6. Push(TRUE, w, s) = Descend(w, s)
    <3>1. ASSUME w # <<>> PROVE Last(w) # Dots
      <4>1. PICK r \in Seq(Name), e \in Name : w = Append(r, e)
        BY <2>5, <3>1, SequenceEmptyOrAppend
      <4>2. Last(w) = e
        BY <4>1, FrontLast
      <4> QED
        BY <4>2 DEF Name
    <3> QED
      BY <3>1, PushIsDescend
  <2>7. Append(segs, s) \in Seq(Segment)
    BY <2>1, AppendProperties
  <2>8. CleanSegs(TRUE, Append(segs, s)) = Walk(<<>>, Append(segs, s))
    BY <2>2, <2>3, <2>4, <2>6
  <2> QED
    BY <2>7, <2>8 DEF T
<1>3. T = Seq(Segment)
  <2> HIDE DEF T
  <2>1. T \in SUBSET Seq(Segment)
    BY DEF T
  <2> QED
    BY <1>1, <1>2, <2>1, SequenceInduction
<1> QED
  BY <1>3

(***************************************************************************)
(* Relative paths.                                                         *)
(***************************************************************************)

\* A segment behind a clean path leaves it clean, if it is not a ".." behind a
\* name.
LEMMA AppendStacks ==
    ASSUME NEW w \in Stacks, NEW s \in Segment, s \notin Skip,
           s = Dots => w = <<>> \/ Last(w) = Dots
    PROVE  Append(w, s) \in Stacks
<1> DEFINE v == Append(w, s)
           n == Len(w)
<1>1. w \in Seq(Segment)
  BY DEF Stacks
<1>2. /\ \A i \in 1..n : w[i] \notin Skip
      /\ \A i \in 1..n : w[i] = Dots => \A j \in 1..i : w[j] = Dots
  BY DEF Stacks
<1>3. v \in Seq(Segment) /\ Len(v) = n + 1
  BY <1>1, AppendProperties
<1>4. (\A i \in 1..n : v[i] = w[i]) /\ v[n + 1] = s
  BY <1>1, AppendProperties
<1>5. n \in Nat
  BY <1>1, LenProperties
<1>6. s = Dots => \A j \in 1..n : w[j] = Dots
  <2> SUFFICES ASSUME s = Dots PROVE \A j \in 1..n : w[j] = Dots
    OBVIOUS
  <2>1. CASE w = <<>>
    BY <2>1, EmptySeq
  <2>2. CASE w # <<>>
    <3>1. n \in 1..n
      BY <1>1, <2>2, EmptySeq
    <3>2. w[n] = Dots
      BY <2>2 DEF Last
    <3> QED
      BY <1>2, <3>1, <3>2
  <2> QED
    BY <2>1, <2>2
<1> HIDE DEF v, n
<1>7. \A i \in 1..(n + 1) : v[i] \notin Skip
  <2> TAKE i \in 1..(n + 1)
  <2>1. i \in 1..n \/ i = n + 1
    BY <1>5
  <2> QED
    BY <1>2, <1>4, <2>1
<1>8. \A i \in 1..(n + 1) : v[i] = Dots => \A j \in 1..i : v[j] = Dots
  <2> TAKE i \in 1..(n + 1)
  <2> SUFFICES ASSUME v[i] = Dots, NEW j \in 1..i PROVE v[j] = Dots
    OBVIOUS
  <2>1. CASE i \in 1..n
    <3>1. j \in 1..n
      BY <1>5, <2>1
    <3> QED
      BY <1>2, <1>4, <2>1, <3>1
  <2>2. CASE i = n + 1
    <3>1. j \in 1..n \/ j = n + 1
      BY <1>5, <2>2
    <3> QED
      BY <1>4, <1>6, <2>2, <3>1
  <2> QED
    BY <1>5, <2>1, <2>2
<1>9. v \in Stacks
  BY <1>3, <1>7, <1>8 DEF Stacks
<1> QED
  BY <1>9 DEF v

\* What is before the last segment of a clean path is clean.
LEMMA FrontStacks ==
    ASSUME NEW r \in Seq(Segment), NEW e \in Segment, Append(r, e) \in Stacks
    PROVE  r \in Stacks /\ e \notin Skip
<1> DEFINE w == Append(r, e)
           n == Len(r)
<1>1. Len(w) = n + 1 /\ n \in Nat
  BY AppendProperties, LenProperties
<1>2. (\A i \in 1..n : w[i] = r[i]) /\ w[n + 1] = e
  BY AppendProperties
<1>3. /\ \A i \in 1..Len(w) : w[i] \notin Skip
      /\ \A i \in 1..Len(w) : w[i] = Dots => \A j \in 1..i : w[j] = Dots
  BY DEF Stacks
<1> HIDE DEF w
<1>4. \A i \in 1..n : r[i] \notin Skip
  BY <1>1, <1>2, <1>3
<1>5. \A i \in 1..n : r[i] = Dots => \A j \in 1..i : r[j] = Dots
  <2> TAKE i \in 1..n
  <2> SUFFICES ASSUME r[i] = Dots, NEW j \in 1..i PROVE r[j] = Dots
    OBVIOUS
  <2>1. i \in 1..Len(w) /\ j \in 1..n /\ w[i] = Dots
    BY <1>1, <1>2
  <2> QED
    BY <1>2, <1>3, <2>1
<1>6. e \notin Skip
  BY <1>1, <1>2, <1>3
<1> QED
  BY <1>4, <1>5, <1>6 DEF Stacks

\* Pushing a segment behind a clean path leaves a clean path, and walking along
\* it is walking on by that segment.
LEMMA PushRelative ==
    ASSUME NEW w \in Stacks, NEW s \in Segment, NEW at \in Seq(Name)
    PROVE  /\ Push(FALSE, w, s) \in Stacks
           /\ Walk(at, Push(FALSE, w, s)) = Descend(Walk(at, w), s)
<1>1. w \in Seq(Segment)
  BY DEF Stacks
<1>2. CASE s \in Skip
  <2>1. Push(FALSE, w, s) = w /\ Descend(Walk(at, w), s) = Walk(at, w)
    BY <1>2, PushCases, DescendCases
  <2> QED
    BY <2>1
<1>3. CASE s = Dots /\ w # <<>> /\ Last(w) # Dots
  <2>1. PICK r \in Seq(Segment), e \in Segment : w = Append(r, e)
    BY <1>1, <1>3, SequenceEmptyOrAppend
  <2>2. Front(w) = r /\ Last(w) = e
    BY <2>1, FrontLast
  <2>3. Push(FALSE, w, s) = r
    BY <1>3, <2>2, PushCases
  <2>4. r \in Stacks /\ e \notin Skip
    BY <2>1, FrontStacks
  <2>5. e \in Name
    BY <1>3, <2>2, <2>4 DEF Name
  <2>6. Walk(at, r) \in Seq(Name)
    BY WalkNames
  <2>7. Walk(at, w) = Descend(Walk(at, r), e)
    BY <2>1, WalkStep
  <2>8. Descend(Walk(at, r), e) = Append(Walk(at, r), e)
    BY <2>5, DescendCases DEF Name
  <2>9. Descend(Append(Walk(at, r), e), s) = Walk(at, r)
    <3>1. /\ Front(Append(Walk(at, r), e)) = Walk(at, r)
          /\ Append(Walk(at, r), e) # <<>>
      BY <2>5, <2>6, FrontLast
    <3> QED
      BY <1>3, <3>1, DescendCases
  <2> QED
    BY <2>3, <2>4, <2>7, <2>8, <2>9
<1>4. CASE (s = Dots /\ (w = <<>> \/ Last(w) = Dots)) \/ (s \notin Skip /\ s # Dots)
  <2>1. Push(FALSE, w, s) = Append(w, s)
    BY <1>4, PushCases
  <2>2. s \notin Skip
    BY <1>4 DEF Skip, Dots
  <2>3. Append(w, s) \in Stacks
    BY <1>4, <2>2, AppendStacks
  <2>4. Walk(at, Append(w, s)) = Descend(Walk(at, w), s)
    BY <1>1, WalkStep
  <2> QED
    BY <2>1, <2>3, <2>4
<1> QED
  BY <1>2, <1>3, <1>4

\* Cleaning a relative path keeps the place to which it leads.
LEMMA CleanRelative ==
    ASSUME NEW at \in Seq(Name)
    PROVE  \A segs \in Seq(Segment) :
               /\ CleanSegs(FALSE, segs) \in Stacks
               /\ Walk(at, CleanSegs(FALSE, segs)) = Walk(at, segs)
<1> DEFINE T == {segs \in Seq(Segment) :
                   /\ CleanSegs(FALSE, segs) \in Stacks
                   /\ Walk(at, CleanSegs(FALSE, segs)) = Walk(at, segs)}
<1>1. <<>> \in T
  <2>1. <<>> \in Seq(Segment) /\ <<>> \in Stacks
    BY EmptySeq DEF Stacks
  <2> QED
    BY <2>1, CleanNothing
<1>2. ASSUME NEW segs \in T, NEW s \in Segment PROVE Append(segs, s) \in T
  <2> DEFINE c == CleanSegs(FALSE, segs)
  <2>1. segs \in Seq(Segment)
    OBVIOUS
  <2>2. c \in Stacks
    OBVIOUS
  <2>3. Walk(at, c) = Walk(at, segs)
    OBVIOUS
  <2>4. CleanSegs(FALSE, Append(segs, s)) = Push(FALSE, c, s)
    BY ONLY <2>1, s \in Segment, CleanStep, Zenon
  <2> HIDE DEF c, T
  <2>5. /\ Push(FALSE, c, s) \in Stacks
        /\ Walk(at, Push(FALSE, c, s)) = Descend(Walk(at, c), s)
    BY <2>2, PushRelative
  <2>6. Walk(at, Append(segs, s)) = Descend(Walk(at, segs), s)
    BY <2>1, WalkStep
  <2>7. Append(segs, s) \in Seq(Segment)
    BY <2>1, AppendProperties
  <2> QED
    BY <2>3, <2>4, <2>5, <2>6, <2>7 DEF T
<1>3. T = Seq(Segment)
  <2> HIDE DEF T
  <2>1. T \in SUBSET Seq(Segment)
    BY DEF T
  <2> QED
    BY <1>1, <1>2, <2>1, SequenceInduction
<1> QED
  BY <1>3

(***************************************************************************)
(* Clean and Join keep the place to which a path leads.                    *)
(***************************************************************************)

\* Names are clean.
LEMMA NamesAreStacks == Seq(Name) \subseteq Stacks /\ Seq(Name) \subseteq Seq(Segment)
<1> SUFFICES ASSUME NEW w \in Seq(Name) PROVE w \in Stacks /\ w \in Seq(Segment)
  OBVIOUS
<1>1. Name \subseteq Segment /\ \A s \in Name : s \notin Skip /\ s # Dots
  BY DEF Name
<1>2. w \in Seq(Segment)
  BY <1>1, SeqMonotonic
<1>3. \A i \in 1..Len(w) : w[i] \in Name
  BY ElementOfSeq
<1> QED
  BY <1>1, <1>2, <1>3 DEF Stacks

\* filepath.Clean keeps the place to which a path leads, for every path and from
\* every directory; a clean absolute path has names only, a clean relative one
\* begins with its "..".
THEOREM CleanPath ==
    ASSUME NEW p \in Path, NEW cwd \in Seq(Name)
    PROVE  /\ Clean(p) \in Path /\ Clean(p).abs = p.abs
           /\ Clean(p).segs \in Stacks
           /\ p.abs => Clean(p).segs \in Seq(Name)
           /\ Place(cwd, Clean(p)) = Place(cwd, p)
           /\ Place(cwd, p) \in Seq(Name)
<1>1. p.abs \in BOOLEAN /\ p.segs \in Seq(Segment)
  BY DEF Path
<1>2. <<>> \in Seq(Name)
  BY EmptySeq
<1>3. CASE p.abs = TRUE
  <2> DEFINE w == Walk(<<>>, p.segs)
  <2>1. Clean(p) = [p EXCEPT !.segs = w]
    <3>1. CleanSegs(TRUE, p.segs) = w
      BY <1>1, CleanAbsolute
    <3> QED
      BY <1>3, <3>1 DEF Clean
  <2>2. w \in Seq(Name)
    BY <1>1, <1>2, WalkNames
  <2>3. w \in Stacks /\ w \in Seq(Segment)
    BY <2>2, NamesAreStacks
  <2>4. Walk(<<>>, w) = w
    <3>1. Walk(<<>>, w) = <<>> \o w
      BY <1>2, <2>2, WalkDown
    <3> QED
      BY <2>2, <3>1, ConcatEmptySeq
  <2> HIDE DEF w
  <2>5. Clean(p) \in Path /\ Clean(p).abs = TRUE /\ Clean(p).segs = w
    BY <1>1, <1>3, <2>1, <2>3 DEF Path
  <2>6. Place(cwd, Clean(p)) = w
    BY <2>4, <2>5 DEF Place
  <2>7. Place(cwd, p) = w
    BY <1>3 DEF Place, w
  <2> QED
    BY <1>3, <2>2, <2>3, <2>5, <2>6, <2>7
<1>4. CASE p.abs = FALSE
  <2> DEFINE w == CleanSegs(FALSE, p.segs)
  <2>1. Clean(p) = [p EXCEPT !.segs = w]
    BY <1>4 DEF Clean
  <2>2. w \in Stacks /\ Walk(cwd, w) = Walk(cwd, p.segs)
    BY <1>1, CleanRelative
  <2>3. w \in Seq(Segment)
    BY <2>2 DEF Stacks
  <2>4. Walk(cwd, p.segs) \in Seq(Name)
    BY <1>1, WalkNames
  <2> HIDE DEF w
  <2>5. Clean(p) \in Path /\ Clean(p).abs = FALSE /\ Clean(p).segs = w
    BY <1>1, <1>4, <2>1, <2>3 DEF Path
  <2>6. Place(cwd, Clean(p)) = Walk(cwd, w)
    BY <2>5 DEF Place
  <2>7. Place(cwd, p) = Walk(cwd, p.segs)
    BY <1>4 DEF Place
  <2> QED
    BY <1>4, <2>2, <2>4, <2>5, <2>6, <2>7
<1> QED
  BY <1>1, <1>3, <1>4

\* filepath.Join leads where the second path leads from the first.
THEOREM JoinPath ==
    ASSUME NEW b \in Path, NEW p \in Path, NEW cwd \in Seq(Name)
    PROVE  /\ Join(b, p) \in Path /\ Join(b, p).abs = b.abs
           /\ Join(b, p).segs \in Stacks
           /\ b.abs => Join(b, p).segs \in Seq(Name)
           /\ Place(cwd, Join(b, p)) = Walk(Place(cwd, b), p.segs)
<1> DEFINE q == [b EXCEPT !.segs = b.segs \o p.segs]
<1>1. b.abs \in BOOLEAN /\ b.segs \in Seq(Segment) /\ p.segs \in Seq(Segment)
  BY DEF Path
<1>2. b.segs \o p.segs \in Seq(Segment)
  BY <1>1, ConcatProperties
<1>3. q \in Path /\ q.abs = b.abs /\ q.segs = b.segs \o p.segs
  BY <1>1, <1>2 DEF Path
<1>4. Join(b, p) = Clean(q)
  BY DEF Join
<1> HIDE DEF q
<1>5. Place(cwd, q) = Walk(Place(cwd, b), p.segs)
  <2> DEFINE from == IF b.abs THEN <<>> ELSE cwd
  <2>1. Place(cwd, b) = Walk(from, b.segs)
    BY DEF Place
  <2>2. Place(cwd, q) = Walk(from, b.segs \o p.segs)
    BY <1>3 DEF Place
  <2> HIDE DEF from
  <2>3. Walk(from, b.segs \o p.segs) = Walk(Walk(from, b.segs), p.segs)
    BY <1>1, WalkConcat
  <2> QED
    BY <2>1, <2>2, <2>3
<1> QED
  BY <1>3, <1>4, <1>5, CleanPath

(***************************************************************************)
(* Prefixes, and what the two checks refuse.                               *)
(***************************************************************************)

\* A prefix is not longer and has the same segments.
LEMMA PrefixPointwise ==
    ASSUME NEW S, NEW d \in Seq(S), NEW t \in Seq(S)
    PROVE  IsPrefix(d, t) <=> Len(d) <= Len(t) /\ \A i \in 1..Len(d) : d[i] = t[i]
<1>1. SubSeq(d, 1, Len(d)) = d
  BY SubSeqFull
<1>2. Len(d) \in Nat /\ Len(t) \in Nat
  BY LenProperties
<1> SUFFICES ASSUME Len(d) <= Len(t)
             PROVE  d = SubSeq(t, 1, Len(d)) <=> \A i \in 1..Len(d) : d[i] = t[i]
  BY <1>1 DEF IsPrefix
<1> DEFINE f == SubSeq(t, 1, Len(d))
<1>3. f \in Seq(S) /\ Len(f) = Len(d) /\ \A i \in 1..Len(d) : f[i] = t[i]
  <2>1. \A i \in 1..Len(d) : t[i] \in S
    BY <1>2, ElementOfSeq
  <2>2. /\ f \in Seq(S)
        /\ Len(f) = IF 1 <= Len(d) THEN Len(d) - 1 + 1 ELSE 0
        /\ \A i \in 1..(Len(d) - 1 + 1) : f[i] = t[1 + i - 1]
    BY <1>2, <2>1, SubSeqProperties
  <2> QED
    BY <1>2, <2>2
<1> HIDE DEF f
<1>4. d = f => \A i \in 1..Len(d) : d[i] = t[i]
  BY <1>3
<1>5. (\A i \in 1..Len(d) : d[i] = t[i]) => d = f
  BY <1>3, SeqEqual
<1> QED
  BY <1>4, <1>5 DEF f

\* What is put behind a sequence makes it a prefix.
LEMMA PrefixConcat ==
    ASSUME NEW S, NEW a \in Seq(S), NEW u \in Seq(S)
    PROVE  IsPrefix(a, a \o u) /\ (u # <<>> => IsStrictPrefix(a, a \o u))
<1> DEFINE t == a \o u
<1>1. /\ t \in Seq(S) /\ Len(t) = Len(a) + Len(u)
      /\ \A i \in 1..(Len(a) + Len(u)) :
            t[i] = IF i <= Len(a) THEN a[i] ELSE u[i - Len(a)]
  BY ConcatProperties
<1>2. Len(a) \in Nat /\ Len(u) \in Nat
  BY LenProperties
<1>3. u # <<>> => a # t
  BY ConcatEqualIffEmpty
<1> HIDE DEF t
<1>4. Len(a) <= Len(t)
  BY <1>1, <1>2
<1>5. \A i \in 1..Len(a) : a[i] = t[i]
  <2> TAKE i \in 1..Len(a)
  <2>1. i \in 1..(Len(a) + Len(u)) /\ i <= Len(a)
    BY <1>2
  <2> QED
    BY <1>1, <2>1
<1>6. IsPrefix(a, t)
  BY <1>1, <1>4, <1>5, PrefixPointwise
<1> QED
  BY <1>3, <1>6 DEF IsStrictPrefix, t

\* A sequence is its prefix and the rest.
LEMMA PrefixSplit ==
    ASSUME NEW S, NEW a \in Seq(S), NEW t \in Seq(S), IsPrefix(a, t)
    PROVE  LET u == SubSeq(t, Len(a) + 1, Len(t))
           IN  /\ u \in Seq(S) /\ t = a \o u
               /\ Len(u) = Len(t) - Len(a)
               /\ \A i \in 1..Len(u) : u[i] = t[Len(a) + i]
<1> DEFINE u == SubSeq(t, Len(a) + 1, Len(t))
<1>1. Len(a) \in Nat /\ Len(t) \in Nat /\ Len(a) <= Len(t)
      /\ \A i \in 1..Len(a) : a[i] = t[i]
  BY LenProperties, PrefixPointwise
<1>2. u \in Seq(S) /\ Len(u) = Len(t) - Len(a) /\ \A i \in 1..Len(u) : u[i] = t[Len(a) + i]
  <2>1. \A i \in (Len(a) + 1)..Len(t) : t[i] \in S
    BY <1>1, ElementOfSeq
  <2>2. Len(a) + 1 \in Int /\ Len(t) \in Int
    BY <1>1
  <2>3. /\ u \in Seq(S)
        /\ Len(u) = IF Len(a) + 1 <= Len(t) THEN Len(t) - (Len(a) + 1) + 1 ELSE 0
        /\ \A i \in 1..(Len(t) - (Len(a) + 1) + 1) : u[i] = t[Len(a) + 1 + i - 1]
    BY <2>1, <2>2, SubSeqProperties
  <2> QED
    BY <1>1, <2>3
<1> HIDE DEF u
<1>3. /\ a \o u \in Seq(S) /\ Len(a \o u) = Len(a) + Len(u)
      /\ \A i \in 1..(Len(a) + Len(u)) :
            (a \o u)[i] = IF i <= Len(a) THEN a[i] ELSE u[i - Len(a)]
  BY <1>2, ConcatProperties
<1>4. Len(a \o u) = Len(t) /\ \A i \in 1..Len(t) : (a \o u)[i] = t[i]
  <2>1. Len(a \o u) = Len(t)
    BY <1>1, <1>2, <1>3
  <2>2. ASSUME NEW i \in 1..Len(t), i <= Len(a) PROVE (a \o u)[i] = t[i]
    BY <1>1, <1>2, <1>3, <2>2
  <2>3. ASSUME NEW i \in 1..Len(t), ~(i <= Len(a)) PROVE (a \o u)[i] = t[i]
    <3>1. i - Len(a) \in 1..Len(u) /\ Len(a) + (i - Len(a)) = i
      BY <1>1, <1>2, <2>3
    <3>2. u[i - Len(a)] = t[i]
      BY <1>2, <3>1
    <3> QED
      BY <1>1, <1>2, <1>3, <2>3, <3>2
  <2> QED
    BY <2>1, <2>2, <2>3
<1>5. t = a \o u
  BY <1>3, <1>4, SeqEqual
<1> QED
  BY <1>2, <1>5 DEF u

\* The common prefixes of two sequences.
LEMMA CommonPrefixesOfTwo ==
    ASSUME NEW S, NEW a \in Seq(S), NEW b \in Seq(S)
    PROVE  /\ \A d \in CommonPrefixes({a, b}) : d \in Seq(S) /\ IsPrefix(d, a) /\ IsPrefix(d, b)
           /\ <<>> \in CommonPrefixes({a, b})
           /\ IsPrefix(a, b) => a \in CommonPrefixes({a, b})
<1> DEFINE C == CommonPrefixes({a, b})
<1>1. \A d : d \in C <=>
        (d \in Prefixes(a) \/ d \in Prefixes(b)) /\ IsPrefix(d, a) /\ IsPrefix(d, b)
  BY DEF CommonPrefixes
<1>2. ASSUME NEW s \in Seq(S)
      PROVE  /\ \A d \in Prefixes(s) : d \in Seq(S)
             /\ <<>> \in Prefixes(s) /\ s \in Prefixes(s)
             /\ IsPrefix(<<>>, s) /\ IsPrefix(s, s)
  <2>1. Len(s) \in Nat /\ \A i \in 1..Len(s) : s[i] \in S
    BY LenProperties, ElementOfSeq
  <2>2. \A l \in 0..Len(s) : SubSeq(s, 1, l) \in Seq(S) /\ (l = 0 => SubSeq(s, 1, l) = <<>>)
    <3> TAKE l \in 0..Len(s)
    <3>1. 1 \in Int /\ l \in Int /\ \A i \in 1..l : s[i] \in S
      BY <2>1
    <3>2. /\ SubSeq(s, 1, l) \in Seq(S)
          /\ Len(SubSeq(s, 1, l)) = IF 1 <= l THEN l - 1 + 1 ELSE 0
      BY <3>1, SubSeqProperties
    <3>3. l = 0 => Len(SubSeq(s, 1, l)) = 0
      BY <3>2
    <3> QED
      BY <3>2, <3>3, EmptySeq
  <2>3. SubSeq(s, 1, Len(s)) = s
    BY SubSeqFull
  <2>4. 0 \in 0..Len(s) /\ Len(s) \in 0..Len(s)
    BY <2>1
  <2>5. <<>> \in Prefixes(s) /\ s \in Prefixes(s) /\ \A d \in Prefixes(s) : d \in Seq(S)
    <3>1. SubSeq(s, 1, 0) \in Prefixes(s)
      BY <2>4, Zenon DEF Prefixes
    <3>2. SubSeq(s, 1, Len(s)) \in Prefixes(s)
      BY <2>4, Zenon DEF Prefixes
    <3>3. \A d \in Prefixes(s) : \E l \in 0..Len(s) : d = SubSeq(s, 1, l)
      BY Zenon DEF Prefixes
    <3> QED
      BY <2>2, <2>3, <2>4, <3>1, <3>2, <3>3
  <2>6. IsPrefix(s, s)
    BY <2>1, PrefixPointwise
  <2>7. IsPrefix(<<>>, s)
    <3>1. <<>> \in Seq(S) /\ Len(<<>>) = 0
      BY EmptySeq
    <3>2. Len(<<>>) <= Len(s) /\ \A i \in 1..Len(<<>>) : <<>>[i] = s[i]
      BY <2>1, <3>1
    <3> QED
      BY <3>1, <3>2, PrefixPointwise
  <2> QED
    BY <2>5, <2>6, <2>7
<1> HIDE DEF C
<1>3. \A d \in C : d \in Seq(S) /\ IsPrefix(d, a) /\ IsPrefix(d, b)
  BY <1>1, <1>2
<1>4. <<>> \in C /\ (IsPrefix(a, b) => a \in C)
  BY <1>1, <1>2
<1> QED
  BY <1>3, <1>4 DEF C

\* The longest common prefix exists: it is what two sequences have in common,
\* and all of the first if that is a prefix of the second.
LEMMA CommonPrefix ==
    ASSUME NEW S, NEW a \in Seq(S), NEW b \in Seq(S)
    PROVE  LET n == Len(LongestCommonPrefix({a, b}))
           IN  /\ n \in Nat /\ n <= Len(a) /\ n <= Len(b)
               /\ \A i \in 1..n : a[i] = b[i]
               /\ IsPrefix(a, b) => n = Len(a)
<1> DEFINE C == CommonPrefixes({a, b})
           N == {k \in Nat : \E d \in C : k = Len(a) - Len(d)}
           c == LongestCommonPrefix({a, b})
<1>1. /\ \A d \in C : d \in Seq(S) /\ IsPrefix(d, a) /\ IsPrefix(d, b)
      /\ <<>> \in C
      /\ IsPrefix(a, b) => a \in C
  BY CommonPrefixesOfTwo
<1>2. c = CHOOSE d \in C : \A e \in C : Len(e) <= Len(d)
  BY DEF LongestCommonPrefix
<1> HIDE DEF C, c
<1>3. \A d \in C : /\ Len(d) \in Nat /\ Len(d) <= Len(a) /\ Len(d) <= Len(b)
                   /\ \A i \in 1..Len(d) : d[i] = a[i] /\ d[i] = b[i]
  <2> TAKE d \in C
  <2>1. d \in Seq(S) /\ IsPrefix(d, a) /\ IsPrefix(d, b)
    BY <1>1
  <2>2. Len(d) <= Len(a) /\ \A i \in 1..Len(d) : d[i] = a[i]
    BY <2>1, PrefixPointwise
  <2>3. Len(d) <= Len(b) /\ \A i \in 1..Len(d) : d[i] = b[i]
    BY <2>1, PrefixPointwise
  <2> QED
    BY <2>1, <2>2, <2>3, LenProperties
<1>4. Len(a) \in Nat /\ Len(b) \in Nat
  BY LenProperties
<1>5. \E d \in C : \A e \in C : Len(e) <= Len(d)
  <2>1. \A d \in C : Len(a) - Len(d) \in N
    BY <1>3, <1>4
  <2>2. N \in SUBSET Nat /\ N # {}
    BY <1>1, <2>1
  <2>3. \A k \in N : \E d \in C : k = Len(a) - Len(d)
    OBVIOUS
  <2> HIDE DEF N
  <2>4. PICK m \in N : \A k \in N : m <= k
    BY <2>2, LeastNumber
  <2>5. PICK d \in C : m = Len(a) - Len(d)
    BY <2>3, <2>4
  <2>6. \A e \in C : Len(e) <= Len(d)
    <3> TAKE e \in C
    <3>1. m <= Len(a) - Len(e)
      BY <2>1, <2>4
    <3> QED
      BY <1>3, <1>4, <2>5, <3>1
  <2> QED
    BY <2>6
<1>6. c \in C /\ \A e \in C : Len(e) <= Len(c)
  BY <1>2, <1>5
<1>7. \A i \in 1..Len(c) : a[i] = b[i]
  <2> TAKE i \in 1..Len(c)
  <2>1. c[i] = a[i] /\ c[i] = b[i]
    BY <1>3, <1>6
  <2> QED
    BY <2>1
<1>8. IsPrefix(a, b) => Len(c) = Len(a)
  <2>1. IsPrefix(a, b) => Len(a) <= Len(c)
    BY <1>1, <1>6
  <2> QED
    BY <1>3, <1>4, <1>6, <2>1
<1> QED
  BY <1>3, <1>6, <1>7, <1>8 DEF c

\* A clean sequence that does not begin with ".." has names only.
LEMMA StacksOfNames ==
    ASSUME NEW w \in Stacks, w # <<>> => w[1] # Dots
    PROVE  w \in Seq(Name)
<1>1. w \in Seq(Segment) /\ Len(w) \in Nat
  BY LenProperties DEF Stacks
<1>2. \A i \in 1..Len(w) : w[i] \in Segment /\ w[i] \notin Skip
  BY <1>1, ElementOfSeq DEF Stacks
<1>3. \A i \in 1..Len(w) : w[i] # Dots
  <2> SUFFICES ASSUME NEW i \in 1..Len(w), w[i] = Dots PROVE FALSE
    OBVIOUS
  <2>1. \A j \in 1..i : w[j] = Dots
    BY DEF Stacks
  <2>2. 1 \in 1..i
    BY <1>1
  <2>3. w # <<>>
    BY <1>1, EmptySeq
  <2> QED
    BY <2>1, <2>2, <2>3
<1>4. \A i \in 1..Len(w) : w[i] \in Name
  BY <1>2, <1>3 DEF Name
<1>5. w = [i \in 1..Len(w) |-> w[i]] /\ Len(w) \in Nat
  BY <1>1, LenProperties
<1> QED
  BY <1>1, <1>4, SeqDef

\* Rel goes up as long as something of the base is left, and only then down.
LEMMA RelShape ==
    ASSUME NEW b \in Path, NEW t \in Path
    PROVE  LET n == Len(LongestCommonPrefix({b.segs, t.segs}))
           IN  /\ n < Len(b.segs) => Rel(b, t) # <<>> /\ Head(Rel(b, t)) = Dots
               /\ n = Len(b.segs) =>
                     Rel(b, t) = SubSeq(t.segs, Len(b.segs) + 1, Len(t.segs))
<1> DEFINE a == b.segs
           s == t.segs
           n == Len(LongestCommonPrefix({a, s}))
           m == Len(a) - n
           down == SubSeq(s, n + 1, Len(s))
           up == [i \in 1..m |-> Dots]
<1>1. a \in Seq(Segment) /\ s \in Seq(Segment)
  BY DEF Path
<1>2. n \in Nat /\ n <= Len(a) /\ n <= Len(s) /\ Len(a) \in Nat /\ Len(s) \in Nat
  BY <1>1, CommonPrefix, LenProperties
<1>3. Rel(b, t) = up \o down
  BY DEF Rel, Dots
<1> HIDE DEF a, s, n
<1>4. down \in Seq(Segment)
  <2>1. \A i \in (n + 1)..Len(s) : s[i] \in Segment
    BY <1>1, <1>2, ElementOfSeq
  <2>2. n + 1 \in Int /\ Len(s) \in Int
    BY <1>2
  <2> QED
    BY <1>1, <2>1, <2>2, SubSeqProperties
<1>5. up \in Seq(Segment) /\ Len(up) = m
  <2>1. m \in Nat
    BY <1>2
  <2>2. Dots \in Segment
    BY DEF Dots, Segment
  <2> HIDE DEF m
  <2> QED
    BY <2>1, <2>2
<1>6. ASSUME n < Len(a) PROVE up \o down # <<>> /\ Head(up \o down) = Dots
  <2>1. m \in Nat \ {0} /\ up[1] = Dots
    BY <1>2, <1>6
  <2> HIDE DEF up, down, m
  <2> DEFINE rel == up \o down
  <2>2. /\ rel \in Seq(Segment) /\ Len(rel) = Len(up) + Len(down)
        /\ \A i \in 1..(Len(up) + Len(down)) :
              rel[i] = IF i <= Len(up) THEN up[i] ELSE down[i - Len(up)]
    BY <1>4, <1>5, ConcatProperties
  <2>3. Len(down) \in Nat
    BY <1>4, LenProperties
  <2> HIDE DEF rel
  <2>4. 1 \in 1..(Len(up) + Len(down)) /\ 1 <= Len(up)
    BY <1>5, <2>1, <2>3
  <2>5. rel[1] = Dots
    BY <2>1, <2>2, <2>4
  <2>6. Len(rel) # 0
    BY <1>5, <2>1, <2>2, <2>3
  <2>7. rel # <<>>
    BY <2>6, EmptySeq
  <2> QED
    BY <2>2, <2>5, <2>7, HeadTailProperties DEF rel
<1>7. ASSUME n = Len(a) PROVE up \o down = SubSeq(s, Len(a) + 1, Len(s))
  <2>1. Len(up) = 0
    BY <1>2, <1>5, <1>7
  <2> HIDE DEF up
  <2>2. up = <<>>
    BY <1>5, <2>1, EmptySeq
  <2>3. up \o down = down
    BY <1>4, <2>2, ConcatEmptySeq
  <2> QED
    BY <2>3, <1>7
<1> QED
  BY <1>3, <1>6, <1>7 DEF a, s, n

\* A directory that is not refused is the base or below it, name by name.
LEMMA WayDown ==
    ASSUME NEW b \in Path, NEW t \in Path, t.segs \in Stacks, ~TargetRefused(b, t)
    PROVE  b.abs = t.abs /\ \E u \in Seq(Name) : t.segs = b.segs \o u
<1> DEFINE a == b.segs
           s == t.segs
           n == Len(LongestCommonPrefix({a, s}))
           u == SubSeq(s, Len(a) + 1, Len(s))
<1>1. a \in Seq(Segment) /\ s \in Seq(Segment)
  BY DEF Path
<1>2. /\ n \in Nat /\ n <= Len(a) /\ n <= Len(s) /\ Len(a) \in Nat /\ Len(s) \in Nat
      /\ \A i \in 1..n : a[i] = s[i]
  <2> HIDE DEF a, s
  <2>1. Len(a) \in Nat /\ Len(s) \in Nat
    BY <1>1, LenProperties
  <2>2. n \in Nat /\ n <= Len(a) /\ n <= Len(s)
    BY <1>1, CommonPrefix
  <2>3. \A i \in 1..n : a[i] = s[i]
    BY <1>1, CommonPrefix
  <2> QED
    BY <2>1, <2>2, <2>3
<1>3. b.abs = t.abs
  BY DEF TargetRefused, RelFails
<1>4. ~(Rel(b, t) # <<>> /\ Head(Rel(b, t)) = Dots)
  BY Zenon DEF TargetRefused, Dots
<1>5. n = Len(a)
  <2>1. ~(n < Len(a))
    BY <1>4, RelShape
  <2> HIDE DEF n
  <2> QED
    BY <1>2, <2>1
<1>6. Rel(b, t) = u
  BY <1>5, RelShape
<1> HIDE DEF n
<1>7. IsPrefix(a, s)
  <2> HIDE DEF a, s
  <2> QED
    BY <1>1, <1>2, <1>5, PrefixPointwise
<1>8. /\ u \in Seq(Segment) /\ s = a \o u
      /\ Len(u) = Len(s) - Len(a)
      /\ \A i \in 1..Len(u) : u[i] = s[Len(a) + i]
  BY <1>1, <1>7, PrefixSplit
<1>9. u # <<>> => u[1] # Dots
  <2> HIDE DEF u, a, s
  <2>1. ~(u # <<>> /\ Head(u) = Dots)
    BY <1>4, <1>6
  <2>2. u # <<>> => Head(u) = u[1]
    BY <1>8, HeadTailProperties
  <2> QED
    BY <2>1, <2>2
<1>10. u \in Stacks
  <2>1. /\ \A i \in 1..Len(s) : s[i] \notin Skip
        /\ \A i \in 1..Len(s) : s[i] = Dots => \A j \in 1..i : s[j] = Dots
    BY DEF Stacks
  <2> HIDE DEF u, a, s
  <2>2. \A i \in 1..Len(u) : Len(a) + i \in 1..Len(s)
    BY <1>2, <1>8
  <2>3. \A i \in 1..Len(u) : u[i] \notin Skip
    BY <1>8, <2>1, <2>2
  <2>4. \A i \in 1..Len(u) : u[i] = Dots => \A j \in 1..i : u[j] = Dots
    <3> TAKE i \in 1..Len(u)
    <3> SUFFICES ASSUME u[i] = Dots, NEW j \in 1..i PROVE u[j] = Dots
      OBVIOUS
    <3>1. Len(u) \in Nat
      BY <1>8, LenProperties
    <3>2. j \in 1..Len(u) /\ Len(a) + j \in 1..(Len(a) + i)
      BY <1>2, <3>1
    <3>3. s[Len(a) + i] = Dots
      BY <1>8
    <3> QED
      BY <1>8, <2>1, <2>2, <3>2, <3>3
  <2> QED
    BY <1>8, <2>3, <2>4 DEF Stacks
<1>11. u \in Seq(Name)
  BY <1>9, <1>10, StacksOfNames
<1> QED
  BY <1>3, <1>8, <1>11

\* A directory below the base is not refused, if both are absolute.
LEMMA NoWayDown ==
    ASSUME NEW b \in Path, NEW t \in Path, b.abs = t.abs,
           b.segs \in Seq(Name), t.segs \in Seq(Name), TargetRefused(b, t)
    PROVE  ~IsPrefix(b.segs, t.segs)
<1> DEFINE a == b.segs
           s == t.segs
           n == Len(LongestCommonPrefix({a, s}))
           u == SubSeq(s, Len(a) + 1, Len(s))
<1> SUFFICES ASSUME IsPrefix(a, s) PROVE FALSE
  OBVIOUS
<1>1. Len(a) \in Nat /\ n = Len(a)
  BY CommonPrefix, LenProperties
<1>2. ~RelFails(b, t)
  BY <1>1 DEF RelFails
<1>3. Rel(b, t) # <<>> /\ Head(Rel(b, t)) = Dots
  BY <1>2 DEF TargetRefused, Dots
<1>4. Rel(b, t) = u
  BY <1>1, RelShape
<1>5. u \in Seq(Name)
  BY PrefixSplit
<1> HIDE DEF u
<1>6. Head(u) \in Name
  BY <1>3, <1>4, <1>5, HeadTailProperties
<1> QED
  BY <1>3, <1>4, <1>6 DEF Name

(***************************************************************************)
(* The paths of the configuration and of a request.                        *)
(***************************************************************************)

\* What a file path of the model is made of.
LEMMA Segments ==
    STRING \subseteq Segment /\ FilePath \subseteq Path /\ Directory \subseteq Seq(Name)
<1>1. STRING \subseteq Segment
  BY DEF Segment
<1>2. Seq(STRING) \subseteq Seq(Segment)
  BY <1>1, SeqMonotonic
<1>3. FilePath \subseteq Path
  BY <1>2 DEF FilePath, Path
<1>4. STRING \ {"", ".", ".."} \subseteq Name
  BY <1>1, Zenon DEF Name, Skip, Dots
<1>5. Directory \subseteq Seq(Name)
  <2> DEFINE D == STRING \ {"", ".", ".."}
  <2>1. D \subseteq Name
    BY <1>4
  <2> HIDE DEF D
  <2>2. Seq(D) \subseteq Seq(Name)
    BY <2>1, SeqMonotonic
  <2> QED
    BY <2>2 DEF Directory, D
<1> QED
  BY <1>1, <1>3, <1>5

\* The directories of the configuration are paths.
LEMMA SetupPaths ==
    ASSUME LoadedInv
    PROVE  workDir \in Path /\ uploadDir \in Path
<1>1. workDir \in Path
  BY PathAssumption, Segments DEF LoadedInv, workDir
<1>2. Relative(<<"uploads">>) \in Path
  <2>1. "uploads" \in Segment
    BY DEF Segment
  <2>2. \A s \in Segment : <<s>> \in Seq(Segment)
    OBVIOUS
  <2>3. <<"uploads">> \in Seq(Segment)
    BY <2>1, <2>2, Zenon
  <2>4. FALSE \in BOOLEAN
    OBVIOUS
  <2> HIDE DEF Segment
  <2> QED
    BY <2>3, <2>4, Zenon DEF Relative, Path
<1>3. Cwd \in Seq(Name)
  BY PathAssumption, Segments
<1>4. Join(workDir, Relative(<<"uploads">>)) \in Path
  BY <1>1, <1>2, <1>3, JoinPath
<1>5. setup.uploadDir \in Path \cup {Unset}
  BY PathAssumption, Segments DEF LoadedInv
<1> QED
  BY <1>1, <1>4, <1>5 DEF uploadDir

\* The directory that a request names leads where a process in work_dir finds it.
LEMMA TargetPath ==
    ASSUME LoadedInv, NEW r \in ExecRequest
    PROVE  /\ Target(r) \in Path /\ Target(r).segs \in Stacks
           /\ r.dir.abs \/ workDir.abs => Target(r).abs /\ Target(r).segs \in Seq(Name)
           /\ Place(Cwd, Target(r)) =
                 Place(IF r.dir.abs THEN <<>> ELSE Place(Cwd, workDir), r.dir)
<1> DEFINE asked == Clean(r.dir)
           base == Place(Cwd, workDir)
<1>1. r.dir \in Path /\ workDir \in Path /\ Cwd \in Seq(Name)
  BY PathAssumption, Segments, SetupPaths
<1>2. base \in Seq(Name)
  BY <1>1, CleanPath
<1>3. <<>> \in Seq(Name)
  BY EmptySeq
<1>4. r.dir.abs \in BOOLEAN
  BY <1>1 DEF Path
<1>5. CASE r.dir.abs = TRUE
  <2>1. /\ asked \in Path /\ asked.abs = TRUE
        /\ asked.segs \in Stacks /\ asked.segs \in Seq(Name)
    BY <1>1, <1>5, CleanPath
  <2>2. Place(Cwd, asked) = Place(Cwd, r.dir)
    BY <1>1, CleanPath
  <2>3. Target(r) = asked
    BY <2>1 DEF Target
  <2>4. Place(Cwd, r.dir) = Place(<<>>, r.dir)
    BY <1>5 DEF Place
  <2> QED
    BY <1>5, <2>1, <2>2, <2>3, <2>4
<1>6. CASE r.dir.abs = FALSE
  <2>1. asked \in Path /\ asked.abs = FALSE
    BY <1>1, <1>6, CleanPath
  <2>2. Place(base, asked) = Place(base, r.dir)
    BY <1>1, <1>2, CleanPath
  <2>3. Place(base, asked) = Walk(base, asked.segs)
    BY <2>1 DEF Place
  <2>4. Target(r) = Join(Clean(workDir), asked)
    BY <2>1 DEF Target
  <2> HIDE DEF asked
  <2>5. Clean(workDir) \in Path /\ Clean(workDir).abs = workDir.abs
        /\ Place(Cwd, Clean(workDir)) = base
    BY <1>1, CleanPath
  <2>6. /\ Target(r) \in Path /\ Target(r).abs = workDir.abs
        /\ Target(r).segs \in Stacks
        /\ workDir.abs => Target(r).segs \in Seq(Name)
        /\ Place(Cwd, Target(r)) = Walk(base, asked.segs)
    BY <1>1, <2>1, <2>4, <2>5, JoinPath
  <2> QED
    BY <1>6, <2>2, <2>3, <2>6
<1> QED
  BY <1>4, <1>5, <1>6

\* An absolute path of names leads where it says.
LEMMA AbsolutePlace ==
    ASSUME NEW p, p.abs, p.segs \in Seq(Name), NEW cwd
    PROVE  Place(cwd, p) = p.segs
<1>1. Place(cwd, p) = Walk(<<>>, p.segs)
  BY DEF Place
<1>2. Walk(<<>>, p.segs) = <<>> \o p.segs
  BY EmptySeq, WalkDown
<1> QED
  BY <1>1, <1>2, ConcatEmptySeq

\* A directory that is not refused is in work_dir, and one that is refused is
\* not, if work_dir is absolute.
LEMMA TargetRight ==
    ASSUME LoadedInv, NEW r \in ExecRequest
    PROVE  LET base  == Place(Cwd, workDir)
               asked == Place(IF r.dir.abs THEN <<>> ELSE base, r.dir)
           IN  /\ ~TargetRefused(Clean(workDir), Target(r)) => IsPrefix(base, asked)
               /\ TargetRefused(Clean(workDir), Target(r)) /\ workDir.abs => ~IsPrefix(base, asked)
<1> DEFINE base == Place(Cwd, workDir)
           asked == Place(IF r.dir.abs THEN <<>> ELSE base, r.dir)
           b == Clean(workDir)
           t == Target(r)
<1>1. workDir \in Path /\ Cwd \in Seq(Name)
  BY PathAssumption, Segments, SetupPaths
<1>2. /\ b \in Path /\ b.abs = workDir.abs
      /\ workDir.abs => b.segs \in Seq(Name)
      /\ Place(Cwd, b) = base /\ base \in Seq(Name)
  BY <1>1, CleanPath
<1>3. /\ t \in Path /\ t.segs \in Stacks
      /\ r.dir.abs \/ workDir.abs => t.abs /\ t.segs \in Seq(Name)
      /\ Place(Cwd, t) = asked
  BY TargetPath
<1> HIDE DEF base, asked, b, t
<1>4. ASSUME ~TargetRefused(b, t) PROVE IsPrefix(base, asked)
  <2>1. b.abs = t.abs
    BY <1>2, <1>3, <1>4, WayDown
  <2>2. PICK u \in Seq(Name) : t.segs = b.segs \o u
    BY <1>2, <1>3, <1>4, WayDown
  <2> DEFINE from == IF b.abs THEN <<>> ELSE Cwd
  <2>3. base = Walk(from, b.segs)
    BY <1>2 DEF Place
  <2>4. asked = Walk(from, b.segs \o u)
    BY <1>3, <2>1, <2>2 DEF Place
  <2> HIDE DEF from
  <2>5. u \in Seq(Segment) /\ b.segs \in Seq(Segment)
    BY <1>2, NamesAreStacks DEF Path
  <2>6. asked = Walk(base, u)
    BY <2>3, <2>4, <2>5, WalkConcat
  <2>7. asked = base \o u
    BY <1>2, <2>6, WalkDown
  <2> QED
    BY <1>2, <2>7, PrefixConcat
<1>5. ASSUME TargetRefused(b, t), workDir.abs PROVE ~IsPrefix(base, asked)
  <2>1. b.abs /\ t.abs /\ b.segs \in Seq(Name) /\ t.segs \in Seq(Name)
    BY <1>2, <1>3, <1>5
  <2>2. base = b.segs /\ asked = t.segs
    BY <1>2, <1>3, <2>1, AbsolutePlace
  <2>3. b.abs = t.abs
    BY <1>2, <1>3, <2>1 DEF Path
  <2> QED
    BY <1>2, <1>3, <1>5, <2>1, <2>2, <2>3, NoWayDown
<1> QED
  BY <1>4, <1>5 DEF base, asked, b, t

(***************************************************************************)
(* What Load accepts.                                                      *)
(***************************************************************************)

\* Every number of a loaded configuration is a number.
LEMMA NumbersLoaded ==
    ASSUME NEW s \in Setup
    PROVE  \A f \in Number : /\ ApplyEnv(Unmarshal(s.yaml), s.env)[f] \in Int
                             /\ Loaded(s.yaml, s.env)[f] \in Int
<1> TAKE f \in Number
<1>1. f \in Field
  BY DEF Number
<1>2. Unmarshal(s.yaml)[f] \in Int
  BY <1>1, NumberAssumption, DefaultAssumption DEF Unmarshal
<1>3. ApplyEnv(Unmarshal(s.yaml), s.env)[f] \in Int
  BY <1>1, <1>2, NumberAssumption DEF ApplyEnv
<1>4. Loaded(s.yaml, s.env)[f] \in Int
  BY <1>1, <1>3, DefaultAssumption DEF Loaded, FillIn
<1> QED
  BY <1>3, <1>4

\* A number that is filled in when it is out of range is positive afterwards.
LEMMA FilledIsPositive ==
    ASSUME NEW s \in Setup
    PROVE  \A f \in Filled : Loaded(s.yaml, s.env)[f] > 0
<1> TAKE f \in Filled
<1>1. f \in Field /\ f \in Number
  BY DEF Filled, Field, Number
<1>2. ApplyEnv(Unmarshal(s.yaml), s.env)[f] \in Int
  BY <1>1, NumbersLoaded
<1> QED
  BY <1>1, <1>2, DefaultAssumption DEF Loaded, FillIn

\* The port is taken as it is, or refused.
LEMMA PortIsPositive ==
    ASSUME NEW s \in Setup, ~LoadFails(s.yaml, s.env)
    PROVE  Loaded(s.yaml, s.env)["port"] > 0
<1>1. "port" \in Field /\ "port" \in Number /\ "port" \notin Filled
  BY DEF Filled, Field, Number
<1>2. ApplyEnv(Unmarshal(s.yaml), s.env)["port"] \in Int
  BY <1>1, NumbersLoaded
<1>3. ~(ApplyEnv(Unmarshal(s.yaml), s.env)["port"] <= 0)
  BY DEF LoadFails
<1> QED
  BY <1>1, <1>2, <1>3 DEF Loaded, FillIn

\* A variable that can be read has won, unless its value had to be replaced.
LEMMA VariableWins ==
    ASSUME NEW s \in Setup, NEW f \in Overridable,
           s.env[f] \notin {Unset, Unreadable},
           f \in Filled => s.env[f] > 0
    PROVE  Loaded(s.yaml, s.env)[f] = s.env[f]
<1>1. f \in Field
  BY DEF Overridable, Field
<1>2. ApplyEnv(Unmarshal(s.yaml), s.env)[f] = s.env[f]
  BY <1>1 DEF ApplyEnv
<1>3. CASE f \in Filled
  <2>1. f \in Number
    BY <1>3 DEF Filled, Field, Number
  <2>2. s.env[f] \in Int
    BY <2>1, NumberAssumption
  <2> QED
    BY <1>1, <1>2, <1>3, <2>2 DEF Loaded, FillIn
<1>4. CASE f \notin Filled
  BY <1>1, <1>2, <1>4 DEF Loaded, FillIn
<1> QED
  BY <1>3, <1>4

(***************************************************************************)
(* Nanoseconds in two's complement.                                        *)
(***************************************************************************)

\* The product of two positive numbers is positive.
LEMMA ProductPositive ==
    ASSUME NEW a \in Nat \ {0}, NEW b \in Nat \ {0}
    PROVE  a * b \in Nat \ {0}
OBVIOUS

\* Multiplication by a second keeps the order.
LEMMA ProductMonotone ==
    ASSUME NEW a \in Nat, NEW b \in Nat, NEW u \in Nat, a <= b
    PROVE  a * u <= b * u
OBVIOUS

\* A number below the modulus is its own remainder.
LEMMA SmallRemainder ==
    ASSUME NEW a \in Nat, NEW m \in Nat \ {0}, a < m
    PROVE  a % m = a
OBVIOUS

\* Whatever is multiplied, the outcome is a number.
LEMMA NanosecondsTyped ==
    ASSUME NEW n \in Int
    PROVE  Nanoseconds(n) \in Int
BY WidthAssumption DEF Nanoseconds

\* A time that can be counted in nanoseconds is counted right.
LEMMA NanosecondsExact ==
    ASSUME NEW n \in Nat, n * Unit < Half
    PROVE  Nanoseconds(n) = n * Unit
<1> DEFINE x == n * Unit
<1>1. x \in Nat /\ x < Half
  BY WidthAssumption
<1>2. Half \in Nat \ {0} /\ 2 * Half \in Nat \ {0} /\ x + Half \in Nat /\ x + Half < 2 * Half
  BY <1>1, WidthAssumption
<1>3. (x + Half) % (2 * Half) = x + Half
  BY <1>2, SmallRemainder
<1> QED
  BY <1>1, <1>2, <1>3 DEF Nanoseconds

(***************************************************************************)
(* The invariant.                                                          *)
(***************************************************************************)

\* Start leaves an agent that is up with what Load accepted.
LEMMA LoadedStep == LoadedInv /\ [Next]_vars => LoadedInv'
<1> SUFFICES ASSUME LoadedInv, [Next]_vars PROVE LoadedInv'
  OBVIOUS
<1>1. CASE Start
  BY <1>1 DEF Start, LoadedInv
<1>2. CASE UNCHANGED <<setup, cfg, mode>>
  BY <1>2 DEF LoadedInv
<1>3. Start \/ UNCHANGED <<setup, cfg, mode>>
  BY DEF Next, vars, Served, Exec, CreateTask, Refuse, UploadRefused, UploadPanics,
         UploadSaves, Answer
<1> QED
  BY <1>1, <1>2, <1>3

\* An answer without a command does not disturb the invariant.
LEMMA OtherAnswer ==
    ASSUME NEW r, NEW status, NEW e, Answer(r, status, e), e.op \notin {"exec", "task"}
    PROVE  EffectInv'
BY DEF Answer, EffectInv

\* Every answer leaves a command with the limit of its own request.
LEMMA EffectStep == LoadedInv /\ EffectInv /\ [Next]_vars => EffectInv'
<1> SUFFICES ASSUME LoadedInv, EffectInv, [Next]_vars PROVE EffectInv'
  OBVIOUS
<1>1. ASSUME NEW r, Refuse(r) PROVE EffectInv'
  <2>1. Nothing.op \notin {"exec", "task"}
    BY DEF Nothing
  <2> QED
    BY <1>1, <2>1, OtherAnswer DEF Refuse
<1>2. CASE Start
  <2>1. mode = "down" /\ effect' = effect
    BY <1>2 DEF Start
  <2>2. effect.op \notin {"exec", "task"}
    BY <2>1 DEF EffectInv
  <2> QED
    BY <2>1, <2>2 DEF EffectInv
<1>3. CASE Served
  BY <1>3 DEF Served, EffectInv, Nothing
<1>4. ASSUME mode = "up", NEW r \in ExecRequest, Exec(r) PROVE EffectInv'
  <2>1. CASE Refuse(r)
    BY <1>1, <2>1
  <2>2. ASSUME NEW status \in {200, 408},
               Answer(r, status, [op |-> "exec", dir |-> Target(r),
                                  limit |-> Limit(AskedTimeout(r))])
        PROVE  EffectInv'
    <3>1. mode' = "up" /\ request' = r /\ cfg' = cfg
      BY <1>4, <2>2 DEF Answer
    <3>2. effect'.op = "exec" /\ effect'.limit = Limit(AskedTimeout(r))
      BY <2>2 DEF Answer
    <3>3. (Limit(AskedTimeout(request)))' = Limit(AskedTimeout(r))
      BY <3>1 DEF Limit, AskedTimeout, Nanoseconds
    <3> QED
      BY <1>4, <3>1, <3>2, <3>3 DEF EffectInv
  <2>3. CASE Answer(r, 400, [op |-> "mkdir"])
    BY <2>3, OtherAnswer
  <2> QED
    BY <1>4, <2>1, <2>2, <2>3 DEF Exec
<1>5. ASSUME mode = "up", NEW r \in ExecRequest, CreateTask(r) PROVE EffectInv'
  <2>1. CASE Refuse(r)
    BY <1>1, <2>1
  <2>2. CASE Answer(r, 202, [op |-> "task", dir |-> Target(r),
                             limit |-> TaskLimit(AskedTimeout(r))])
    <3>1. mode' = "up" /\ request' = r /\ cfg' = cfg
      BY <1>5, <2>2 DEF Answer
    <3>2. effect'.op = "task" /\ effect'.limit = TaskLimit(AskedTimeout(r))
      BY <2>2 DEF Answer
    <3>3. (TaskLimit(AskedTimeout(request)))' = TaskLimit(AskedTimeout(r))
      BY <3>1 DEF TaskLimit, Limit, AskedTimeout, Nanoseconds
    <3> QED
      BY <1>5, <3>1, <3>2, <3>3 DEF EffectInv
  <2>3. CASE Answer(r, 429, [op |-> "refused"])
    BY <2>3, OtherAnswer
  <2>4. CASE Answer(r, 400, [op |-> "mkdir"])
    BY <2>4, OtherAnswer
  <2> QED
    BY <1>5, <2>1, <2>2, <2>3, <2>4 DEF CreateTask
<1>6. ASSUME NEW r, UploadRefused(r) \/ UploadPanics(r) \/ UploadSaves(r) PROVE EffectInv'
  <2>1. Nothing.op \notin {"exec", "task"}
    BY DEF Nothing
  <2> QED
    BY <1>6, <2>1, OtherAnswer DEF UploadRefused, UploadPanics, UploadSaves
<1>7. CASE UNCHANGED vars
  BY <1>7 DEF vars, EffectInv, TaskLimit, Limit, AskedTimeout, Nanoseconds
<1> QED
  BY <1>2, <1>3, <1>4, <1>5, <1>6, <1>7 DEF Next

\* What a request leads to does not change while the setup is the same.
LEMMA SameSetup ==
    ASSUME NEW r, setup' = setup, request' = r
    PROVE  /\ (Target(request))' = Target(r)
           /\ (GoesOn(request))' = GoesOn(r)
           /\ (TargetRefused(Clean(workDir), Target(request)))' =
                 TargetRefused(Clean(workDir), Target(r))
           /\ (SavedPath(request))' = SavedPath(r)
<1>1. workDir' = workDir
  BY DEF workDir
<1>2. (Target(request))' = Target(r)
  BY <1>1 DEF Target
<1>3. (TargetRefused(Clean(workDir), Target(request)))' = TargetRefused(Clean(workDir), Target(r))
  BY <1>1, <1>2
<1>4. uploadDir' = uploadDir
  BY <1>1 DEF uploadDir
<1>5. (SavedPath(request))' = SavedPath(r)
  BY <1>4 DEF SavedPath
<1>6. (GoesOn(request))' = GoesOn(r)
  BY <1>3 DEF GoesOn, Admitted
<1> QED
  BY <1>2, <1>3, <1>5, <1>6

\* An answer without a command, and with a good reason if it is a refusal.
LEMMA NoCommand ==
    ASSUME NEW r, NEW status, NEW e, Answer(r, status, e), e.op \notin {"exec", "task"},
           r \in ExecRequest /\ Admitted(r) /\ status = 400 /\ e.op # "mkdir" =>
              TargetRefused(Clean(workDir), Target(r))
    PROVE  DirectoryInv'
<1>1. setup' = setup /\ request' = r /\ reply' = status /\ effect' = e
  BY DEF Answer
<1>2. (TargetRefused(Clean(workDir), Target(request)))' = TargetRefused(Clean(workDir), Target(r))
  BY <1>1, SameSetup
<1>3. (Admitted(request))' = Admitted(r)
  BY <1>1
<1> QED
  BY <1>1, <1>2, <1>3 DEF DirectoryInv

\* An answer with a command in the directory of its request.
LEMMA Command ==
    ASSUME NEW r \in ExecRequest, NEW status \in {200, 408, 202}, NEW e, Answer(r, status, e),
           GoesOn(r), e.dir = Target(r)
    PROVE  DirectoryInv'
<1>1. setup' = setup /\ request' = r /\ reply' = status /\ effect' = e
  BY DEF Answer
<1>2. (Target(request))' = Target(r) /\ (GoesOn(request))' = GoesOn(r)
  BY <1>1, SameSetup
<1>3. reply' # 400
  BY <1>1
<1> QED
  BY <1>1, <1>2, <1>3 DEF DirectoryInv

\* Every answer leaves a command with the directory of its own request.
LEMMA DirectoryStep == DirectoryInv /\ [Next]_vars => DirectoryInv'
<1> SUFFICES ASSUME DirectoryInv, [Next]_vars PROVE DirectoryInv'
  OBVIOUS
<1>1. ASSUME NEW r, Refuse(r) PROVE DirectoryInv'
  <2>1. Nothing.op \notin {"exec", "task"}
    BY DEF Nothing
  <2>2. CASE ~Admitted(r) /\ Answer(r, EarlyRefusal(r), Nothing)
    BY <2>1, <2>2, NoCommand
  <2>3. CASE TargetRefused(Clean(workDir), Target(r)) /\ Answer(r, 400, Nothing)
    BY <2>1, <2>3, NoCommand
  <2> QED
    BY <1>1, <2>2, <2>3 DEF Refuse
<1>2. CASE UNCHANGED <<setup, request, reply, effect>>
  <2>1. /\ (Target(request))' = Target(request)
        /\ (GoesOn(request))' = GoesOn(request)
        /\ (TargetRefused(Clean(workDir), Target(request)))' =
              TargetRefused(Clean(workDir), Target(request))
    BY <1>2 DEF Target, GoesOn, Admitted, workDir
  <2>2. (Admitted(request))' = Admitted(request)
    BY <1>2
  <2> QED
    BY <1>2, <2>1, <2>2 DEF DirectoryInv
<1>3. CASE Served
  BY <1>3 DEF Served, DirectoryInv, Nothing
<1>4. ASSUME NEW r \in ExecRequest, Exec(r) PROVE DirectoryInv'
  <2>1. CASE Refuse(r)
    BY <1>1, <2>1
  <2>2. ASSUME GoesOn(r), NEW status \in {200, 408},
               Answer(r, status, [op |-> "exec", dir |-> Target(r),
                                  limit |-> Limit(AskedTimeout(r))])
        PROVE  DirectoryInv'
    BY <2>2, Command
  <2>3. CASE Answer(r, 400, [op |-> "mkdir"])
    BY <2>3, NoCommand
  <2> QED
    BY <1>4, <2>1, <2>2, <2>3 DEF Exec
<1>5. ASSUME NEW r \in ExecRequest, CreateTask(r) PROVE DirectoryInv'
  <2>1. CASE Refuse(r)
    BY <1>1, <2>1
  <2>2. CASE GoesOn(r) /\ Answer(r, 202, [op |-> "task", dir |-> Target(r),
                                          limit |-> TaskLimit(AskedTimeout(r))])
    BY <2>2, Command
  <2>3. CASE Answer(r, 429, [op |-> "refused"])
    BY <2>3, NoCommand
  <2>4. CASE Answer(r, 400, [op |-> "mkdir"])
    BY <2>4, NoCommand
  <2> QED
    BY <1>5, <2>1, <2>2, <2>3, <2>4 DEF CreateTask
<1>6. ASSUME NEW r \in UploadRequest, UploadRefused(r) \/ UploadPanics(r) \/ UploadSaves(r)
      PROVE  DirectoryInv'
  <2>1. r \notin ExecRequest
    BY RequestAssumption
  <2>2. PICK status, e : Answer(r, status, e) /\ e.op \notin {"exec", "task"}
    BY <1>6 DEF UploadRefused, UploadPanics, UploadSaves, Nothing
  <2> QED
    BY <2>1, <2>2, NoCommand
<1> QED
  BY <1>2, <1>3, <1>4, <1>5, <1>6 DEF Next, Start, vars

\* An answer without a file does not disturb the invariant of the uploads.
LEMMA NoFile ==
    ASSUME NEW r, NEW status, NEW e, Answer(r, status, e), e.op \notin {"saved", "outside"}
    PROVE  UploadInv'
BY DEF Answer, UploadInv

\* Every answer leaves a file where the check has seen it.
LEMMA UploadStep == UploadInv /\ [Next]_vars => UploadInv'
<1> SUFFICES ASSUME UploadInv, [Next]_vars PROVE UploadInv'
  OBVIOUS
<1>1. CASE UNCHANGED <<setup, request, reply, effect>>
  BY <1>1 DEF UploadInv, SavedPath, PathRefused, uploadDir, workDir
<1>2. CASE Served
  BY <1>2 DEF Served, UploadInv, Nothing
<1>3. ASSUME NEW r, Exec(r) \/ CreateTask(r) \/ UploadRefused(r) \/ UploadPanics(r)
      PROVE  UploadInv'
  <2>1. PICK status, e : Answer(r, status, e) /\ e.op \notin {"saved", "outside"}
    BY <1>3 DEF Exec, CreateTask, Refuse, UploadRefused, UploadPanics, Nothing
  <2> QED
    BY <2>1, NoFile
<1>4. ASSUME NEW r \in UploadRequest, UploadSaves(r) PROVE UploadInv'
  <2>1. CASE PathRefused(SavedPath(r)) /\ Answer(r, 400, [op |-> "outside"])
    <3>1. setup' = setup /\ request' = r /\ effect'.op = "outside"
      BY <2>1 DEF Answer
    <3>2. (SavedPath(request))' = SavedPath(r) /\ uploadDir' = uploadDir
      BY <3>1, SameSetup DEF uploadDir, workDir
    <3>3. (PathRefused(SavedPath(request)))' = PathRefused(SavedPath(r))
      BY <3>2 DEF PathRefused
    <3> QED
      BY <2>1, <3>1, <3>3 DEF UploadInv
  <2>2. CASE ~PathRefused(SavedPath(r)) /\ Answer(r, 200, [op |-> "saved", path |-> SavedPath(r)])
    <3>1. /\ setup' = setup /\ request' = r
          /\ effect'.op = "saved" /\ effect'.path = SavedPath(r)
      BY <2>2 DEF Answer
    <3>2. (SavedPath(request))' = SavedPath(r) /\ uploadDir' = uploadDir
      BY <3>1, SameSetup DEF uploadDir, workDir
    <3>3. (PathRefused(effect.path))' = PathRefused(SavedPath(r))
      BY <3>1, <3>2 DEF PathRefused
    <3> QED
      BY <2>2, <3>1, <3>2, <3>3 DEF UploadInv
  <2>3. CASE Answer(r, 409, [op |-> "exists"])
    BY <2>3, NoFile
  <2>4. CASE Answer(r, 500, [op |-> "io"])
    BY <2>4, NoFile
  <2> QED
    BY <1>4, <2>1, <2>2, <2>3, <2>4 DEF UploadSaves
<1> QED
  BY <1>1, <1>2, <1>3, <1>4 DEF Next, Start, vars

\* The conjunction is inductive.
THEOREM Invariance == Spec => []IndInv
<1>1. Init => IndInv
  BY DEF Init, IndInv, LoadedInv, EffectInv, DirectoryInv, UploadInv, Nothing
<1>2. IndInv /\ [Next]_vars => IndInv'
  BY LoadedStep, EffectStep, DirectoryStep, UploadStep DEF IndInv
<1> QED
  BY <1>1, <1>2, PTL DEF Spec

(***************************************************************************)
(* The properties.                                                         *)
(***************************************************************************)

\* An agent that starts has positive numbers, and the environment has won where
\* it could be read, whatever stands in the file and in the environment.
THEOREM ConfigIsSound == Spec => []ConfigSound
<1>1. IndInv => ConfigSound
  <2> SUFFICES ASSUME IndInv, mode = "up" PROVE ConfigSound
    BY DEF ConfigSound
  <2>1. setup \in Setup /\ ~LoadFails(setup.yaml, setup.env)
        /\ cfg = Loaded(setup.yaml, setup.env)
    BY DEF IndInv, LoadedInv
  <2>2. \A f \in Filled : cfg[f] > 0
    BY <2>1, FilledIsPositive
  <2>3. cfg["port"] > 0
    BY <2>1, PortIsPositive
  <2>4. \A f \in Overridable :
           setup.env[f] \notin {Unset, Unreadable} /\ (f \in Filled => setup.env[f] > 0)
              => cfg[f] = setup.env[f]
    BY <2>1, VariableWins
  <2> QED
    BY <2>2, <2>3, <2>4 DEF ConfigSound
<1> QED
  BY <1>1, Invariance, PTL

\* The limits of a configuration that is up and fits are counted right.
LEMMA LimitsCounted ==
    ASSUME IndInv, mode = "up",
           cfg.defaultTimeout * Unit < Half, cfg.maxTimeout * Unit < Half
    PROVE  /\ cfg.defaultTimeout \in Nat \ {0} /\ cfg.maxTimeout \in Nat \ {0}
           /\ Nanoseconds(cfg.defaultTimeout) \in Nat \ {0}
           /\ Nanoseconds(cfg.maxTimeout) = cfg.maxTimeout * Unit
           /\ Nanoseconds(cfg.maxTimeout) \in Nat \ {0}
<1>1. setup \in Setup /\ cfg = Loaded(setup.yaml, setup.env)
  BY DEF IndInv, LoadedInv
<1>2. {"defaultTimeout", "maxTimeout"} \subseteq Filled \cap Number
  BY DEF Filled, Number, Field
<1>3. cfg.defaultTimeout \in Nat \ {0} /\ cfg.maxTimeout \in Nat \ {0}
  BY <1>1, <1>2, NumbersLoaded, FilledIsPositive
<1>4. cfg.defaultTimeout * Unit \in Nat \ {0} /\ cfg.maxTimeout * Unit \in Nat \ {0}
  BY <1>3, ProductPositive, WidthAssumption
<1>5. /\ Nanoseconds(cfg.defaultTimeout) = cfg.defaultTimeout * Unit
      /\ Nanoseconds(cfg.maxTimeout) = cfg.maxTimeout * Unit
  BY <1>3, NanosecondsExact
<1> QED
  BY <1>3, <1>4, <1>5

\* A time that a request asks for and the agent allows is counted right.
LEMMA AskedCounted ==
    ASSUME NEW n \in Nat \ {0}, NEW m \in Nat \ {0}, n <= m, m * Unit < Half
    PROVE  Nanoseconds(n) = n * Unit /\ n * Unit \in Nat \ {0} /\ n * Unit <= m * Unit
<1>1. n * Unit \in Nat \ {0} /\ m * Unit \in Nat /\ n * Unit <= m * Unit
  BY WidthAssumption, ProductPositive, ProductMonotone
<1>2. n * Unit < Half
  BY <1>1, WidthAssumption
<1> QED
  BY <1>1, <1>2, NanosecondsExact

\* A command has a positive limit of at most max_timeout, and exactly what it
\* asks for when that is less, also as a task, at every width of the integers
\* at which the configured times can be counted.
THEOREM LimitIsRight == Spec => []LimitRight
<1>1. IndInv => LimitRight
  <2> DEFINE most == cfg.maxTimeout * Unit
             t == AskedTimeout(request)
  <2> SUFFICES ASSUME IndInv, effect.op \in {"exec", "task"},
                      cfg.defaultTimeout * Unit < Half, most < Half
               PROVE  /\ effect.op = "exec" => effect.limit \in 1..most
                      /\ request.timeout \in 1..cfg.maxTimeout
                            => effect.limit = request.timeout * Unit
    BY DEF LimitRight
  <2>1. mode = "up" /\ request.timeout \in Int
    BY NumberAssumption DEF IndInv, EffectInv
  <2>2. /\ cfg.maxTimeout \in Nat \ {0}
        /\ Nanoseconds(cfg.defaultTimeout) \in Nat \ {0}
        /\ Nanoseconds(cfg.maxTimeout) = most
        /\ most \in Nat \ {0}
    BY <2>1, LimitsCounted
  <2>3. t \in Int
    BY <2>1, NanosecondsTyped DEF AskedTimeout
  <2>4. Limit(t) \in 1..most
    <3> HIDE DEF t, most
    <3> QED
      BY <2>2, <2>3 DEF Limit
  <2>5. ASSUME request.timeout \in 1..cfg.maxTimeout
        PROVE  /\ t = request.timeout * Unit
               /\ Limit(t) = t /\ TaskLimit(t) = t
    <3>1. request.timeout \in Nat \ {0} /\ request.timeout <= cfg.maxTimeout
      BY <2>2, <2>5
    <3>2. /\ Nanoseconds(request.timeout) = request.timeout * Unit
          /\ request.timeout * Unit \in Nat \ {0}
          /\ request.timeout * Unit <= most
      BY <3>1, <2>2, AskedCounted
    <3>3. t = request.timeout * Unit
      BY <3>1, <3>2 DEF AskedTimeout
    <3>4. t \in Nat \ {0} /\ t <= most
      BY <3>2, <3>3
    <3> HIDE DEF t, most
    <3>5. Limit(t) = t
      BY <2>2, <3>4 DEF Limit
    <3>6. TaskLimit(t) = t
      BY <3>4, <3>5 DEF TaskLimit
    <3> QED
      BY <3>3, <3>5, <3>6
  <2>6. CASE effect.op = "exec"
    <3>1. effect.limit = Limit(t)
      BY <2>6 DEF IndInv, EffectInv
    <3> QED
      BY <3>1, <2>4, <2>5
  <2>7. CASE effect.op = "task"
    <3>1. effect.limit = TaskLimit(t)
      BY <2>7 DEF IndInv, EffectInv
    <3> QED
      BY <3>1, <2>5, <2>7
  <2> QED
    BY <2>6, <2>7
<1> QED
  BY <1>1, Invariance, PTL

\* A command that asks for more than max_timeout gets max_timeout, as long as
\* what it asks for can be counted: so the overflow that LongTimeoutCapped falls
\* to is the only exception.
THEOREM CountedTimeoutsAreCapped ==
    Spec => [](effect.op = "exec" /\ request.timeout > cfg.maxTimeout
                   /\ request.timeout * Unit < Half /\ cfg.defaultTimeout * Unit < Half
               => effect.limit = cfg.maxTimeout * Unit)
<1>1. ASSUME IndInv, effect.op = "exec", request.timeout > cfg.maxTimeout,
             request.timeout * Unit < Half, cfg.defaultTimeout * Unit < Half
      PROVE  effect.limit = cfg.maxTimeout * Unit
  <2> DEFINE n == request.timeout
             m == cfg.maxTimeout
             t == AskedTimeout(request)
  <2>1. mode = "up" /\ n \in Int
    BY <1>1, NumberAssumption DEF IndInv, EffectInv
  <2>2. m \in Nat \ {0}
    <3>1. "maxTimeout" \in Filled \cap Number
      BY DEF Filled, Number, Field
    <3> QED
      BY <1>1, <2>1, <3>1, NumbersLoaded, FilledIsPositive DEF IndInv, LoadedInv
  <2>3. n \in Nat \ {0} /\ m <= n
    BY <1>1, <2>1, <2>2
  <2>4. m * Unit < Half
    <3>1. m * Unit \in Nat /\ n * Unit \in Nat /\ m * Unit <= n * Unit
      BY <2>2, <2>3, WidthAssumption, ProductMonotone, ProductPositive
    <3> QED
      BY <1>1, <3>1, WidthAssumption
  <2>5. Nanoseconds(m) = m * Unit
    BY <1>1, <2>1, <2>4, LimitsCounted
  <2>6. n <= n /\ n \in Int
    BY <2>3
  <2>7. /\ Nanoseconds(n) = n * Unit /\ n * Unit \in Nat \ {0}
        /\ m * Unit \in Nat /\ m * Unit <= n * Unit
    BY <1>1, <2>2, <2>3, <2>6, AskedCounted, WidthAssumption, ProductMonotone, ProductPositive
  <2>8. t = n * Unit
    BY <2>3, <2>7 DEF AskedTimeout
  <2>9. effect.limit = Limit(t)
    BY <1>1 DEF IndInv, EffectInv
  <2>10. Limit(t) = m * Unit
    <3>1. t \in Nat \ {0} /\ Nanoseconds(m) \in Nat /\ Nanoseconds(m) <= t
      BY <2>5, <2>7, <2>8
    <3> HIDE DEF t
    <3> QED
      BY <2>5, <3>1 DEF Limit
  <2> QED
    BY <2>9, <2>10
<1> QED
  BY <1>1, Invariance, PTL

\* A command runs in the directory that its request names, as the operating
\* system would find it, and that is inside work_dir; if work_dir is absolute, no
\* directory inside it is refused.  For every path, every work_dir and every
\* working directory of the agent.
THEOREM WorkDirIsRight == Spec => []WorkDirRight
<1>1. IndInv => WorkDirRight
  <2> DEFINE base  == Place(Cwd, workDir)
             asked == Place(IF request.dir.abs THEN <<>> ELSE base, request.dir)
  <2> SUFFICES ASSUME IndInv, request \in ExecRequest
               PROVE  /\ effect.op \in {"exec", "task"} =>
                            IsPrefix(base, asked) /\ Place(Cwd, effect.dir) = asked
                      /\ workDir.abs /\ Admitted(request) /\ reply = 400 /\ effect.op # "mkdir"
                            => ~IsPrefix(base, asked)
    BY DEF WorkDirRight, IndInv, DirectoryInv
  <2>1. LoadedInv /\ DirectoryInv
    BY DEF IndInv
  <2>2. Place(Cwd, Target(request)) = asked
    BY <2>1, TargetPath
  <2>3. /\ ~TargetRefused(Clean(workDir), Target(request)) => IsPrefix(base, asked)
        /\ TargetRefused(Clean(workDir), Target(request)) /\ workDir.abs => ~IsPrefix(base, asked)
    BY <2>1, TargetRight
  <2> HIDE DEF base, asked
  <2>4. ASSUME effect.op \in {"exec", "task"}
        PROVE  IsPrefix(base, asked) /\ Place(Cwd, effect.dir) = asked
    <3>1. GoesOn(request) /\ effect.dir = Target(request)
      BY <2>1, <2>4 DEF DirectoryInv
    <3> QED
      BY <3>1, <2>2, <2>3 DEF GoesOn
  <2>5. ASSUME workDir.abs, Admitted(request), reply = 400, effect.op # "mkdir"
        PROVE  ~IsPrefix(base, asked)
    BY <2>1, <2>3, <2>5 DEF DirectoryInv
  <2> QED
    BY <2>4, <2>5
<1> QED
  BY <1>1, Invariance, PTL

\* Where an upload goes, and its directory.
LEMMA UploadPaths ==
    ASSUME LoadedInv, NEW r \in UploadRequest
    PROVE  /\ uploadDir \in Path /\ Cwd \in Seq(Name)
           /\ SavedPath(r) \in Path /\ SavedPath(r).abs = uploadDir.abs
           /\ SavedPath(r).segs \in Stacks
           /\ uploadDir.abs => SavedPath(r).segs \in Seq(Name)
<1>1. uploadDir \in Path /\ Cwd \in Seq(Name)
  BY SetupPaths, PathAssumption, Segments
<1>2. Relative(r.id) \in Path
  <2>1. r.id \in Seq(STRING) /\ STRING \subseteq Segment
    BY PathAssumption, Segments
  <2>2. r.id \in Seq(Segment)
    BY <2>1, SeqMonotonic
  <2>3. FALSE \in BOOLEAN
    OBVIOUS
  <2> QED
    BY <2>2, <2>3, Zenon DEF Relative, Path
<1> QED
  BY <1>1, <1>2, JoinPath DEF SavedPath

\* No setting leads the uploads above the directory that they are relative to.
NoParent == \A s \in Setup :
    LET dir == IF s.uploadDir = Unset THEN Join(s.workDir, Relative(<<"uploads">>)) ELSE s.uploadDir
        w   == Clean(dir).segs
    IN  w # <<>> => w[1] # ".."

\* Every upload directory is absolute.
AllAbsolute == \A s \in Setup : IF s.uploadDir = Unset THEN s.workDir.abs ELSE s.uploadDir.abs

\* A path that passes the prefix test is below, unless the directory is above.
LEMMA SavedBelow ==
    ASSUME LoadedInv, NEW r \in UploadRequest, ~PathRefused(SavedPath(r)),
           LET w == Clean(uploadDir).segs IN w # <<>> => w[1] # Dots
    PROVE  IsStrictPrefix(Place(Cwd, uploadDir), Place(Cwd, SavedPath(r)))
<1> DEFINE d == Clean(uploadDir)
           p == SavedPath(r)
           from == IF d.abs THEN <<>> ELSE Cwd
<1>1. /\ uploadDir \in Path /\ Cwd \in Seq(Name)
      /\ p \in Path /\ p.abs = uploadDir.abs /\ p.segs \in Stacks
  BY UploadPaths
<1>2. /\ d \in Path /\ d.abs = uploadDir.abs /\ d.segs \in Stacks
      /\ Place(Cwd, d) = Place(Cwd, uploadDir)
  BY <1>1, CleanPath
<1>3. d.segs # <<>> /\ d.segs[1] # Dots /\ IsStrictPrefix(d.segs, p.segs)
  BY DEF PathRefused
<1> HIDE DEF d, p
<1>4. d.segs \in Seq(Name)
  BY <1>2, <1>3, StacksOfNames
<1>5. p.segs \in Seq(Name)
  <2>1. d.segs \in Seq(Segment) /\ p.segs \in Seq(Segment)
    BY <1>1, <1>2 DEF Path
  <2>2. Len(d.segs) <= Len(p.segs) /\ \A i \in 1..Len(d.segs) : d.segs[i] = p.segs[i]
    BY <1>3, <2>1, PrefixPointwise DEF IsStrictPrefix
  <2>3. Len(d.segs) \in Nat \ {0}
    BY <1>3, <2>1, EmptySeq
  <2>4. p.segs[1] # Dots
    BY <1>3, <2>2, <2>3
  <2> QED
    BY <1>1, <2>4, StacksOfNames
<1>6. PICK u \in Seq(Name) : p.segs = d.segs \o u
  <2> DEFINE v == SubSeq(p.segs, Len(d.segs) + 1, Len(p.segs))
  <2>1. IsPrefix(d.segs, p.segs)
    BY <1>3 DEF IsStrictPrefix
  <2>2. v \in Seq(Name) /\ p.segs = d.segs \o v
    BY <1>4, <1>5, <2>1, PrefixSplit
  <2> HIDE DEF v
  <2> QED
    BY <2>2
<1>7. u # <<>>
  BY <1>3, <1>4, <1>6, ConcatEmptySeq DEF IsStrictPrefix
<1>8. from \in Seq(Name)
  BY <1>1, EmptySeq
<1>9. Place(Cwd, uploadDir) = Walk(from, d.segs) /\ Place(Cwd, p) = Walk(from, p.segs)
  BY <1>1, <1>2 DEF Place
<1> HIDE DEF from
<1> DEFINE base == from \o d.segs
<1>10. Place(Cwd, uploadDir) = base /\ base \in Seq(Name)
  BY <1>4, <1>8, <1>9, WalkDown, ConcatProperties
<1>11. Place(Cwd, p) = base \o u
  <2>1. Place(Cwd, p) = from \o p.segs
    BY <1>5, <1>8, <1>9, WalkDown
  <2> DEFINE e == d.segs
  <2>2. e \in Seq(Name)
    BY <1>4
  <2> HIDE DEF e
  <2>3. from \o (e \o u) = (from \o e) \o u
    BY <1>8, <2>2, ConcatAssociative
  <2> QED
    BY <1>6, <2>1, <2>3 DEF e
<1> HIDE DEF base
<1> QED
  BY <1>7, <1>10, <1>11, PrefixConcat DEF p

\* A file is stored below the upload directory, wherever the request id leads, if
\* the clean form of the upload directory does not begin with "..".
THEOREM SavedIsBelow ==
    NoParent /\ Spec =>
        [](effect.op = "saved" => IsStrictPrefix(Place(Cwd, uploadDir), Place(Cwd, effect.path)))
<1> SUFFICES ASSUME NoParent
             PROVE  Spec => [](effect.op = "saved" =>
                               IsStrictPrefix(Place(Cwd, uploadDir), Place(Cwd, effect.path)))
  OBVIOUS
<1>1. IndInv =>
        (effect.op = "saved" => IsStrictPrefix(Place(Cwd, uploadDir), Place(Cwd, effect.path)))
  <2> SUFFICES ASSUME IndInv, effect.op = "saved"
               PROVE  IsStrictPrefix(Place(Cwd, uploadDir), Place(Cwd, effect.path))
    OBVIOUS
  <2>1. /\ LoadedInv /\ setup \in Setup
        /\ request \in UploadRequest /\ effect.path = SavedPath(request)
        /\ ~PathRefused(effect.path)
    BY DEF IndInv, LoadedInv, UploadInv
  <2>2. LET w == Clean(uploadDir).segs IN w # <<>> => w[1] # Dots
    BY <2>1 DEF NoParent, uploadDir, workDir, Dots
  <2> QED
    BY <2>1, <2>2, SavedBelow
<1> QED
  BY <1>1, Invariance, PTL

\* A file is stored below the upload directory and no other upload is refused for
\* its path, if the upload directory is absolute.
THEOREM UploadIsRight == AllAbsolute /\ Spec => []UploadRight
<1> SUFFICES ASSUME AllAbsolute PROVE Spec => []UploadRight
  OBVIOUS
<1>1. IndInv => UploadRight
  <2> SUFFICES ASSUME IndInv PROVE UploadRight
    OBVIOUS
  <2>1. LoadedInv /\ setup \in Setup /\ UploadInv
    BY DEF IndInv, LoadedInv
  <2>2. uploadDir.abs
    <3>1. CASE setup.uploadDir = Unset
      <4>1. setup.workDir.abs
        BY <2>1, <3>1 DEF AllAbsolute
      <4>2. uploadDir.abs = workDir.abs
        BY <3>1 DEF uploadDir, Join, Clean
      <4> QED
        BY <4>1, <4>2 DEF workDir
    <3>2. CASE setup.uploadDir # Unset
      BY <2>1, <3>2 DEF AllAbsolute, uploadDir
    <3> QED
      BY <3>1, <3>2
  <2> DEFINE d == Clean(uploadDir)
  <2>3. ASSUME NEW r \in UploadRequest
        PROVE  /\ Place(Cwd, uploadDir) = d.segs /\ Place(Cwd, SavedPath(r)) = SavedPath(r).segs
               /\ SavedPath(r).abs = d.abs
    <3>1. /\ uploadDir \in Path /\ Cwd \in Seq(Name)
          /\ SavedPath(r).abs = uploadDir.abs /\ SavedPath(r).segs \in Seq(Name)
      BY <2>1, <2>2, UploadPaths
    <3>2. d.abs = uploadDir.abs /\ d.segs \in Seq(Name) /\ Place(Cwd, d) = Place(Cwd, uploadDir)
      BY <2>2, <3>1, CleanPath
    <3> HIDE DEF d
    <3> QED
      BY <2>2, <3>1, <3>2, AbsolutePlace
  <2>4. ASSUME effect.op = "saved"
        PROVE  IsStrictPrefix(Place(Cwd, uploadDir), Place(Cwd, effect.path))
    <3>1. request \in UploadRequest /\ effect.path = SavedPath(request) /\ ~PathRefused(effect.path)
      BY <2>1, <2>4 DEF UploadInv
    <3> QED
      BY <2>3, <3>1 DEF PathRefused
  <2>5. ASSUME effect.op = "outside", d.segs # <<>>
        PROVE  ~IsStrictPrefix(Place(Cwd, uploadDir), Place(Cwd, SavedPath(request)))
    <3>1. request \in UploadRequest /\ PathRefused(SavedPath(request))
      BY <2>1, <2>5 DEF UploadInv
    <3> QED
      BY <2>3, <2>5, <3>1 DEF PathRefused
  <2> QED
    BY <2>4, <2>5 DEF UploadRight
<1> QED
  BY <1>1, Invariance, PTL
=============================================================================
