------------------------ MODULE GovernedWork_proofs ------------------------
(***************************************************************************)
(* Theorems about GovernedWork, for any sets of items and dialogs and any  *)
(* numbers of inputs and faults: types and loads under way, that the panel *)
(* never goes back to an older revision while the state file is not behind *)
(* the environment, and that in the end it shows what is selected, as it   *)
(* is.                                                                     *)
(***************************************************************************)
EXTENDS GovernedWork, SequenceTheorems, FiniteSetTheorems, TLAPS

USE ItemAssumption, DialogAssumption, BoundAssumption
-----------------------------------------------------------------------------
(* Sequences without duplicates.                                           *)
Before(e, f, q) == \E j, k \in DOMAIN q : j < k /\ q[j] = e /\ q[k] = f

LEMMA MemberType ==
  ASSUME NEW S, NEW q \in Seq(S), NEW k \in DOMAIN q
  PROVE  q[k] \in S /\ k \in Nat \ {0} /\ DOMAIN q = 1..Len(q) /\ Contains(q, q[k])
BY ElementOfSeq, LenProperties DEF Contains

LEMMA TailFacts ==
  ASSUME NEW S, NEW q \in Seq(S), q # <<>>
  PROVE  /\ Head(q) \in S /\ Head(q) = q[1] /\ 1 \in DOMAIN q
         /\ Tail(q) \in Seq(S)
         /\ \A k \in DOMAIN Tail(q) :
              k \in Nat \ {0} /\ k + 1 \in DOMAIN q /\ Tail(q)[k] = q[k + 1]
         /\ \A k \in DOMAIN q : k = 1 \/ (k - 1 \in DOMAIN Tail(q) /\ Tail(q)[k - 1] = q[k])
BY HeadTailProperties, LenProperties, EmptySeq

(* What is left when the first is taken away.                              *)
LEMMA Shorter ==
  ASSUME NEW S, NEW q \in Seq(S), q # <<>>, IsInjective(q)
  PROVE  /\ IsInjective(Tail(q)) /\ Contains(q, Head(q)) /\ ~ Contains(Tail(q), Head(q))
         /\ \A e : Contains(Tail(q), e) <=> Contains(q, e) /\ e # Head(q)
         /\ \A e : ~ Before(e, Head(q), q)
         /\ \A e, f : Before(e, f, q) /\ e # Head(q) => Before(e, f, Tail(q))
<1>1. DOMAIN q = 1..Len(q) /\ Len(q) \in Nat /\ Tail(q) \in Seq(S)
      /\ DOMAIN Tail(q) = 1..Len(Tail(q)) /\ Len(Tail(q)) \in Nat
  BY TailFacts, LenProperties
<1>2. /\ Head(q) = q[1] /\ 1 \in DOMAIN q
      /\ \A k \in DOMAIN Tail(q) :
           k \in Nat \ {0} /\ k + 1 \in DOMAIN q /\ Tail(q)[k] = q[k + 1]
      /\ \A k \in DOMAIN q : k = 1 \/ (k - 1 \in DOMAIN Tail(q) /\ Tail(q)[k - 1] = q[k])
  BY TailFacts
<1>3. IsInjective(Tail(q))
  BY <1>1, <1>2 DEF IsInjective
<1>4. Contains(q, Head(q)) /\ ~ Contains(Tail(q), Head(q))
  BY <1>1, <1>2 DEF IsInjective, Contains
<1>5. ASSUME NEW e PROVE Contains(Tail(q), e) <=> Contains(q, e) /\ e # Head(q)
  <2>1. ASSUME Contains(Tail(q), e) PROVE Contains(q, e)
    BY <1>1, <1>2, <2>1 DEF Contains
  <2>2. ASSUME Contains(q, e), e # Head(q) PROVE Contains(Tail(q), e)
    BY <1>1, <1>2, <2>2 DEF Contains
  <2>. QED BY <1>4, <2>1, <2>2
<1>6. ASSUME NEW e PROVE ~ Before(e, Head(q), q)
  BY <1>1, <1>2 DEF Before, IsInjective
<1>7. ASSUME NEW e, NEW f, Before(e, f, q), e # Head(q)
      PROVE  Before(e, f, Tail(q))
  <2>1. PICK j \in DOMAIN q, k \in DOMAIN q : j < k /\ q[j] = e /\ q[k] = f
    BY <1>7 DEF Before
  <2>2. j - 1 \in DOMAIN Tail(q) /\ k - 1 \in DOMAIN Tail(q) /\ j - 1 < k - 1
        /\ Tail(q)[j - 1] = e /\ Tail(q)[k - 1] = f
    BY <1>1, <1>2, <1>7, <2>1
  <2>. QED BY <2>2 DEF Before
<1>. QED BY <1>3, <1>4, <1>5, <1>6, <1>7

(* What there is when others are added behind.                             *)
LEMMA Longer ==
  ASSUME NEW S, NEW q \in Seq(S), NEW r \in Seq(S), IsInjective(q), IsInjective(r),
         \A e : Contains(r, e) => ~ Contains(q, e)
  PROVE  /\ q \o r \in Seq(S) /\ IsInjective(q \o r)
         /\ \A e : Contains(q \o r, e) <=> Contains(q, e) \/ Contains(r, e)
         /\ \A e, f : Before(e, f, q) => Before(e, f, q \o r)
         /\ \A e, f : Contains(q, e) /\ Contains(r, f) => Before(e, f, q \o r)
<1>. DEFINE s == q \o r
<1>1. /\ Len(q) \in Nat /\ DOMAIN q = 1..Len(q) /\ Len(r) \in Nat /\ DOMAIN r = 1..Len(r)
      /\ s \in Seq(S) /\ DOMAIN s = 1..Len(s) /\ Len(s) = Len(q) + Len(r)
  BY ConcatProperties, LenProperties
<1>2. /\ \A k \in 1..Len(q) : k \in 1..Len(s) /\ s[k] = q[k]
      /\ \A k \in 1..Len(r) : Len(q) + k \in 1..Len(s) /\ s[Len(q) + k] = r[k]
      /\ \A k \in 1..Len(s) : \/ k \in 1..Len(q) /\ s[k] = q[k]
                              \/ k - Len(q) \in 1..Len(r) /\ s[k] = r[k - Len(q)]
  BY <1>1, ConcatProperties
<1>. HIDE DEF s
<1>3. ASSUME NEW e PROVE Contains(s, e) <=> Contains(q, e) \/ Contains(r, e)
  <2>1. ASSUME Contains(s, e) PROVE Contains(q, e) \/ Contains(r, e)
    <3>1. PICK k \in 1..Len(s) : s[k] = e
      BY <2>1 DEF Contains
    <3>2. CASE k \in 1..Len(q) /\ s[k] = q[k]
      BY <3>1, <3>2 DEF Contains
    <3>3. CASE k - Len(q) \in 1..Len(r) /\ s[k] = r[k - Len(q)]
      BY <3>1, <3>3 DEF Contains
    <3>. QED BY <1>2, <3>2, <3>3
  <2>2. ASSUME Contains(q, e) \/ Contains(r, e) PROVE Contains(s, e)
    BY <1>2, <2>2 DEF Contains
  <2>. QED BY <2>1, <2>2
<1>4. ASSUME NEW j \in 1..Len(s), NEW k \in 1..Len(s), s[j] = s[k]
      PROVE  j = k
  <2>1. CASE j \in 1..Len(q) /\ k \in 1..Len(q) /\ s[j] = q[j] /\ s[k] = q[k]
    BY <1>1, <1>4, <2>1 DEF IsInjective
  <2>2. CASE /\ j - Len(q) \in 1..Len(r) /\ k - Len(q) \in 1..Len(r)
             /\ s[j] = r[j - Len(q)] /\ s[k] = r[k - Len(q)]
    <3>1. j - Len(q) = k - Len(q)
      BY <1>1, <1>4, <2>2 DEF IsInjective
    <3>. QED BY <1>1, <3>1
  <2>3. ASSUME NEW l \in 1..Len(q), NEW m \in 1..Len(r), q[l] = r[m]
        PROVE  FALSE
    BY <2>3 DEF Contains
  <2>. QED BY <1>2, <1>4, <2>1, <2>2, <2>3
<1>5. IsInjective(s)
  BY <1>1, <1>4 DEF IsInjective
<1>6. ASSUME NEW e, NEW f, Before(e, f, q) PROVE Before(e, f, s)
  BY <1>1, <1>2, <1>6 DEF Before
<1>7. ASSUME NEW e, NEW f, Contains(q, e), Contains(r, f) PROVE Before(e, f, s)
  <2>1. PICK j \in 1..Len(q), k \in 1..Len(r) : q[j] = e /\ r[k] = f
    BY <1>7 DEF Contains
  <2>2. j < Len(q) + k /\ s[j] = e /\ s[Len(q) + k] = f /\ j \in DOMAIN s /\ Len(q) + k \in DOMAIN s
    BY <1>1, <1>2, <2>1
  <2>. QED BY <2>2 DEF Before
<1>. QED BY <1>1, <1>3, <1>5, <1>6, <1>7 DEF s

\* The line is the queue q with the new ones behind it.
Queued(q, new, line) ==
  /\ \A e : Contains(line, e) <=> Contains(q, e) \/ e \in new
  /\ \A e, f : Before(e, f, q) => Before(e, f, line)
  /\ \A e, f : Contains(q, e) /\ f \in new => Before(e, f, line)

LEMMA QueuedTwice ==
  ASSUME NEW q, NEW a, NEW b, NEW l, NEW m, Queued(q, a, l), Queued(l, b, m)
  PROVE  Queued(q, a \cup b, m)
BY DEF Queued

LEMMA Singleton ==
  ASSUME NEW S, NEW e \in S
  PROVE  /\ <<e>> \in Seq(S) /\ IsInjective(<<e>>)
         /\ \A f : Contains(<<e>>, f) <=> f = e
BY DEF IsInjective, Contains

LEMMA Empty ==
  ASSUME NEW S
  PROVE  <<>> \in Seq(S) /\ IsInjective(<<>>) /\ DOMAIN <<>> = {} /\ \A f : ~ Contains(<<>>, f)
BY EmptySeq DEF IsInjective, Contains


(* A sequence of a finite set has its elements, each once.                 *)
LEMMA SetToSeqsFacts ==
  ASSUME NEW S, IsFiniteSet(S), NEW f \in SetToSeqs(S)
  PROVE  /\ f \in Seq(S) /\ IsInjective(f)
         /\ \A e : Contains(f, e) <=> e \in S
<1>. DEFINE n == Cardinality(S)
<1>1. n \in Nat
  BY FS_CardinalityType
<1>2. f \in [1..n -> S] /\ \A j, k \in 1..n : j # k => f[j] # f[k]
  BY DEF SetToSeqs
<1>. HIDE DEF n
<1>3. f \in [1..n -> S] /\ IsInjective(f)
  BY <1>2 DEF IsInjective
<1>4. IsFiniteSet(1..n) /\ Cardinality(1..n) = n
  <2>1. n \in Int /\ 1 \in Int /\ (IF 1 > n THEN 0 ELSE n - 1 + 1) = n
    BY <1>1
  <2>. QED BY <2>1, FS_Interval
<1>5. f \in Injection(1..n, S)
  BY <1>3 DEF Injection
<1>6. f \in Surjection(1..n, S)
  BY <1>1, <1>4, <1>5, FS_Injection DEF n
<1>7. f \in Seq(S) /\ Len(f) = n
  BY <1>1, <1>3, SeqDef
<1>8. ASSUME NEW e PROVE Contains(f, e) <=> e \in S
  BY <1>3, <1>6, <1>7 DEF Contains, Surjection
<1>. QED BY <1>3, <1>7, <1>8
-----------------------------------------------------------------------------
(* The line, and what is entered as under way.                             *)
Listing == Read("list", NoItem)
Entry == Asked \cup {Command(j) : j \in 1..MaxCommands}

\* Line q holds the loads that are entered: those of items in ld, that of the table in lst.
Agrees(q, ld, lst) ==
  /\ q \in Seq(Entry) /\ IsInjective(q)
  /\ ld \in [Item -> Part \cup {"none"}] /\ lst \in BOOLEAN
  /\ \A p \in Part, i \in Item : ld[i] = p <=> Contains(q, Read(p, i))
  /\ lst <=> Contains(q, Listing)

LEMMA ReadFacts ==
  /\ Listing \in Entry /\ \A j \in 1..MaxCommands : Command(j) \in Entry
  /\ \A p \in Part, i \in Item : /\ Read(p, i) \in Entry /\ Read(p, i) \in Asked
                                 /\ Read(p, i) # Listing /\ \A j : Read(p, i) # Command(j)
  /\ \A j : Listing # Command(j)
  /\ \A k, l, x, y : Read(k, x) = Read(l, y) => k = l /\ x = y
  /\ Listing \in Asked /\ Asked \subseteq Entry
  /\ "none" \notin Part /\ "list" \notin Part /\ "command" \notin Part
BY DEF Read, Listing, Command, Entry, Asked, Part

\* The table has come; a part has; the answer to a command has.
LEMMA ListTaken ==
  ASSUME NEW q, NEW ld, NEW lst, Agrees(q, ld, lst), q # <<>>, Head(q) = Listing
  PROVE  lst = TRUE /\ Agrees(Tail(q), ld, FALSE)
<1>1. q \in Seq(Entry) /\ IsInjective(q)
  BY DEF Agrees
<1>2. Tail(q) \in Seq(Entry) /\ IsInjective(Tail(q))
  BY <1>1, TailFacts, Shorter
<1>3. \A e : Contains(Tail(q), e) <=> Contains(q, e) /\ e # Listing
  BY <1>1, Shorter
<1>. QED BY <1>1, <1>2, <1>3, Shorter, ReadFacts DEF Agrees

LEMMA PartTaken ==
  ASSUME NEW q, NEW ld, NEW lst, Agrees(q, ld, lst), q # <<>>,
         NEW p \in Part, NEW i \in Item, Head(q) = Read(p, i)
  PROVE  ld[i] = p /\ Agrees(Tail(q), [ld EXCEPT ![i] = "none"], lst)
<1>1. q \in Seq(Entry) /\ IsInjective(q) /\ ld \in [Item -> Part \cup {"none"}]
  BY DEF Agrees
<1>2. Tail(q) \in Seq(Entry) /\ IsInjective(Tail(q))
  BY <1>1, TailFacts, Shorter
<1>3. \A e : Contains(Tail(q), e) <=> Contains(q, e) /\ e # Read(p, i)
  BY <1>1, Shorter
<1>4. ld[i] = p
  BY <1>1, Shorter DEF Agrees
<1>5. ASSUME NEW r \in Part, NEW x \in Item
      PROVE  [ld EXCEPT ![i] = "none"][x] = r <=> Contains(Tail(q), Read(r, x))
  <2>1. CASE x = i
    BY <1>1, <1>3, <1>4, <2>1, ReadFacts DEF Agrees
  <2>2. CASE x # i
    BY <1>1, <1>3, <2>2, ReadFacts DEF Agrees
  <2>. QED BY <2>1, <2>2
<1>. QED BY <1>1, <1>2, <1>3, <1>4, <1>5, ReadFacts DEF Agrees

LEMMA CommandTaken ==
  ASSUME NEW q, NEW ld, NEW lst, Agrees(q, ld, lst), q # <<>>, NEW j, Head(q) = Command(j)
  PROVE  Agrees(Tail(q), ld, lst)
<1>1. q \in Seq(Entry) /\ IsInjective(q)
  BY DEF Agrees
<1>2. Tail(q) \in Seq(Entry) /\ IsInjective(Tail(q))
  BY <1>1, TailFacts, Shorter
<1>3. \A e : Contains(Tail(q), e) <=> Contains(q, e) /\ e # Command(j)
  BY <1>1, Shorter
<1>. QED BY <1>1, <1>2, <1>3, ReadFacts DEF Agrees

\* The table is asked for, unless it is on its way; the next part of an item is; details are.
\* The table, unless it is under way.
Missing(lst) == IF lst THEN <<>> ELSE <<Listing>>
NewList(lst) == IF lst THEN {} ELSE {Listing}

LEMMA ListAsked ==
  ASSUME NEW q, NEW ld, NEW lst, Agrees(q, ld, lst)
  PROVE  /\ Agrees(q \o Missing(lst), ld, TRUE) /\ Missing(lst) \in Seq(Asked)
         /\ Queued(q, NewList(lst), q \o Missing(lst))
<1>. DEFINE r == Missing(lst)
<1>1. q \in Seq(Entry) /\ IsInjective(q)
  BY DEF Agrees
<1>2. CASE lst
  <2>1. q \o r = q /\ r = <<>>
    BY <1>1, <1>2, ConcatEmptySeq DEF Missing
  <2>2. r \in Seq(Asked) /\ \A e : ~ Contains(r, e)
    BY <2>1, Empty
  <2>. HIDE DEF r
  <2>3. Queued(q, {}, q \o r)
    BY <2>1 DEF Queued
  <2>4. NewList(lst) = {}
    BY <1>2 DEF NewList
  <2>5. Agrees(q \o r, ld, TRUE)
    BY <1>2, <2>1 DEF Agrees
  <2>. QED BY <2>2, <2>3, <2>4, <2>5 DEF r
<1>3. CASE ~ lst
  <2>1. r \in Seq(Entry) /\ r \in Seq(Asked) /\ IsInjective(r) /\ \A e : Contains(r, e) <=> e = Listing
    BY <1>3, ReadFacts, Singleton DEF Missing
  <2>. HIDE DEF r
  <2>2. ~ Contains(q, Listing)
    BY <1>3 DEF Agrees
  <2>3. /\ q \o r \in Seq(Entry) /\ IsInjective(q \o r)
        /\ \A e : Contains(q \o r, e) <=> Contains(q, e) \/ Contains(r, e)
        /\ Queued(q, {Listing}, q \o r)
    BY <1>1, <2>1, <2>2, Longer DEF Queued
  <2>. QED BY <1>3, <2>1, <2>3, ReadFacts DEF Agrees, NewList, r
<1>. QED BY <1>2, <1>3

LEMMA PartAsked ==
  ASSUME NEW q, NEW ld, NEW lst, Agrees(q, ld, lst), NEW p \in Part, NEW i \in Item, ld[i] = "none"
  PROVE  LET r == <<Read(p, i)>>
         IN  /\ Agrees(q \o r, [ld EXCEPT ![i] = p], lst) /\ r \in Seq(Asked)
             /\ Queued(q, {Read(p, i)}, q \o r)
<1>. DEFINE r == <<Read(p, i)>>
<1>1. q \in Seq(Entry) /\ IsInjective(q) /\ ld \in [Item -> Part \cup {"none"}]
  BY DEF Agrees
<1>2. r \in Seq(Entry) /\ r \in Seq(Asked) /\ IsInjective(r) /\ \A e : Contains(r, e) <=> e = Read(p, i)
  BY ReadFacts, Singleton
<1>. HIDE DEF r
<1>3. \A s \in Part : ~ Contains(q, Read(s, i))
  BY ReadFacts DEF Agrees
<1>4. /\ q \o r \in Seq(Entry) /\ IsInjective(q \o r)
      /\ \A e : Contains(q \o r, e) <=> Contains(q, e) \/ e = Read(p, i)
      /\ Queued(q, {Read(p, i)}, q \o r)
  BY <1>1, <1>2, <1>3, Longer DEF Queued
<1>5. ASSUME NEW s \in Part, NEW x \in Item
      PROVE  [ld EXCEPT ![i] = p][x] = s <=> Contains(q \o r, Read(s, x))
  <2>1. CASE x = i
    BY <1>1, <1>3, <1>4, <2>1, ReadFacts
  <2>2. CASE x # i
    BY <1>1, <1>4, <2>2, ReadFacts DEF Agrees
  <2>. QED BY <2>1, <2>2
<1>. QED BY <1>1, <1>2, <1>4, <1>5, ReadFacts DEF Agrees, r

Wanted(items, ld) == {Read("detail", i) : i \in {x \in items : ld[x] = "none"}}

LEMMA WantedFacts ==
  ASSUME NEW items \in SUBSET Item, IsFiniteSet(items), NEW ld, NEW r \in SetToSeqs(Wanted(items, ld))
  PROVE  /\ r \in Seq(Asked) /\ r \in Seq(Entry) /\ IsInjective(r)
         /\ \A e : Contains(r, e) <=> e \in Wanted(items, ld)
         /\ \A e \in Wanted(items, ld) : \E i \in items : ld[i] = "none" /\ e = Read("detail", i)
<1>. DEFINE free == {x \in items : ld[x] = "none"}
            W == Wanted(items, ld)
            f == [i \in free |-> Read("detail", i)]
<1>1. IsFiniteSet(free)
  BY FS_Subset
<1>2. f \in Surjection(free, W)
  BY DEF Surjection, Wanted
<1>3. IsFiniteSet(W)
  BY <1>1, <1>2, FS_Surjection
<1>4. W \subseteq Asked /\ Asked \subseteq Entry
  BY ReadFacts DEF Wanted, Part
<1>5. r \in Seq(W) /\ IsInjective(r) /\ \A e : Contains(r, e) <=> e \in W
  BY <1>3, SetToSeqsFacts
<1>6. r \in Seq(Asked) /\ r \in Seq(Entry)
  BY <1>4, <1>5, SeqMonotonic
<1>7. \A e \in W : \E i \in items : ld[i] = "none" /\ e = Read("detail", i)
  BY DEF Wanted
<1>. QED BY <1>5, <1>6, <1>7

LEMMA DetailsAsked ==
  ASSUME NEW q, NEW ld, NEW lst, Agrees(q, ld, lst), NEW items \in SUBSET Item, IsFiniteSet(items),
         NEW r \in SetToSeqs(Wanted(items, ld))
  PROVE  LET l == [i \in Item |-> IF i \in items /\ ld[i] = "none" THEN "detail" ELSE ld[i]]
         IN  /\ Agrees(q \o r, l, lst) /\ r \in Seq(Asked)
             /\ Queued(q, Wanted(items, ld), q \o r)
<1>. DEFINE l == [i \in Item |-> IF i \in items /\ ld[i] = "none" THEN "detail" ELSE ld[i]]
<1>1. q \in Seq(Entry) /\ IsInjective(q) /\ ld \in [Item -> Part \cup {"none"}]
  BY DEF Agrees
<1>2. /\ r \in Seq(Entry) /\ r \in Seq(Asked) /\ IsInjective(r)
      /\ \A e : Contains(r, e) <=> e \in Wanted(items, ld)
      /\ \A e : e \in Wanted(items, ld) <=> \E i \in items : ld[i] = "none" /\ e = Read("detail", i)
  BY WantedFacts DEF Wanted
<1>3. \A p \in Part, i \in Item : ld[i] = "none" => ~ Contains(q, Read(p, i))
  BY ReadFacts DEF Agrees
<1>4. "detail" \in Part
  BY DEF Part
<1>5. \A e : Contains(r, e) => ~ Contains(q, e)
  BY <1>2, <1>3, <1>4
<1>6. /\ q \o r \in Seq(Entry) /\ IsInjective(q \o r)
      /\ \A e : Contains(q \o r, e) <=> Contains(q, e) \/ Contains(r, e)
      /\ Queued(q, Wanted(items, ld), q \o r)
  BY <1>1, <1>2, <1>5, Longer DEF Queued
<1>7. ASSUME NEW p \in Part, NEW x \in Item
      PROVE  l[x] = p <=> Contains(q \o r, Read(p, x))
  <2>1. CASE x \in items /\ ld[x] = "none"
    <3>1. Contains(r, Read(p, x)) <=> p = "detail"
      BY <1>2, <2>1, ReadFacts
    <3>. QED BY <1>3, <1>6, <2>1, <3>1
  <2>2. CASE ~ (x \in items /\ ld[x] = "none")
    <3>1. ~ Contains(r, Read(p, x))
      BY <1>2, <2>2, ReadFacts
    <3>. QED BY <1>6, <2>2, <3>1 DEF Agrees
  <2>. QED BY <2>1, <2>2
<1>8. ~ Contains(r, Listing)
  BY <1>2, <1>4, ReadFacts
<1>. QED BY <1>1, <1>2, <1>4, <1>6, <1>7, <1>8 DEF Agrees

\* An answer to a command comes in between.
LEMMA CommandPut ==
  ASSUME NEW ld, NEW lst, NEW a \in Seq(Entry), NEW b \in Seq(Entry), Agrees(a \o b, ld, lst),
         NEW j \in 1..MaxCommands, ~ Contains(a \o b, Command(j))
  PROVE  /\ Agrees(Append(a, Command(j)) \o b, ld, lst)
         /\ \A e : Contains(Append(a, Command(j)) \o b, e) <=> Contains(a \o b, e) \/ e = Command(j)
         /\ \A e, f : Before(e, f, a \o b) => Before(e, f, Append(a, Command(j)) \o b)
<1>. DEFINE c == Command(j)
            q == a \o b
            r == Append(a, c) \o b
            n == Len(a)
            At(k) == IF k <= n THEN k ELSE k + 1
<1>1. c \in Entry
  BY ReadFacts
<1>2. /\ n \in Nat /\ DOMAIN a = 1..n /\ Len(b) \in Nat /\ DOMAIN b = 1..Len(b)
      /\ Append(a, c) \in Seq(Entry) /\ Len(Append(a, c)) = n + 1
      /\ r \in Seq(Entry) /\ DOMAIN r = 1..(n + 1 + Len(b)) /\ Len(r) = n + 1 + Len(b)
      /\ q \in Seq(Entry) /\ DOMAIN q = 1..(n + Len(b)) /\ Len(q) = n + Len(b)
  BY <1>1, AppendProperties, ConcatProperties, LenProperties
<1>3. /\ \A k \in 1..Len(q) : At(k) \in 1..Len(r) /\ At(k) # n + 1 /\ r[At(k)] = q[k]
      /\ n + 1 \in 1..Len(r) /\ r[n + 1] = c
  <2>1. /\ \A k \in 1..n : r[k] = a[k] /\ q[k] = a[k]
        /\ \A k \in 1..Len(b) : r[n + 1 + k] = b[k] /\ q[n + k] = b[k]
        /\ r[n + 1] = c
    BY <1>1, <1>2, AppendProperties, ConcatProperties
  <2>2. ASSUME NEW k \in 1..Len(q), k > n PROVE k - n \in 1..Len(b) /\ n + 1 + (k - n) = k + 1 /\ n + (k - n) = k
    BY <1>2, <2>2
  <2>3. ASSUME NEW k \in 1..Len(q), k > n PROVE r[k + 1] = q[k]
    BY <2>1, <2>2, <2>3
  <2>4. ASSUME NEW k \in 1..Len(q), k <= n PROVE r[k] = q[k]
    BY <1>2, <2>1, <2>4
  <2>. QED BY <1>2, <2>1, <2>3, <2>4
<1>4. \A m \in 1..Len(r) : m = n + 1 \/ \E k \in 1..Len(q) : m = At(k)
  <2>1. ASSUME NEW m \in 1..Len(r), m > n + 1 PROVE m - 1 \in 1..Len(q) /\ m = At(m - 1)
    BY <1>2, <2>1
  <2>2. ASSUME NEW m \in 1..Len(r), m <= n PROVE m \in 1..Len(q) /\ m = At(m)
    BY <1>2, <2>2
  <2>3. ASSUME NEW m \in 1..Len(r) PROVE m = n + 1 \/ m > n + 1 \/ m <= n
    BY <1>2
  <2>. QED BY <2>1, <2>2, <2>3
<1>5. /\ \A k, l \in 1..Len(q) : k < l => At(k) < At(l)
      /\ \A k, l \in 1..Len(q) : At(k) = At(l) => k = l
  BY <1>2
<1>. HIDE DEF q, r, n, c, At
<1>6. ASSUME NEW e PROVE Contains(r, e) <=> Contains(q, e) \/ e = c
  <2>1. ASSUME Contains(r, e) PROVE Contains(q, e) \/ e = c
    BY <1>3, <1>4, <2>1 DEF Contains
  <2>2. ASSUME Contains(q, e) \/ e = c PROVE Contains(r, e)
    BY <1>3, <2>2 DEF Contains
  <2>. QED BY <2>1, <2>2
<1>7. ASSUME NEW e, NEW f, Before(e, f, q) PROVE Before(e, f, r)
  <2>1. PICK k \in 1..Len(q), l \in 1..Len(q) : k < l /\ q[k] = e /\ q[l] = f
    BY <1>2, <1>7 DEF Before
  <2>2. /\ At(k) \in 1..Len(r) /\ At(l) \in 1..Len(r) /\ At(k) < At(l)
        /\ r[At(k)] = e /\ r[At(l)] = f
    BY <1>3, <1>5, <2>1
  <2>. QED BY <1>2, <2>2 DEF Before
<1>8. IsInjective(r)
  <2>0. IsInjective(q) /\ ~ Contains(q, c)
    BY DEF Agrees, q, c
  <2>1. ASSUME NEW l \in 1..Len(r), NEW m \in 1..Len(r), r[l] = r[m] PROVE l = m
    <3>1. ASSUME NEW k \in 1..Len(q) PROVE q[k] # c
      BY <2>0 DEF Contains
    <3>2. ASSUME NEW k \in 1..Len(q), NEW h \in 1..Len(q), q[k] = q[h] PROVE k = h
      BY <1>2, <2>0, <3>2 DEF IsInjective
    <3>3. CASE l = n + 1 \/ m = n + 1
      BY <1>3, <1>4, <2>1, <3>1, <3>3
    <3>4. ASSUME NEW k \in 1..Len(q), l = At(k), NEW h \in 1..Len(q), m = At(h)
          PROVE  l = m
      BY <1>3, <2>1, <3>2, <3>4
    <3>. QED BY <1>4, <3>3, <3>4
  <2>. QED BY <1>2, <2>1 DEF IsInjective
<1>9. Agrees(q, ld, lst)
  BY DEF q
<1>10. c # Listing /\ \A p \in Part, i \in Item : c # Read(p, i)
  BY ReadFacts DEF c
<1>11. Agrees(r, ld, lst)
  BY <1>2, <1>6, <1>8, <1>9, <1>10 DEF Agrees
<1>. QED BY <1>6, <1>7, <1>11 DEF q, r, c

-----------------------------------------------------------------------------
(* Answers, and the line they make with the reads.                         *)
LEMMA AnsweredType ==
  ASSUME NEW r \in Answered
  PROVE  /\ Read(r.kind, r.item) \in Entry
         /\ r.said \in [Item -> Nat] /\ r.ok \in BOOLEAN
         /\ \/ r.kind \in Part /\ r.item \in Item
            \/ r.kind = "list" /\ r.item = NoItem
            \/ r.kind = "command" /\ r.item \in 1..MaxCommands
BY DEF Answered, Told, Read, Entry, Command, Asked

LEMMA AnswerFacts ==
  ASSUME NEW read \in Asked, NEW said \in [Item -> Nat], NEW ok \in BOOLEAN, NEW failed \in BOOLEAN
  PROVE  LET r == Answer(read, said, ok, failed)
         IN  /\ r \in Answered /\ r.kind # "command" /\ r.said = said /\ r.ok = ok
             /\ Read(r.kind, r.item) = read
BY DEF Answered, Told, Read, Asked, Answer, Part

\* The answer of command j.
Ends(r, j) == r \in Answered /\ r.kind = "command" /\ r.item = j

LEMMA EndsFacts ==
  ASSUME NEW j, NEW r, Ends(r, j)
  PROVE  Read(r.kind, r.item) = Command(j)
BY DEF Ends, Command

LEMMA EndedFacts ==
  ASSUME NEW j \in 1..MaxCommands, NEW said \in [Item -> Nat], NEW r
  PROVE  /\ r = Answer(Command(j), said, TRUE, FALSE) => Ends(r, j) /\ r.ok = TRUE /\ r.said = said
         /\ r = Answer(Command(j), said, FALSE, FALSE) => Ends(r, j) /\ r.ok = FALSE
         /\ r = Answer(Command(j), said, FALSE, TRUE) => Ends(r, j) /\ r.ok = FALSE
<1>1. /\ Command(j).kind = "command" /\ Command(j).item = j
  BY DEF Command, Read
<1>2. ASSUME NEW ok \in BOOLEAN, NEW failed \in BOOLEAN, r = Answer(Command(j), said, ok, failed)
      PROVE  Ends(r, j) /\ r.ok = ok /\ r.said = said
  BY <1>1, <1>2 DEF Answered, Told, Answer, Ends
<1>. QED BY <1>2

LEMMA EntriesType ==
  ASSUME NEW rs \in Seq(Answered)
  PROVE  /\ Entries(rs) \in Seq(Entry) /\ Len(Entries(rs)) = Len(rs)
         /\ \A k \in 1..Len(rs) : Entries(rs)[k] = Read(rs[k].kind, rs[k].item)
<1>1. Len(rs) \in Nat /\ DOMAIN rs = 1..Len(rs) /\ \A k \in 1..Len(rs) : rs[k] \in Answered
  BY LenProperties
<1>2. Entries(rs) \in [1..Len(rs) -> Entry]
  BY <1>1, AnsweredType DEF Entries
<1>3. Entries(rs) \in Seq(Entry)
  BY <1>1, <1>2, SeqDef
<1>4. DOMAIN Entries(rs) = 1..Len(rs)
  BY <1>1 DEF Entries
<1>. QED BY <1>1, <1>3, <1>4 DEF Entries

LEMMA EntriesConcat ==
  ASSUME NEW a \in Seq(Answered), NEW b \in Seq(Answered)
  PROVE  Entries(a \o b) = Entries(a) \o Entries(b)
<1>1. a \o b \in Seq(Answered) /\ Len(a) \in Nat /\ Len(b) \in Nat /\ Len(a \o b) = Len(a) + Len(b)
  BY ConcatProperties, LenProperties
<1>2. /\ Entries(a \o b) \in Seq(Entry) /\ Len(Entries(a \o b)) = Len(a) + Len(b)
      /\ Entries(a) \o Entries(b) \in Seq(Entry) /\ Len(Entries(a) \o Entries(b)) = Len(a) + Len(b)
  <2>1. /\ Entries(a) \in Seq(Entry) /\ Len(Entries(a)) = Len(a)
        /\ Entries(b) \in Seq(Entry) /\ Len(Entries(b)) = Len(b)
    BY EntriesType
  <2>2. Entries(a \o b) \in Seq(Entry) /\ Len(Entries(a \o b)) = Len(a \o b)
    BY <1>1, EntriesType
  <2>3. PICK x \in Seq(Entry), y \in Seq(Entry) : x = Entries(a) /\ y = Entries(b)
    BY <2>1
  <2>4. x \o y \in Seq(Entry) /\ Len(x \o y) = Len(x) + Len(y)
    BY ConcatProperties
  <2>. QED BY <1>1, <2>1, <2>2, <2>3, <2>4
<1>3. ASSUME NEW k \in 1..(Len(a) + Len(b))
      PROVE  Entries(a \o b)[k] = (Entries(a) \o Entries(b))[k]
  <2>1. Entries(a \o b)[k] = Read((a \o b)[k].kind, (a \o b)[k].item)
    BY <1>1, EntriesType
  <2>2. (Entries(a) \o Entries(b))[k] = IF k <= Len(a) THEN Entries(a)[k] ELSE Entries(b)[k - Len(a)]
    BY EntriesType, ConcatProperties
  <2>3. CASE k <= Len(a)
    BY <1>1, <2>1, <2>2, <2>3, EntriesType, ConcatProperties
  <2>4. CASE k > Len(a)
    <3>1. k - Len(a) \in 1..Len(b) /\ (a \o b)[k] = b[k - Len(a)]
      BY <1>1, <2>4, ConcatProperties
    <3>. QED BY <1>1, <2>1, <2>2, <2>4, <3>1, EntriesType
  <2>5. k <= Len(a) \/ k > Len(a)
    BY <1>1
  <2>. QED BY <2>3, <2>4, <2>5
<1>. QED BY <1>2, <1>3, SeqEqual

LEMMA EntriesOne ==
  ASSUME NEW r \in Answered
  PROVE  <<r>> \in Seq(Answered) /\ Entries(<<r>>) = <<Read(r.kind, r.item)>>
<1>1. <<r>> \in Seq(Answered) /\ Len(<<r>>) = 1 /\ <<r>>[1] = r
  OBVIOUS
<1>2. Entries(<<r>>) \in Seq(Entry) /\ Len(Entries(<<r>>)) = 1
      /\ Entries(<<r>>)[1] = Read(r.kind, r.item)
  <2>1. 1 \in 1..Len(<<r>>)
    BY <1>1
  <2>. QED BY <1>1, <2>1, EntriesType
<1>3. <<Read(r.kind, r.item)>> \in Seq(Entry)
  BY AnsweredType, Singleton
<1>. QED BY <1>1, <1>2, <1>3, SeqEqual

LEMMA EntriesTail ==
  ASSUME NEW rs \in Seq(Answered), rs # <<>>
  PROVE  /\ Head(rs) \in Answered /\ Tail(rs) \in Seq(Answered)
         /\ Entries(rs) = <<Read(Head(rs).kind, Head(rs).item)>> \o Entries(Tail(rs))
<1>1. Head(rs) \in Answered /\ Tail(rs) \in Seq(Answered)
  BY TailFacts
<1>2. <<Head(rs)>> \in Seq(Answered) /\ Entries(<<Head(rs)>>) = <<Read(Head(rs).kind, Head(rs).item)>>
  BY <1>1, EntriesOne
<1>3. rs = <<Head(rs)>> \o Tail(rs)
  BY <1>1, <1>2, HeadTailProperties, ConcatProperties, SeqEqual, LenProperties, EmptySeq
<1>. QED BY <1>1, <1>2, <1>3, EntriesConcat

\* A sequence and what is put before it.
LEMMA HeadTailOf ==
  ASSUME NEW S, NEW e \in S, NEW q \in Seq(S)
  PROVE  /\ <<e>> \o q \in Seq(S) /\ <<e>> \o q # <<>>
         /\ Head(<<e>> \o q) = e /\ Tail(<<e>> \o q) = q
<1>1. <<e>> \in Seq(S) /\ Len(<<e>>) = 1
  OBVIOUS
<1>2. /\ <<e>> \o q \in Seq(S) /\ Len(<<e>> \o q) = 1 + Len(q) /\ (<<e>> \o q)[1] = e
      /\ \A k \in 1..Len(q) : (<<e>> \o q)[k + 1] = q[k]
  BY <1>1, ConcatProperties, LenProperties
<1>3. <<e>> \o q # <<>>
  BY <1>2, EmptySeq, LenProperties
<1>4. Head(<<e>> \o q) = e
  BY <1>2, <1>3, TailFacts
<1>5. Tail(<<e>> \o q) \in Seq(S) /\ Len(Tail(<<e>> \o q)) = Len(q)
      /\ \A k \in 1..Len(q) : Tail(<<e>> \o q)[k] = q[k]
  BY <1>2, <1>3, HeadTailProperties, LenProperties
<1>. QED BY <1>2, <1>3, <1>4, <1>5, SeqEqual

\* Three sequences in a row, however they are grouped.
Regroups(a, b, c) == (a \o b) \o c = a \o (b \o c)

LEMMA Regrouped ==
  ASSUME NEW a \in Seq(Entry), NEW b \in Seq(Entry), NEW c \in Seq(Entry)
  PROVE  Regroups(a, b, c)
<1>. DEFINE S == Entry
<1>. HIDE DEF S
<1>1. a \in Seq(S) /\ b \in Seq(S) /\ c \in Seq(S)
  BY DEF S
<1>2. (a \o b) \o c = a \o (b \o c)
  BY <1>1, ConcatAssociative, SMTT(30)
<1>. QED BY <1>2 DEF Regroups

\* The line, now and after a step.
LEMMA LineType ==
  ASSUME TypeOK
  PROVE  /\ Agrees(Line, loads, listing) /\ Line = Entries(replies) \o reads
         /\ replies \in Seq(Answered) /\ Entries(replies) \in Seq(Entry)
         /\ reads \in Seq(Asked) /\ reads \in Seq(Entry)
<1>1. reads \in Seq(Asked) /\ reads \in Seq(Entry) /\ replies \in Seq(Answered)
  BY ReadFacts, SeqMonotonic DEF TypeOK
<1>2. Entries(replies) \in Seq(Entry)
  BY <1>1, EntriesType
<1>3. Line \in Seq(Entry)
  BY <1>1, <1>2, ConcatProperties DEF Line
<1>. QED BY <1>1, <1>2, <1>3 DEF TypeOK, Agrees, Listing, Line

LEMMA LineAsked ==
  ASSUME TypeOK, NEW r \in Seq(Asked), reads' = reads \o r, replies' = replies
  PROVE  Line' = Line \o r /\ reads' \in Seq(Asked)
<1>1. r \in Seq(Entry)
  BY ReadFacts, SeqMonotonic
<1>2. Line' = Entries(replies) \o (reads \o r)
  BY DEF Line, Entries
<1>3. /\ Entries(replies) \in Seq(Entry) /\ reads \in Seq(Entry) /\ reads \in Seq(Asked)
      /\ Line = Entries(replies) \o reads
  BY LineType
<1>4. Regroups(Entries(replies), reads, r)
  BY <1>1, <1>3, Regrouped
<1>5. reads \o r \in Seq(Asked)
  BY <1>3, ConcatProperties
<1>. QED BY <1>2, <1>3, <1>4, <1>5 DEF Regroups

\* A line of e, t and q without its first, and with r behind it.
Shifts(e, t, q, r, line) ==
  line = (<<e>> \o t) \o q =>
    /\ t \o q \in Seq(Entry) /\ line # <<>> /\ Head(line) = e /\ Tail(line) = t \o q
    /\ t \o (q \o r) = (t \o q) \o r

LEMMA FirstTaken ==
  ASSUME NEW e \in Entry, NEW t \in Seq(Entry), NEW q \in Seq(Entry), NEW r \in Seq(Entry), NEW line
  PROVE  Shifts(e, t, q, r, line)
<1>1. <<e>> \in Seq(Entry) /\ t \o q \in Seq(Entry)
  BY ConcatProperties
<1>2. Regroups(<<e>>, t, q) /\ Regroups(t, q, r)
  BY <1>1, Regrouped
<1>3. <<e>> \o (t \o q) # <<>> /\ Head(<<e>> \o (t \o q)) = e /\ Tail(<<e>> \o (t \o q)) = t \o q
  <2>1. PICK u \in Seq(Entry) : u = t \o q
    BY <1>1
  <2>2. <<e>> \o u # <<>> /\ Head(<<e>> \o u) = e /\ Tail(<<e>> \o u) = u
    BY HeadTailOf
  <2>. QED BY <2>1, <2>2
<1>. QED BY <1>1, <1>2, <1>3 DEF Shifts, Regroups

LEMMA LineTaken ==
  ASSUME TypeOK, replies # <<>>, replies' = Tail(replies), NEW r \in Seq(Asked), reads' = reads \o r
  PROVE  /\ Line # <<>> /\ Head(Line) = Read(Reply.kind, Reply.item) /\ Line' = Tail(Line) \o r
         /\ Tail(Line) \in Seq(Entry) /\ reads' \in Seq(Asked) /\ replies' \in Seq(Answered)
         /\ Reply \in Answered
<1>. DEFINE e == Read(Reply.kind, Reply.item)
            t == Entries(Tail(replies))
<1>1. /\ Reply \in Answered /\ Tail(replies) \in Seq(Answered) /\ Entries(replies) = <<e>> \o t
  BY LineType, EntriesTail DEF Reply
<1>2. e \in Entry /\ t \in Seq(Entry) /\ <<e>> \in Seq(Entry) /\ r \in Seq(Entry)
  <2>1. e \in Entry /\ <<e>> \in Seq(Entry)
    BY <1>1, AnsweredType, Singleton
  <2>2. t \in Seq(Entry)
    BY <1>1, EntriesType
  <2>3. r \in Seq(Entry)
    BY ReadFacts, SeqMonotonic
  <2>. QED BY <2>1, <2>2, <2>3
<1>3. Line' = t \o (reads \o r)
  BY DEF Line, Entries
<1>. HIDE DEF e, t
<1>4. Line = (<<e>> \o t) \o reads /\ reads \in Seq(Entry)
  BY <1>1, LineType
<1>5. /\ t \o reads \in Seq(Entry) /\ Line # <<>> /\ Head(Line) = e /\ Tail(Line) = t \o reads
      /\ t \o (reads \o r) = (t \o reads) \o r
  <2>1. Shifts(e, t, reads, r, Line)
    BY <1>2, <1>4, FirstTaken
  <2>. QED BY <1>4, <2>1 DEF Shifts
<1>6. Line' = Tail(Line) \o r
  BY <1>3, <1>4, <1>5
<1>7. reads' \in Seq(Asked)
  BY LineType, ConcatProperties
<1>. QED BY <1>1, <1>5, <1>6, <1>7 DEF e

LEMMA RejectedFacts ==
  ASSUME TypeOK
  PROVE  /\ Rejected \in Seq(Answered) /\ Entries(Rejected) = reads
         /\ DOMAIN Rejected = DOMAIN reads
         /\ \A k \in DOMAIN reads : ~ Rejected[k].ok /\ Rejected[k].kind # "command"
<1>1. Len(reads) \in Nat /\ DOMAIN reads = 1..Len(reads) /\ \A k \in 1..Len(reads) : reads[k] \in Asked
  BY LineType, LenProperties
<1>2. view \in [Item -> Nat]
  BY DEF TypeOK
<1>3. DOMAIN Rejected = 1..Len(reads)
      /\ \A k \in 1..Len(reads) : Rejected[k] = Answer(reads[k], view, FALSE, FALSE)
  BY <1>1 DEF Rejected
<1>4. \A k \in 1..Len(reads) : /\ Rejected[k] \in Answered /\ ~ Rejected[k].ok
                               /\ Rejected[k].kind # "command"
                               /\ Read(Rejected[k].kind, Rejected[k].item) = reads[k]
  <2>. SUFFICES ASSUME NEW k \in 1..Len(reads)
                PROVE  /\ Rejected[k] \in Answered /\ ~ Rejected[k].ok
                       /\ Rejected[k].kind # "command"
                       /\ Read(Rejected[k].kind, Rejected[k].item) = reads[k]
    OBVIOUS
  <2>1. PICK e \in Asked, v \in [Item -> Nat] : e = reads[k] /\ v = view
    BY <1>1, <1>2
  <2>2. Rejected[k] = Answer(e, v, FALSE, FALSE)
    BY <1>3, <2>1
  <2>3. /\ Answer(e, v, FALSE, FALSE) \in Answered /\ Answer(e, v, FALSE, FALSE).kind # "command"
        /\ Answer(e, v, FALSE, FALSE).ok = FALSE
        /\ Read(Answer(e, v, FALSE, FALSE).kind, Answer(e, v, FALSE, FALSE).item) = e
    BY AnswerFacts
  <2>. QED BY <2>1, <2>2, <2>3
<1>5. Rejected \in [1..Len(reads) -> Answered]
  BY <1>3, <1>4 DEF Rejected
<1>6. Rejected \in Seq(Answered) /\ Len(Rejected) = Len(reads)
  BY <1>1, <1>3, <1>5, SeqDef
<1>7. /\ Entries(Rejected) \in Seq(Entry) /\ Len(Entries(Rejected)) = Len(reads)
      /\ \A k \in 1..Len(reads) : Entries(Rejected)[k] = reads[k]
  BY <1>4, <1>6, EntriesType
<1>8. reads \in Seq(Entry)
  BY LineType
<1>9. Entries(Rejected) = reads
  BY <1>7, <1>8, SeqEqual
<1>. QED BY <1>1, <1>3, <1>4, <1>6, <1>9

LEMMA LineAnswered ==
  ASSUME TypeOK, AnswerRead
  PROVE  /\ Line' = Line /\ reads' \in Seq(Asked) /\ replies' \in Seq(Answered)
         /\ \E r \in Answered : /\ replies' = Append(replies, r)
                                /\ r.ok = TRUE /\ r.said = view
<1>. DEFINE e == Head(reads)
            r == Answer(e, view, TRUE, FALSE)
            t == Tail(reads)
            a == Entries(replies)
<1>1. reads # <<>> /\ reads' = t /\ replies' = Append(replies, r)
  BY DEF AnswerRead
<1>2. e \in Asked /\ t \in Seq(Asked) /\ e \in Entry /\ t \in Seq(Entry) /\ <<e>> \in Seq(Entry)
  <2>1. e \in Asked /\ t \in Seq(Asked)
    BY <1>1, LineType, TailFacts
  <2>. QED BY <2>1, ReadFacts, SeqMonotonic, Singleton
<1>3. r \in Answered /\ r.kind # "command" /\ r.ok = TRUE /\ r.said = view
      /\ Read(r.kind, r.item) = e
  <2>1. PICK v \in [Item -> Nat], x \in Asked : v = view /\ x = e
    BY <1>2 DEF TypeOK
  <2>2. /\ Answer(x, v, TRUE, FALSE) \in Answered /\ Answer(x, v, TRUE, FALSE).kind # "command"
        /\ Answer(x, v, TRUE, FALSE).said = v /\ Answer(x, v, TRUE, FALSE).ok = TRUE
        /\ Read(Answer(x, v, TRUE, FALSE).kind, Answer(x, v, TRUE, FALSE).item) = x
    BY AnswerFacts
  <2>. QED BY <2>1, <2>2
<1>4. reads = <<e>> \o t
  BY <1>1, <1>2, LineType, HeadTailProperties, ConcatProperties, SeqEqual, LenProperties, EmptySeq
<1>. HIDE DEF e, r, t, a
<1>5. a \in Seq(Entry) /\ Line = a \o reads /\ replies \in Seq(Answered)
  BY LineType DEF a
<1>6. replies' \in Seq(Answered) /\ Entries(replies') = a \o <<e>>
  <2>1. replies' = replies \o <<r>> /\ replies' \in Seq(Answered)
    BY <1>1, <1>3, <1>5, AppendIsConcat, AppendProperties
  <2>2. <<r>> \in Seq(Answered) /\ Entries(<<r>>) = <<e>>
    BY <1>3, EntriesOne
  <2>3. Entries(replies \o <<r>>) = Entries(replies) \o Entries(<<r>>)
    BY <1>5, <2>2, EntriesConcat
  <2>4. Entries(replies') = Entries(replies \o <<r>>)
    BY <2>1
  <2>. QED BY <2>1, <2>2, <2>3, <2>4 DEF a
<1>7. Line' = (a \o <<e>>) \o t
  BY <1>1, <1>6 DEF Line, Entries
<1>8. Line' = Line
  <2>1. Regroups(a, <<e>>, t)
    BY <1>2, <1>5, Regrouped
  <2>. QED BY <1>4, <1>5, <1>7, <2>1 DEF Regroups
<1>. QED BY <1>1, <1>2, <1>3, <1>6, <1>8

LEMMA LineRejected ==
  ASSUME TypeOK
  PROVE  replies \o Rejected \in Seq(Answered) /\ Entries(replies \o Rejected) = Line
BY LineType, RejectedFacts, EntriesConcat, ConcatProperties

LEMMA LineLost ==
  ASSUME TypeOK, reads' = <<>>, replies' = replies \o Rejected
  PROVE  /\ Line' = Line /\ reads' \in Seq(Asked) /\ replies' \in Seq(Answered)
<1>1. Line' = Entries(replies \o Rejected) \o <<>>
  BY DEF Line, Entries
<1>2. Line \in Seq(Entry)
  BY LineType DEF Agrees
<1>. QED BY <1>1, <1>2, LineRejected, ConcatEmptySeq, Empty

LEMMA LinePerformed ==
  ASSUME TypeOK, NEW j \in 1..MaxCommands, NEW r, Ends(r, j), reads' = <<>>,
         replies' = replies \o Rejected \o <<r>>,
         ~ Contains(Line, Command(j))
  PROVE  /\ reads' \in Seq(Asked) /\ replies' \in Seq(Answered)
         /\ Agrees(Line', loads, listing)
         /\ \A e : Contains(Line', e) <=> Contains(Line, e) \/ e = Command(j)
         /\ \A e, f : Before(e, f, Line) => Before(e, f, Line')
<1>1. r \in Answered /\ Read(r.kind, r.item) = Command(j)
  BY EndsFacts DEF Ends
<1>2. <<r>> \in Seq(Answered) /\ Entries(<<r>>) = <<Command(j)>>
  BY <1>1, EntriesOne
<1>3. replies' = (replies \o Rejected) \o <<r>>
  OBVIOUS
<1>4. replies' \in Seq(Answered) /\ Entries(replies') = Line \o <<Command(j)>>
  <2>. DEFINE q == replies \o Rejected
  <2>1. q \in Seq(Answered) /\ Entries(q) = Line /\ replies' = q \o <<r>>
    BY <1>3, LineRejected
  <2>. HIDE DEF q
  <2>2. q \o <<r>> \in Seq(Answered) /\ Entries(q \o <<r>>) = Entries(q) \o Entries(<<r>>)
    BY <1>2, <2>1, EntriesConcat, ConcatProperties
  <2>. QED BY <1>2, <2>1, <2>2
<1>5. Line \in Seq(Entry) /\ Command(j) \in Entry /\ <<>> \in Seq(Entry) /\ Agrees(Line, loads, listing)
  BY LineType, ReadFacts, Empty DEF Agrees
<1>6. Line \o <<Command(j)>> = Append(Line, Command(j)) /\ Append(Line, Command(j)) \in Seq(Entry)
  BY <1>5, AppendIsConcat, AppendProperties
<1>7. Line' = Append(Line, Command(j)) \o <<>> /\ Line = Line \o <<>>
  <2>1. Line' = Entries(replies') \o <<>>
    BY DEF Line, Entries
  <2>. QED BY <1>4, <1>5, <1>6, <2>1, ConcatEmptySeq
<1>8. /\ Agrees(Append(Line, Command(j)) \o <<>>, loads, listing)
      /\ \A e : Contains(Append(Line, Command(j)) \o <<>>, e) <=> Contains(Line, e) \/ e = Command(j)
      /\ \A e, f : Before(e, f, Line) => Before(e, f, Append(Line, Command(j)) \o <<>>)
  <2>1. PICK q \in Seq(Entry) : q = Line
    BY <1>5
  <2>2. q \o <<>> = q /\ Agrees(q \o <<>>, loads, listing) /\ ~ Contains(q \o <<>>, Command(j))
    BY <1>5, <1>7, <2>1
  <2>3. /\ Agrees(Append(q, Command(j)) \o <<>>, loads, listing)
        /\ \A e : Contains(Append(q, Command(j)) \o <<>>, e) <=> Contains(q \o <<>>, e) \/ e = Command(j)
        /\ \A e, f : Before(e, f, q \o <<>>) => Before(e, f, Append(q, Command(j)) \o <<>>)
    BY <1>5, <2>2, CommandPut
  <2>. QED BY <2>1, <2>2, <2>3
<1>9. reads' \in Seq(Asked)
  BY Empty
<1>. QED BY <1>4, <1>7, <1>8, <1>9

LEMMA LineRefused ==
  ASSUME TypeOK, NEW j \in 1..MaxCommands, NEW r, Ends(r, j), reads' = reads, replies' = Append(replies, r),
         ~ Contains(Line, Command(j))
  PROVE  /\ replies' \in Seq(Answered)
         /\ Agrees(Line', loads, listing)
         /\ \A e : Contains(Line', e) <=> Contains(Line, e) \/ e = Command(j)
         /\ \A e, f : Before(e, f, Line) => Before(e, f, Line')
<1>. DEFINE a == Entries(replies)
<1>1. r \in Answered /\ Read(r.kind, r.item) = Command(j)
  BY EndsFacts DEF Ends
<1>2. replies' = Append(replies, r)
  OBVIOUS
<1>3. <<r>> \in Seq(Answered) /\ Entries(<<r>>) = <<Command(j)>>
  BY <1>1, EntriesOne
<1>4. /\ replies \in Seq(Answered) /\ a \in Seq(Entry) /\ reads \in Seq(Entry)
      /\ Line = a \o reads /\ Agrees(Line, loads, listing)
  BY LineType
<1>5. replies' = replies \o <<r>> /\ replies' \in Seq(Answered)
  <2>1. replies \o <<r>> = Append(replies, r)
    BY <1>1, <1>4, AppendIsConcat
  <2>2. Append(replies, r) \in Seq(Answered)
    BY <1>1, <1>4, AppendProperties
  <2>. QED BY <1>2, <2>1, <2>2
<1>6. Entries(replies \o <<r>>) = a \o <<Command(j)>>
  BY <1>3, <1>4, EntriesConcat
<1>7. Command(j) \in Entry
  BY ReadFacts
<1>8. a \o <<Command(j)>> = Append(a, Command(j))
  BY <1>4, <1>7, AppendIsConcat
<1>9. Line' = Append(a, Command(j)) \o reads
  <2>1. Line' = Entries(replies') \o reads
    BY DEF Line, Entries
  <2>. QED BY <1>5, <1>6, <1>8, <2>1
<1>. HIDE DEF a
<1>10. /\ Agrees(Append(a, Command(j)) \o reads, loads, listing)
       /\ \A e : Contains(Append(a, Command(j)) \o reads, e) <=> Contains(a \o reads, e) \/ e = Command(j)
       /\ \A e, f : Before(e, f, a \o reads) => Before(e, f, Append(a, Command(j)) \o reads)
  BY <1>4, CommandPut
<1>. QED BY <1>4, <1>5, <1>9, <1>10

-----------------------------------------------------------------------------
(* Types, and who waits for what: a command is on its way, or its answer   *)
(* is, only of a handler that sent it, once; a handler that goes on behind *)
(* its command is a dialog's and has an item; and what was not sent is not *)
(* carried out.                                                            *)
Handled ==
  /\ IsInjective(commands)
  /\ \A j \in 1..MaxCommands : Contains(commands, j) => jobs[j].phase = "sent" /\ ~ Contains(Line, Command(j))
  /\ \A j \in 1..MaxCommands : Contains(Line, Command(j)) => jobs[j].phase = "sent"
  /\ \A j \in 1..MaxCommands : Waiting(j) => jobs[j].item \in Item
  /\ \A j \in 1..MaxCommands : jobs[j].phase \in {"listing", "loading"} => jobs[j].kind # "message"
  /\ \A j \in 1..MaxCommands : jobs[j].phase = "idle" => results[j].status = "none"

TypeInv == TypeOK /\ Handled

Values ==
  /\ rev \in [Item -> Nat] /\ file \in [Item -> Nat] /\ view \in [Item -> Nat]
  /\ up \subseteq {"read", "write"} /\ faults \in 0..MaxFaults /\ results \in [1..MaxCommands -> Result]
  /\ reads \in Seq(Asked) /\ commands \in Seq(1..MaxCommands) /\ replies \in Seq(Answered)
  /\ selected \in Item \cup {NoItem}
  /\ shown \in [Part -> [item : Item \cup {NoItem}, rev : Nat]]
  /\ listed \in [Item -> Nat]
  /\ dialog \in Dialog \cup {"none"}
  /\ jobs \in [1..MaxCommands -> Job]
  /\ inputs \in 0..MaxInputs /\ excuses \subseteq Excuse

LEMMA TypeOfValues ==
  TypeOK <=> Values /\ Agrees(Line, loads, listing)
<1>1. ASSUME TypeOK PROVE Values /\ Agrees(Line, loads, listing)
  BY <1>1, LineType DEF TypeOK, Values
<1>2. ASSUME Values, Agrees(Line, loads, listing) PROVE TypeOK
  BY <1>2 DEF TypeOK, Values, Agrees, Listing
<1>. QED BY <1>1, <1>2

LEMMA TypeKept ==
  ASSUME Values', Agrees(Line', loads', listing')
  PROVE  TypeOK'
BY DEF TypeOK, Values, Agrees, Listing

LEMMA PhaseFacts ==
  /\ Over \in Job /\ NotSent \in Job /\ ~ (Over.phase \in {"sent", "listing", "loading"})
  /\ \A x \in Job, p \in {"idle", "sent", "listing", "loading", "over"} :
       [x EXCEPT !.phase = p] \in Job /\ [x EXCEPT !.phase = p].phase = p
         /\ [x EXCEPT !.phase = p].item = x.item /\ [x EXCEPT !.phase = p].kind = x.kind
BY DEF Over, NotSent, Job

\* A handler goes on behind its command.
Turned(x, i) == [x EXCEPT !.phase = "listing", !.item = i]

LEMMA TurnFacts ==
  ASSUME NEW x \in Job, NEW i \in Item
  PROVE  /\ Turned(x, i) \in Job /\ Turned(x, i).phase = "listing"
         /\ Turned(x, i).item = i /\ Turned(x, i).kind = x.kind
<1>1. PICK z : z = [x EXCEPT !.phase = "listing"]
  OBVIOUS
<1>2. z \in Job /\ z.phase = "listing" /\ z.item = x.item /\ z.kind = x.kind
  BY <1>1 DEF Job
<1>3. Turned(x, i) = [z EXCEPT !.item = i]
  BY <1>1 DEF Turned
<1>. QED BY <1>2, <1>3 DEF Job

LEMMA InitType == Init => TypeInv
<1>. SUFFICES ASSUME Init PROVE TypeInv
  OBVIOUS
<1>1. Entries(replies) = <<>> /\ replies \in Seq(Answered) /\ commands \in Seq(1..MaxCommands)
  BY Empty DEF Init, Entries
<1>2. reads = <<Listing>> /\ <<Listing>> \in Seq(Entry) /\ <<Listing>> \in Seq(Asked)
      /\ IsInjective(<<Listing>>) /\ \A e : Contains(<<Listing>>, e) <=> e = Listing
  BY ReadFacts, Singleton DEF Init, Listing
<1>3. Line = <<Listing>>
  BY <1>1, <1>2, ConcatEmptySeq DEF Line
<1>4. Agrees(Line, loads, listing)
  BY <1>2, <1>3, ReadFacts DEF Agrees, Init
<1>5. Values
  <2>1. jobs \in [1..MaxCommands -> Job]
    BY PhaseFacts DEF Init
  <2>2. shown \in [Part -> [item : Item \cup {NoItem}, rev : Nat]]
    BY DEF Init, NotShown
  <2>3. /\ rev \in [Item -> Nat] /\ file \in [Item -> Nat] /\ view \in [Item -> Nat]
        /\ listed \in [Item -> Nat] /\ inputs \in 0..MaxInputs /\ faults \in 0..MaxFaults
    BY DEF Init
  <2>4. reads \in Seq(Asked) /\ dialog \in Dialog \cup {"none"} /\ excuses \subseteq Excuse
        /\ selected \in Item \cup {NoItem} /\ up \subseteq {"read", "write"}
    BY <1>2 DEF Init
  <2>5. results \in [1..MaxCommands -> Result]
    BY <2>3 DEF Init, Result
  <2>. QED BY <1>1, <2>1, <2>2, <2>3, <2>4, <2>5 DEF Values
<1>6. Handled
  <2>1. IsInjective(commands) /\ \A j : ~ Contains(commands, j)
    BY Empty DEF Init
  <2>2. \A j \in 1..MaxCommands : jobs[j].phase = "idle" /\ results[j].status = "none"
    BY DEF Init, NotSent
  <2>3. \A j : ~ Contains(Line, Command(j))
    BY <1>2, <1>3, ReadFacts
  <2>. QED BY <2>1, <2>2, <2>3 DEF Handled, Waiting
<1>. QED BY <1>4, <1>5, <1>6, TypeOfValues DEF TypeInv

\* Details are asked for behind a line; no command is among them.
LEMMA NewDetails ==
  ASSUME NEW items, NEW ld
  PROVE  \A e \in Wanted(items, ld) : e # Listing /\ \A j : e # Command(j)
BY ReadFacts DEF Wanted, Read, Listing, Command

LEMMA SelectStep ==
  ASSUME TypeInv, NEW i \in Item, Select(i)
  PROVE  TypeInv' /\ Queued(Line, Wanted({i}, loads), Line')
<1>1. Values /\ Agrees(Line, loads, listing) /\ TypeOK
  BY TypeOfValues DEF TypeInv
<1>2. IsFiniteSet({i}) /\ {i} \subseteq Item
  BY FS_Singleton
<1>3. PICK r \in SetToSeqs(Wanted({i}, loads)) :
      /\ reads' = reads \o r /\ replies' = replies
      /\ loads' = [x \in Item |-> IF x \in {i} /\ loads[x] = "none" THEN "detail" ELSE loads[x]]
  BY DEF Select, DetailReads, Effect, Wanted, Loading
<1>4. /\ Agrees(Line \o r, loads', listing) /\ r \in Seq(Asked)
      /\ Queued(Line, Wanted({i}, loads), Line \o r)
  <2>1. r \in Seq(Asked)
    BY <1>2, WantedFacts
  <2>. QED BY <1>1, <1>2, <1>3, <2>1, DetailsAsked
<1>5. Line' = Line \o r /\ reads' \in Seq(Asked)
  BY <1>1, <1>3, <1>4, LineAsked
<1>6. Values'
  <2>1. excuses' \subseteq Excuse
    BY <1>1 DEF Values, Select, Excuse
  <2>2. inputs' \in 0..MaxInputs /\ selected' \in Item
    BY <1>1 DEF Values, Select
  <2>3. UNCHANGED <<rev, file, view, up, faults, commands, results, replies, shown, listed, dialog, jobs>>
    BY DEF Select, store
  <2>. QED BY <1>1, <1>5, <2>1, <2>2, <2>3 DEF Values
<1>7. Agrees(Line', loads', listing')
  BY <1>4, <1>5 DEF Select
<1>8. TypeOK'
  BY <1>6, <1>7, TypeKept
<1>9. Handled'
  <2>1. \A j \in 1..MaxCommands : Contains(Line', Command(j)) <=> Contains(Line, Command(j))
    BY <1>4, <1>5, NewDetails DEF Queued
  <2>2. UNCHANGED <<jobs, commands, results>>
    BY DEF Select
  <2>. QED BY <2>1, <2>2 DEF TypeInv, Handled, Waiting, Command, Read
<1>. QED BY <1>4, <1>5, <1>8, <1>9 DEF TypeInv


LEMMA HandledKept ==
  ASSUME Handled, UNCHANGED <<commands, results>>, jobs' \in [1..MaxCommands -> Job],
         \A j \in 1..MaxCommands : Contains(Line', Command(j)) => Contains(Line, Command(j)),
         \A j \in 1..MaxCommands : jobs'[j] = jobs[j]
           \/ /\ ~ Contains(Line', Command(j)) /\ ~ Contains(commands, j)
              /\ \/ jobs'[j].phase = "over"
                 \/ jobs'[j].phase # "idle" /\ jobs'[j].kind # "message" /\ jobs'[j].item \in Item
  PROVE  Handled'
<1>1. IsInjective(commands')
  BY DEF Handled
<1>2. ASSUME NEW j \in 1..MaxCommands, jobs'[j] = jobs[j]
      PROVE  /\ Contains(commands', j) => jobs'[j].phase = "sent" /\ ~ Contains(Line', Command(j))
             /\ Contains(Line', Command(j)) => jobs'[j].phase = "sent"
             /\ Waiting(j)' => jobs'[j].item \in Item
             /\ jobs'[j].phase \in {"listing", "loading"} => jobs'[j].kind # "message"
             /\ jobs'[j].phase = "idle" => results'[j].status = "none"
  BY <1>2 DEF Handled, Waiting
<1>3. ASSUME NEW j \in 1..MaxCommands, ~ Contains(Line', Command(j)), ~ Contains(commands, j),
             \/ jobs'[j].phase = "over"
             \/ jobs'[j].phase # "idle" /\ jobs'[j].kind # "message" /\ jobs'[j].item \in Item
      PROVE  /\ Contains(commands', j) => jobs'[j].phase = "sent" /\ ~ Contains(Line', Command(j))
             /\ Contains(Line', Command(j)) => jobs'[j].phase = "sent"
             /\ Waiting(j)' => jobs'[j].item \in Item
             /\ jobs'[j].phase \in {"listing", "loading"} => jobs'[j].kind # "message"
             /\ jobs'[j].phase = "idle" => results'[j].status = "none"
  BY <1>3 DEF Waiting
<1>4. \A j \in 1..MaxCommands :
        /\ Contains(commands', j) => jobs'[j].phase = "sent" /\ ~ Contains(Line', Command(j))
        /\ Contains(Line', Command(j)) => jobs'[j].phase = "sent"
        /\ Waiting(j)' => jobs'[j].item \in Item
        /\ jobs'[j].phase \in {"listing", "loading"} => jobs'[j].kind # "message"
        /\ jobs'[j].phase = "idle" => results'[j].status = "none"
  BY <1>2, <1>3
<1>. QED BY <1>1, <1>4 DEF Handled, Command, Read, Waiting

\* The table arrives: the details that handlers wait for are asked for, and the first item's.
ListLoads == {jobs[j].item : j \in Resumed} \cup (IF Reply.ok /\ selected = NoItem THEN {First} ELSE {})

LEMMA ListLoadsFacts ==
  ASSUME TypeInv
  PROVE  IsFiniteSet(ListLoads) /\ ListLoads \subseteq Item
<1>. DEFINE f == [j \in Resumed |-> jobs[j].item]
            items == {jobs[j].item : j \in Resumed}
<1>1. Resumed \subseteq 1..MaxCommands /\ IsFiniteSet(1..MaxCommands)
  BY FS_Interval DEF Resumed, TypeInv, TypeOK
<1>2. IsFiniteSet(Resumed) /\ f \in Surjection(Resumed, items)
  BY <1>1, FS_Subset DEF Surjection
<1>3. IsFiniteSet(items)
  BY <1>2, FS_Surjection
<1>4. items \subseteq Item
  BY <1>1 DEF TypeInv, Handled, Waiting, Resumed
<1>5. IsFiniteSet({First}) /\ IsFiniteSet({})
  BY FS_Singleton, FS_EmptySet
<1>. QED BY <1>3, <1>4, <1>5, FS_Union DEF ListLoads

LEMMA ListStep ==
  ASSUME TypeInv, ListArrives
  PROVE  /\ TypeInv' /\ Line # <<>> /\ Head(Line) = Listing /\ listing
         /\ Queued(Tail(Line), Wanted(ListLoads, loads), Line')
         /\ loads' = Loading(ListLoads) /\ excuses' = excuses \cup Overtaken(ListLoads)
         /\ selected' = IF Reply.ok /\ selected = NoItem THEN First ELSE selected
<1>1. Values /\ Agrees(Line, loads, listing) /\ TypeOK /\ Handled
  BY TypeOfValues DEF TypeInv
<1>2. IsFiniteSet(ListLoads) /\ ListLoads \in SUBSET Item
  BY ListLoadsFacts
<1>3. selected' = (IF Reply.ok /\ selected = NoItem THEN First ELSE selected)
      /\ (selected' = selected <=> ~ (Reply.ok /\ selected = NoItem))
  BY DEF ListArrives
<1>4. PICK r \in SetToSeqs(Wanted(ListLoads, loads)) :
      /\ reads' = reads \o r /\ replies # <<>> /\ replies' = Tail(replies) /\ Reply.kind = "list"
      /\ loads' = Loading(ListLoads) /\ excuses' = excuses \cup Overtaken(ListLoads)
      /\ listing' = FALSE
  <2>1. {jobs[j].item : j \in Resumed} \cup (IF selected' = selected THEN {} ELSE Effect(First)) = ListLoads
    BY <1>3 DEF ListLoads, Effect
  <2>. QED BY <2>1 DEF ListArrives, Taken, DetailReads, Wanted
<1>5. /\ loads' = [x \in Item |-> IF x \in ListLoads /\ loads[x] = "none" THEN "detail" ELSE loads[x]]
      /\ r \in Seq(Asked)
  BY <1>2, <1>4, WantedFacts DEF Loading
<1>6. /\ Line # <<>> /\ Head(Line) = Read(Reply.kind, Reply.item) /\ Line' = Tail(Line) \o r
      /\ reads' \in Seq(Asked) /\ replies' \in Seq(Answered) /\ Reply \in Answered
  BY <1>1, <1>4, <1>5, LineTaken
<1>7. Head(Line) = Listing
  BY <1>4, <1>6, AnsweredType DEF Listing, Part
<1>8. listing = TRUE /\ Agrees(Tail(Line), loads, FALSE)
  BY <1>1, <1>6, <1>7, ListTaken
<1>9. Agrees(Tail(Line) \o r, loads', FALSE) /\ Queued(Tail(Line), Wanted(ListLoads, loads), Tail(Line) \o r)
  BY <1>2, <1>5, <1>8, DetailsAsked
<1>10. Agrees(Line', loads', listing') /\ Queued(Tail(Line), Wanted(ListLoads, loads), Line')
  BY <1>4, <1>6, <1>9
<1>11. jobs' \in [1..MaxCommands -> Job]
       /\ \A j \in 1..MaxCommands : jobs'[j] = IF j \in Resumed THEN [jobs[j] EXCEPT !.phase = "loading"] ELSE jobs[j]
  <2>1. jobs \in [1..MaxCommands -> Job]
    BY <1>1 DEF Values
  <2>2. \A j \in 1..MaxCommands : [jobs[j] EXCEPT !.phase = "loading"] \in Job
    BY <2>1, PhaseFacts
  <2>. QED BY <2>1, <2>2 DEF ListArrives
<1>12. Values'
  <2>1. selected' \in Item \cup {NoItem} /\ excuses' \subseteq Excuse
    BY <1>1, <1>3, <1>4 DEF Values, Overtaken, Excuse
  <2>2. listed' \in [Item -> Nat]
    BY <1>1, <1>6, AnsweredType DEF Values, ListArrives
  <2>. QED BY <1>1, <1>6, <1>11, <2>1, <2>2 DEF Values, ListArrives, store
<1>13. Handled'
  <2>1. ASSUME NEW j \in 1..MaxCommands, Contains(Line', Command(j)) PROVE Contains(Line, Command(j))
    <3>1. Contains(Tail(Line), Command(j))
      BY <1>10, <2>1, NewDetails DEF Queued
    <3>2. Line \in Seq(Entry) /\ IsInjective(Line)
      BY <1>1 DEF Agrees
    <3>. QED BY <1>6, <3>1, <3>2, Shorter
  <2>2. ASSUME NEW j \in Resumed
        PROVE  /\ ~ Contains(Line, Command(j)) /\ ~ Contains(commands, j)
               /\ jobs'[j].phase # "idle" /\ jobs'[j].kind # "message" /\ jobs'[j].item \in Item
    <3>1. j \in 1..MaxCommands /\ jobs[j] \in Job /\ jobs[j].phase = "listing"
      BY <1>1 DEF Resumed, Values
    <3>2. /\ ~ Contains(Line, Command(j)) /\ ~ Contains(commands, j)
          /\ jobs[j].kind # "message" /\ jobs[j].item \in Item
      BY <1>1, <3>1 DEF Handled, Waiting
    <3>3. jobs'[j] = [jobs[j] EXCEPT !.phase = "loading"]
      BY <1>11, <3>1
    <3>. QED BY <3>1, <3>2, <3>3, PhaseFacts
  <2>3. UNCHANGED <<commands, results>>
    BY DEF ListArrives
  <2>. QED BY <1>1, <1>11, <2>1, <2>2, <2>3, HandledKept
<1>14. TypeOK'
  BY <1>10, <1>12, TypeKept
<1>. QED BY <1>3, <1>4, <1>6, <1>7, <1>8, <1>10, <1>13, <1>14 DEF TypeInv


\* A part arrives: what follows it is asked for.
Continued(p) == IF Reply.ok THEN Following(p) ELSE "none"

LEMMA FollowingType ==
  ASSUME NEW p \in Part
  PROVE  Following(p) \in Part \cup {"none"} /\ Continued(p) \in Part \cup {"none"}
BY DEF Part, Following, Continued

LEMMA PartStep ==
  ASSUME TypeInv, NEW p \in Part, PartArrives(p)
  PROVE  /\ TypeInv' /\ Line # <<>> /\ Reply \in Answered /\ Reply.item \in Item
         /\ Head(Line) = Read(p, Reply.item)
         /\ loads[Reply.item] = p /\ loads' = [loads EXCEPT ![Reply.item] = Continued(p)]
         /\ Queued(Tail(Line), IF Continued(p) = "none" THEN {} ELSE {Read(Continued(p), Reply.item)}, Line')
<1>. DEFINE i == Reply.item
            next == Continued(p)
            r == IF next = "none" THEN <<>> ELSE <<Read(next, i)>>
            new == IF next = "none" THEN {} ELSE {Read(next, i)}
            ld == [loads EXCEPT ![i] = "none"]
            done == IF next = "none" THEN Finished(i) ELSE {}
<1>1. Values /\ Agrees(Line, loads, listing) /\ TypeOK /\ Handled
  BY TypeOfValues DEF TypeInv
<1>2. /\ replies # <<>> /\ Reply.kind = p /\ replies' = Tail(replies)
      /\ reads' = reads \o r /\ loads' = [loads EXCEPT ![i] = next]
      /\ shown' = IF Reply.ok THEN [shown EXCEPT ![p] = [item |-> i, rev |-> Reply.said[i]]] ELSE shown
      /\ jobs' = [j \in DOMAIN jobs |-> IF j \in done THEN Over ELSE jobs[j]]
      /\ dialog' \in {dialog, "none"}
      /\ UNCHANGED <<rev, file, view, up, faults, commands, results, selected, listed, listing, inputs, excuses>>
  BY DEF PartArrives, Taken, Continued, store
<1>3. Reply \in Answered
  BY <1>1, <1>2, LineType, TailFacts DEF Reply
<1>4. i \in Item /\ Reply.said \in [Item -> Nat]
  BY <1>2, <1>3, AnsweredType DEF Part
<1>5. next \in Part \cup {"none"}
  BY FollowingType
<1>. HIDE DEF next, i
<1>6. r \in Seq(Asked)
  BY <1>4, <1>5, ReadFacts, Singleton, Empty
<1>7. /\ Line # <<>> /\ Head(Line) = Read(p, i) /\ Line' = Tail(Line) \o r
      /\ reads' \in Seq(Asked) /\ replies' \in Seq(Answered) /\ Tail(Line) \in Seq(Entry)
  <2>. HIDE DEF r
  <2>. QED BY <1>1, <1>2, <1>6, LineTaken DEF i
<1>8. loads[i] = p /\ Agrees(Tail(Line), ld, listing)
  BY <1>1, <1>4, <1>7, PartTaken
<1>9. Agrees(Line', loads', listing) /\ Queued(Tail(Line), new, Line')
  <2>1. CASE next = "none"
    <3>1. Line' = Tail(Line) /\ loads' = ld
      BY <1>2, <1>7, <2>1, ConcatEmptySeq
    <3>. QED BY <1>8, <2>1, <3>1 DEF Queued
  <2>2. CASE next # "none"
    <3>1. next \in Part /\ ld[i] = "none" /\ [ld EXCEPT ![i] = next] = loads'
      BY <1>1, <1>2, <1>4, <1>5, <2>2 DEF Agrees
    <3>. HIDE DEF ld
    <3>2. /\ Agrees(Tail(Line) \o <<Read(next, i)>>, [ld EXCEPT ![i] = next], listing)
          /\ Queued(Tail(Line), {Read(next, i)}, Tail(Line) \o <<Read(next, i)>>)
      BY <1>4, <1>8, <3>1, PartAsked
    <3>. QED BY <1>7, <2>2, <3>1, <3>2
  <2>. QED BY <2>1, <2>2
<1>10. jobs' \in [1..MaxCommands -> Job]
       /\ \A j \in 1..MaxCommands : jobs'[j] = IF j \in done THEN Over ELSE jobs[j]
  <2>1. jobs \in [1..MaxCommands -> Job] /\ Over \in Job
    BY <1>1, PhaseFacts DEF Values
  <2>. QED BY <1>2, <2>1
<1>11. Values'
  <2>1. shown' \in [Part -> [item : Item \cup {NoItem}, rev : Nat]]
    BY <1>1, <1>2, <1>4 DEF Values
  <2>2. dialog' \in Dialog \cup {"none"}
    BY <1>1, <1>2 DEF Values
  <2>. QED BY <1>1, <1>2, <1>7, <1>10, <2>1, <2>2 DEF Values
<1>12. Handled'
  <2>1. ASSUME NEW j \in 1..MaxCommands, Contains(Line', Command(j)) PROVE Contains(Line, Command(j))
    <3>1. Contains(Tail(Line), Command(j))
      BY <1>4, <1>5, <1>9, <2>1, ReadFacts DEF Queued
    <3>2. Line \in Seq(Entry) /\ IsInjective(Line)
      BY <1>1 DEF Agrees
    <3>. QED BY <1>7, <3>1, <3>2, Shorter
  <2>2. ASSUME NEW j \in 1..MaxCommands, j \in done
        PROVE  ~ Contains(Line, Command(j)) /\ ~ Contains(commands, j) /\ jobs'[j].phase = "over"
    <3>1. jobs[j].phase = "loading" /\ jobs'[j] = Over
      BY <1>10, <2>2 DEF Finished
    <3>. QED BY <1>1, <3>1 DEF Handled, Over, NotSent
  <2>3. UNCHANGED <<commands, results>>
    BY <1>2
  <2>. QED BY <1>1, <1>10, <2>1, <2>2, <2>3, HandledKept
<1>13. TypeOK'
  BY <1>2, <1>9, <1>11, TypeKept
<1>. QED BY <1>2, <1>3, <1>4, <1>7, <1>8, <1>9, <1>12, <1>13 DEF TypeInv, i, next

\* A command's answer arrives: the table is asked for, and the detail of what is selected.
Resolves == Reply.ok \/ Reply.failed

LEMMA ReturnedFacts ==
  ASSUME TypeInv, Reply \in Answered, NEW j \in 1..MaxCommands, jobs[j].item \in Item
  PROVE  /\ Returned(j) \in [item : Item, rev : Nat]
         /\ Reply.ok => Returned(j).item = jobs[j].item /\ Returned(j).rev = Reply.said[jobs[j].item]
         /\ ~ Reply.ok => Returned(j).item = Placeholder /\ Returned(j).rev = 0
BY AnsweredType DEF Returned

LEMMA CommandStep ==
  ASSUME TypeInv, CommandEnds
  PROVE  /\ TypeInv' /\ Line # <<>> /\ Reply \in Answered /\ Reply.item \in 1..MaxCommands
         /\ Head(Line) = Command(Reply.item)
         /\ jobs[Reply.item].phase = "sent" /\ jobs[Reply.item].item \in Item
         /\ Resolves => Queued(Tail(Line), NewList(listing) \cup Wanted(Refreshed, loads), Line')
         /\ ~ Resolves => Line' = Tail(Line)
<1>. DEFINE j == Reply.item
            a == Missing(listing)
            new == NewList(listing) \cup Wanted(Refreshed, loads)
            mine == jobs[j].kind # "message"
<1>1. Values /\ Agrees(Line, loads, listing) /\ TypeOK /\ Handled
  BY TypeOfValues DEF TypeInv
<1>2. /\ replies # <<>> /\ Reply.kind = "command" /\ replies' = Tail(replies)
      /\ UNCHANGED <<rev, file, view, up, faults, commands, results, selected, listed, dialog, inputs>>
  BY DEF CommandEnds, Taken, store
<1>3. /\ Resolves => CommandResolves(j)
      /\ ~ Resolves => CommandRejects(j)
  BY DEF CommandEnds, Resolves
<1>4. Reply \in Answered
  BY <1>1, <1>2, LineType, TailFacts DEF Reply
<1>5. j \in 1..MaxCommands /\ Reply.said \in [Item -> Nat]
  BY <1>2, <1>4, AnsweredType DEF Part
<1>6. IsFiniteSet(Refreshed) /\ Refreshed \in SUBSET Item
  <2>1. Refreshed \subseteq {selected} /\ IsFiniteSet({selected})
    BY FS_Singleton DEF Refreshed
  <2>. QED BY <1>1, <2>1, FS_Subset DEF Refreshed, Values
<1>7. a \in Seq(Asked)
  BY <1>1, ListAsked
<1>8. PICK r \in Seq(Asked) :
        /\ reads' = reads \o r
        /\ Resolves => \E b \in SetToSeqs(Wanted(Refreshed, loads)) : b \in Seq(Asked) /\ r = a \o b
        /\ ~ Resolves => r = <<>>
  <2>1. CASE Resolves
    <3>1. PICK b \in SetToSeqs(Wanted(Refreshed, loads)) : reads' = (reads \o a) \o b
      BY <1>3, <2>1 DEF CommandResolves, DetailReads, Wanted, ListReads, Missing, Listing
    <3>. HIDE DEF a
    <3>2. b \in Seq(Asked)
      BY <1>6, WantedFacts
    <3>3. a \in Seq(Entry) /\ b \in Seq(Entry) /\ reads \in Seq(Entry)
      BY <1>1, <1>7, <3>2, LineType, ReadFacts, SeqMonotonic
    <3>4. (reads \o a) \o b = reads \o (a \o b)
      BY <3>3, Regrouped DEF Regroups
    <3>5. a \o b \in Seq(Asked)
      BY <1>7, <3>2, ConcatProperties
    <3>. QED BY <2>1, <3>1, <3>2, <3>4, <3>5
  <2>2. CASE ~ Resolves
    <3>1. reads' = reads /\ reads \in Seq(Asked)
      BY <1>1, <1>3, <2>2, LineType DEF CommandRejects
    <3>2. reads' = reads \o <<>> /\ <<>> \in Seq(Asked)
      BY <3>1, ConcatEmptySeq, Empty
    <3>. QED BY <2>2, <3>2
  <2>. QED BY <2>1, <2>2
<1>9. /\ Line # <<>> /\ Head(Line) = Command(j) /\ Line' = Tail(Line) \o r
      /\ reads' \in Seq(Asked) /\ replies' \in Seq(Answered) /\ Tail(Line) \in Seq(Entry)
  BY <1>1, <1>2, <1>8, LineTaken DEF Command
<1>10. Agrees(Tail(Line), loads, listing)
  BY <1>1, <1>9, CommandTaken
<1>11. jobs[j].phase = "sent" /\ jobs[j].item \in Item
       /\ ~ Contains(Tail(Line), Command(j)) /\ ~ Contains(commands, j)
  <2>1. Line \in Seq(Entry) /\ IsInjective(Line)
    BY <1>1 DEF Agrees
  <2>2. Contains(Line, Command(j)) /\ ~ Contains(Tail(Line), Command(j))
    BY <1>9, <2>1, Shorter
  <2>. QED BY <1>1, <1>5, <2>2 DEF Handled, Waiting
<1>12. /\ Agrees(Line', loads', listing')
       /\ Resolves => Queued(Tail(Line), new, Line')
       /\ ~ Resolves => Line' = Tail(Line)
  <2>1. CASE Resolves
    <3>. DEFINE m == Tail(Line) \o a
    <3>1. Agrees(m, loads, TRUE) /\ Queued(Tail(Line), NewList(listing), m)
      BY <1>10, ListAsked
    <3>. HIDE DEF m
    <3>2. loads' = [i \in Item |-> IF i \in Refreshed /\ loads[i] = "none" THEN "detail" ELSE loads[i]]
          /\ listing' = TRUE
      BY <1>3, <2>1 DEF Loading, CommandResolves
    <3>3. PICK b \in SetToSeqs(Wanted(Refreshed, loads)) : b \in Seq(Asked) /\ r = a \o b
      BY <1>8, <2>1
    <3>4. Agrees(m \o b, loads', TRUE) /\ Queued(m, Wanted(Refreshed, loads), m \o b)
      BY <1>6, <3>1, <3>2, DetailsAsked
    <3>5. Line' = m \o b
      <4>1. Line' = Tail(Line) \o (a \o b)
        BY <1>9, <3>3
      <4>2. a \in Seq(Entry) /\ b \in Seq(Entry)
        BY <1>7, <3>3, ReadFacts, SeqMonotonic
      <4>. HIDE DEF a
      <4>3. Regroups(Tail(Line), a, b)
        BY <1>9, <4>2, Regrouped
      <4>. QED BY <4>1, <4>3 DEF m, Regroups
    <3>6. Queued(Tail(Line), new, m \o b)
      BY <3>1, <3>4, QueuedTwice
    <3>. QED BY <2>1, <3>2, <3>4, <3>5, <3>6
  <2>2. CASE ~ Resolves
    <3>1. Line' = Tail(Line)
      BY <1>8, <1>9, <2>2, ConcatEmptySeq
    <3>. QED BY <1>3, <1>10, <2>2, <3>1 DEF CommandRejects
  <2>. QED BY <2>1, <2>2
<1>13. Returned(j) \in [item : Item, rev : Nat]
  BY <1>4, <1>5, <1>11, ReturnedFacts
<1>14. /\ jobs' \in [1..MaxCommands -> Job]
       /\ \A k \in 1..MaxCommands : k # j => jobs'[k] = jobs[k]
       /\ \/ jobs'[j].phase = "over"
          \/ jobs'[j].phase # "idle" /\ jobs'[j].kind # "message" /\ jobs'[j].item \in Item
  <2>0. jobs \in [1..MaxCommands -> Job] /\ jobs[j] \in Job
    BY <1>1, <1>5 DEF Values
  <2>1. CASE Resolves /\ mine
    <3>1. jobs' = [jobs EXCEPT ![j] = Turned(jobs[j], Returned(j).item)]
      BY <1>3, <2>1 DEF CommandResolves, Turned
    <3>2. PICK x \in Job, i \in Item : x = jobs[j] /\ i = Returned(j).item
      BY <1>13, <2>0
    <3>3. PICK y \in Job : y = Turned(x, i) /\ y.phase = "listing" /\ y.kind = x.kind /\ y.item = i
      BY TurnFacts
    <3>. QED BY <1>5, <2>0, <2>1, <3>1, <3>2, <3>3
  <2>2. CASE ~ (Resolves /\ mine)
    <3>1. jobs' = [jobs EXCEPT ![j] = Over]
      BY <1>3, <2>2 DEF CommandResolves, CommandRejects
    <3>2. Over \in Job /\ Over.phase = "over"
      BY PhaseFacts DEF Over, NotSent
    <3>. QED BY <1>5, <2>0, <3>1, <3>2
  <2>. QED BY <2>1, <2>2
<1>15. Values'
  <2>1. shown' \in [Part -> [item : Item \cup {NoItem}, rev : Nat]]
    <3>0. shown' = shown \/ shown' = [shown EXCEPT !["detail"] = Returned(j)]
      BY <1>3 DEF CommandResolves, CommandRejects
    <3>. QED BY <1>1, <1>13, <3>0 DEF Values
  <2>2. excuses' \subseteq Excuse
    BY <1>1, <1>3 DEF Values, Overtaken, Excuse, CommandResolves, CommandRejects
  <2>. QED BY <1>1, <1>2, <1>9, <1>14, <2>1, <2>2 DEF Values
<1>16. Handled'
  <2>1. ASSUME NEW k \in 1..MaxCommands, Contains(Line', Command(k)) PROVE Contains(Tail(Line), Command(k))
    BY <1>12, <2>1, NewDetails, ReadFacts DEF Queued, NewList
  <2>2. \A k \in 1..MaxCommands : Contains(Line', Command(k)) => Contains(Line, Command(k))
    BY <1>1, <1>9, <2>1, Shorter DEF Agrees
  <2>3. ~ Contains(Line', Command(j))
    BY <1>5, <1>11, <2>1
  <2>. QED BY <1>1, <1>2, <1>5, <1>11, <1>14, <2>2, <2>3, HandledKept
<1>17. TypeOK'
  BY <1>9, <1>12, <1>15, TypeKept
<1>. QED BY <1>4, <1>5, <1>9, <1>11, <1>12, <1>16, <1>17 DEF TypeInv


\* Steps of the children: what the renderer is to hear of stays, and a command is answered once.
LEMMA AnswerStep ==
  ASSUME TypeInv, AnswerRead
  PROVE  /\ TypeInv' /\ Line' = Line /\ "read" \in up
         /\ \E r \in Answered : replies' = Append(replies, r) /\ r.ok = TRUE /\ r.said = view
<1>1. Values /\ Agrees(Line, loads, listing) /\ TypeOK /\ Handled
  BY TypeOfValues DEF TypeInv
<1>2. /\ Line' = Line /\ reads' \in Seq(Asked) /\ replies' \in Seq(Answered)
      /\ \E r \in Answered : replies' = Append(replies, r) /\ r.ok = TRUE /\ r.said = view
  BY <1>1, LineAnswered
<1>3. UNCHANGED <<rev, file, view, up, faults, commands, results, selected, shown, listed, listing, loads, dialog,
                  jobs, inputs, excuses>> /\ "read" \in up
  BY DEF AnswerRead, panel, store
<1>4. Values' /\ Agrees(Line', loads', listing')
  BY <1>1, <1>2, <1>3 DEF Values
<1>5. TypeOK'
  BY <1>4, TypeKept
<1>6. Handled'
  BY <1>1, <1>2, <1>3, HandledKept DEF Values
<1>. QED BY <1>2, <1>3, <1>5, <1>6 DEF TypeInv

LEMMA NextCommand ==
  ASSUME TypeInv, commands # <<>>
  PROVE  LET j == Head(commands)
         IN  /\ j \in 1..MaxCommands /\ Contains(commands, j) /\ results[j].said \in [Item -> Nat]
             /\ jobs[j].phase = "sent" /\ ~ Contains(Line, Command(j)) /\ jobs[j].item \in Item
             /\ Tail(commands) \in Seq(1..MaxCommands) /\ IsInjective(Tail(commands))
             /\ \A k : Contains(Tail(commands), k) <=> Contains(commands, k) /\ k # j
<1>1. /\ commands \in Seq(1..MaxCommands) /\ IsInjective(commands)
      /\ \A j \in 1..MaxCommands : results[j].said \in [Item -> Nat]
  BY DEF TypeInv, TypeOK, Handled, Result
<1>2. /\ Head(commands) \in 1..MaxCommands /\ Contains(commands, Head(commands))
      /\ Tail(commands) \in Seq(1..MaxCommands) /\ IsInjective(Tail(commands))
      /\ \A k : Contains(Tail(commands), k) <=> Contains(commands, k) /\ k # Head(commands)
  BY <1>1, TailFacts, Shorter
<1>. QED BY <1>1, <1>2 DEF TypeInv, Handled, Waiting

LEMMA HandledEnded ==
  ASSUME TypeInv, commands # <<>>, commands' = Tail(commands), UNCHANGED <<jobs, results>>,
         \A e : Contains(Line', e) <=> Contains(Line, e) \/ e = Command(Head(commands))
  PROVE  Handled'
<1>. DEFINE j == Head(commands)
<1>1. /\ j \in 1..MaxCommands /\ jobs[j].phase = "sent" /\ IsInjective(Tail(commands))
      /\ \A k : Contains(Tail(commands), k) <=> Contains(commands, k) /\ k # j
  BY NextCommand
<1>. HIDE DEF j
<1>2. \A k : Contains(Line', Command(k)) <=> Contains(Line, Command(k)) \/ k = j
  <2>1. \A k : Command(k) = Command(j) <=> k = j
    BY ReadFacts DEF Command
  <2>. QED BY <2>1 DEF j
<1>. QED BY <1>1, <1>2 DEF TypeInv, Handled, Waiting, Command, Read

LEMMA PerformStep ==
  ASSUME TypeInv, Perform
  PROVE  LET j == Head(commands)
         IN  /\ TypeInv' /\ j \in 1..MaxCommands /\ results[j].said \in [Item -> Nat]
             /\ commands # <<>> /\ results[j].status = "ok" /\ commands' = Tail(commands)
             /\ up' = up \ {"read"}
             /\ \E r \in Answered : /\ replies' = replies \o Rejected \o <<r>>
                                    /\ Ends(r, j) /\ r.ok = TRUE /\ r.said = results[j].said
             /\ \A e, f : Before(e, f, Line) => Before(e, f, Line')
<1>. DEFINE j == Head(commands)
<1>1. Values /\ Agrees(Line, loads, listing) /\ TypeOK /\ Handled
  BY TypeOfValues DEF TypeInv
<1>2. /\ commands # <<>> /\ commands' = Tail(commands) /\ reads' = <<>>
      /\ results[j].status = "ok" /\ up' = up \ {"read"}
      /\ replies' = replies \o Rejected \o <<Answer(Command(j), results[j].said, TRUE, FALSE)>>
      /\ UNCHANGED <<rev, file, view, faults, results, selected, shown, listed, listing, loads, dialog, jobs,
                     inputs, excuses>>
  BY DEF Perform, Invalidated, panel
<1>3. /\ j \in 1..MaxCommands /\ ~ Contains(Line, Command(j))
      /\ commands' \in Seq(1..MaxCommands) /\ results[j].said \in [Item -> Nat]
  BY <1>2, NextCommand
<1>. HIDE DEF j
<1>4. PICK said \in [Item -> Nat] : said = results[j].said
  BY <1>3
<1>5. PICK r : r = Answer(Command(j), said, TRUE, FALSE)
  OBVIOUS
<1>6. Ends(r, j) /\ r.ok = TRUE /\ r.said = said /\ r \in Answered /\ replies' = replies \o Rejected \o <<r>>
  <2>1. Ends(r, j) /\ r.ok = TRUE /\ r.said = said
    <3>1. PICK m \in 1..MaxCommands : m = j
      BY <1>3
    <3>2. r = Answer(Command(m), said, TRUE, FALSE)
      BY <1>5, <3>1
    <3>3. Ends(r, m) /\ r.ok = TRUE /\ r.said = said
      BY <3>2, EndedFacts
    <3>. QED BY <3>1, <3>3
  <2>2. replies' = replies \o Rejected \o <<r>>
    BY <1>2, <1>4, <1>5
  <2>. QED BY <2>1, <2>2 DEF Ends
<1>7. /\ reads' \in Seq(Asked) /\ replies' \in Seq(Answered)
      /\ Agrees(Line', loads, listing)
      /\ \A e : Contains(Line', e) <=> Contains(Line, e) \/ e = Command(j)
      /\ \A e, f : Before(e, f, Line) => Before(e, f, Line')
  BY <1>1, <1>2, <1>3, <1>6, LinePerformed
<1>8. Values' /\ Agrees(Line', loads', listing')
  BY <1>1, <1>2, <1>3, <1>7 DEF Values
<1>9. TypeOK'
  BY <1>8, TypeKept
<1>10. Handled'
  BY <1>2, <1>7, HandledEnded DEF j
<1>. QED BY <1>2, <1>3, <1>4, <1>6, <1>7, <1>9, <1>10 DEF TypeInv, j

LEMMA OneMore ==
  ASSUME NEW n \in 0..MaxFaults, n < MaxFaults
  PROVE  n + 1 \in 0..MaxFaults
OBVIOUS

\* A command fails or is rejected: it has no more to tell.
LEMMA EndStep ==
  ASSUME TypeInv, commands # <<>>, commands' = Tail(commands), NEW r, Ends(r, Head(commands)),
         replies' = Append(replies, r),
         up' \subseteq {"read", "write"}, faults' \in 0..MaxFaults, excuses' \subseteq Excuse,
         UNCHANGED <<rev, file, view, reads, results, panel>>
  PROVE  /\ TypeInv'
         /\ \A e, f : Before(e, f, Line) => Before(e, f, Line')
<1>. DEFINE j == Head(commands)
<1>1. Values /\ Agrees(Line, loads, listing) /\ TypeOK /\ Handled
  BY TypeOfValues DEF TypeInv
<1>2. UNCHANGED <<selected, shown, listed, listing, loads, dialog, jobs, inputs>>
  BY DEF panel
<1>3. j \in 1..MaxCommands /\ ~ Contains(Line, Command(j)) /\ commands' \in Seq(1..MaxCommands)
  BY NextCommand
<1>4. Ends(r, j)
  OBVIOUS
<1>. HIDE DEF j
<1>6. /\ replies' \in Seq(Answered) /\ Agrees(Line', loads, listing)
      /\ \A e : Contains(Line', e) <=> Contains(Line, e) \/ e = Command(j)
      /\ \A e, f : Before(e, f, Line) => Before(e, f, Line')
  BY <1>1, <1>3, <1>4, LineRefused
<1>7. Values' /\ Agrees(Line', loads', listing')
  BY <1>1, <1>2, <1>3, <1>6 DEF Values
<1>8. TypeOK'
  BY <1>7, TypeKept
<1>9. Handled'
  BY <1>2, <1>6, HandledEnded DEF j
<1>. QED BY <1>6, <1>8, <1>9 DEF TypeInv

LEMMA EndsStep ==
  ASSUME TypeInv, Fail \/ Refuse
  PROVE  /\ TypeInv'
         /\ \A e, f : Before(e, f, Line) => Before(e, f, Line')
         /\ \E r \in Answered : replies' = Append(replies, r) /\ r.kind = "command" /\ r.ok = FALSE
         /\ commands # <<>> /\ commands' = Tail(commands)
         /\ up' \in {up, up \ {"write"}} /\ excuses \subseteq excuses'
         /\ results[Head(commands)].status # "ok" \/ "unseen" \in excuses'
         /\ UNCHANGED <<rev, file, view, results, panel>>
<1>1. Values
  BY TypeOfValues DEF TypeInv
<1>2. PICK r :
        /\ r \in {Answer(Command(Head(commands)), view, FALSE, TRUE), Answer(Command(Head(commands)), view, FALSE, FALSE)}
        /\ replies' = Append(replies, r)
        /\ commands # <<>> /\ commands' = Tail(commands)
        /\ UNCHANGED <<rev, file, view, reads, results, panel>>
        /\ faults' = faults \/ (faults < MaxFaults /\ faults' = faults + 1)
        /\ up' \in {up, up \ {"write"}} /\ excuses \subseteq excuses' /\ excuses' \subseteq excuses \cup {"unseen"}
        /\ results[Head(commands)].status # "ok" \/ "unseen" \in excuses'
  <2>1. CASE Fail
    BY <2>1 DEF Fail, store
  <2>2. CASE Refuse
    BY <2>2 DEF Refuse
  <2>. QED BY <2>1, <2>2
<1>3. Ends(r, Head(commands)) /\ r.ok = FALSE
  <2>1. PICK j \in 1..MaxCommands, said \in [Item -> Nat] : j = Head(commands) /\ said = view
    BY <1>1, <1>2, NextCommand DEF Values
  <2>. QED BY <1>2, <2>1, EndedFacts
<1>4. faults' \in 0..MaxFaults
  BY <1>1, <1>2, OneMore DEF Values
<1>5. up' \subseteq {"read", "write"} /\ excuses' \subseteq Excuse
  BY <1>1, <1>2 DEF Values, Excuse
<1>6. /\ TypeInv'
      /\ \A e, f : Before(e, f, Line) => Before(e, f, Line')
  BY <1>2, <1>3, <1>4, <1>5, EndStep
<1>. QED BY <1>2, <1>3, <1>6 DEF Ends

LEMMA LossStep ==
  ASSUME TypeInv, LoseReadChild
  PROVE  TypeInv' /\ Line' = Line
<1>1. Values /\ Agrees(Line, loads, listing) /\ TypeOK /\ Handled
  BY TypeOfValues DEF TypeInv
<1>2. /\ Line' = Line /\ reads' \in Seq(Asked) /\ replies' \in Seq(Answered)
  BY <1>1, LineLost DEF LoseReadChild
<1>3. /\ up' = up \ {"read"} /\ excuses' = excuses \cup {"lost"} /\ faults < MaxFaults /\ faults' = faults + 1
      /\ UNCHANGED <<rev, file, view, commands, results, selected, shown, listed, listing, loads, dialog, jobs,
                     inputs>>
  BY DEF LoseReadChild, panel
<1>4. Values' /\ Agrees(Line', loads', listing')
  <2>1. faults' \in 0..MaxFaults
    BY <1>1, <1>3, OneMore DEF Values
  <2>2. up' \subseteq {"read", "write"} /\ excuses' \subseteq Excuse
    BY <1>1, <1>3 DEF Values, Excuse
  <2>. QED BY <1>1, <1>2, <1>3, <2>1, <2>2 DEF Values
<1>5. TypeOK'
  BY <1>4, TypeKept
<1>6. Handled'
  BY <1>1, <1>2, <1>3, HandledKept DEF Values
<1>. QED BY <1>2, <1>5, <1>6 DEF TypeInv

\* Commands are sent by handlers, with an item.
LEMMA SendStep ==
  ASSUME TypeInv, NEW j \in 1..MaxCommands, NEW kind \in Dialog \cup {"message"}, NEW i \in Item,
         Send(j, kind, i)
  PROVE  TypeInv' /\ Line' = Line
<1>1. Values /\ Agrees(Line, loads, listing) /\ TypeOK /\ Handled
  BY TypeOfValues DEF TypeInv
<1>2. /\ jobs[j].phase = "idle" /\ commands' = Append(commands, j)
      /\ jobs' = [jobs EXCEPT ![j] = [phase |-> "sent", kind |-> kind, item |-> i]]
      /\ inputs < MaxInputs /\ inputs' = inputs + 1
      /\ UNCHANGED <<rev, file, view, up, faults, reads, results, replies, selected, shown, listed, listing, loads,
                     dialog, excuses>>
  BY DEF Send, store
<1>3. Line' = Line
  BY <1>2 DEF Line, Entries
<1>4. PICK q \in Seq(1..MaxCommands) : q = <<j>> /\ IsInjective(q) /\ \A k : Contains(q, k) <=> k = j
  BY Singleton
<1>5. /\ ~ Contains(commands, j) /\ ~ Contains(Line, Command(j))
      /\ commands \in Seq(1..MaxCommands) /\ IsInjective(commands)
  BY <1>1, <1>2 DEF Handled, Values
<1>6. commands' = commands \o q
  BY <1>2, <1>4, <1>5, AppendIsConcat
<1>7. /\ commands' \in Seq(1..MaxCommands) /\ IsInjective(commands')
      /\ \A k : Contains(commands', k) <=> Contains(commands, k) \/ k = j
  <2>1. \A k : Contains(q, k) => ~ Contains(commands, k)
    BY <1>4, <1>5
  <2>. DEFINE S == 1..MaxCommands
  <2>2. commands \in Seq(S) /\ q \in Seq(S) /\ IsInjective(commands) /\ IsInjective(q)
    BY <1>4, <1>5
  <2>. HIDE DEF S
  <2>3. /\ commands \o q \in Seq(S) /\ IsInjective(commands \o q)
        /\ \A k : Contains(commands \o q, k) <=> Contains(commands, k) \/ Contains(q, k)
    BY <2>1, <2>2, Longer
  <2>. QED BY <1>4, <1>6, <2>3 DEF S
<1>8. jobs' \in [1..MaxCommands -> Job]
  BY <1>1, <1>2 DEF Values, Job
<1>9. Values' /\ Agrees(Line', loads', listing')
  <2>1. inputs \in 0..MaxInputs /\ inputs' = inputs + 1 /\ inputs < MaxInputs
    BY <1>1, <1>2 DEF Values
  <2>2. inputs' \in 0..MaxInputs
    BY <2>1
  <2>. QED BY <1>1, <1>2, <1>3, <1>7, <1>8, <2>2 DEF Values
<1>10. TypeOK'
  BY <1>9, TypeKept
<1>11. Handled'
  <2>1. ASSUME NEW k \in 1..MaxCommands
        PROVE  /\ Contains(commands', k) => jobs'[k].phase = "sent" /\ ~ Contains(Line', Command(k))
               /\ Contains(Line', Command(k)) => jobs'[k].phase = "sent"
               /\ Waiting(k)' => jobs'[k].item \in Item
               /\ jobs'[k].phase \in {"listing", "loading"} => jobs'[k].kind # "message"
               /\ jobs'[k].phase = "idle" => results'[k].status = "none"
    <3>1. CASE k = j
      BY <1>1, <1>2, <1>3, <1>5, <3>1 DEF Values, Waiting
    <3>2. CASE k # j
      BY <1>1, <1>2, <1>3, <1>7, <3>2 DEF Values, Handled, Waiting
    <3>. QED BY <3>1, <3>2
  <2>. QED BY <1>7, <2>1 DEF Handled, Waiting, Command, Read
<1>. QED BY <1>3, <1>10, <1>11 DEF TypeInv

\* What the renderer sees and is to hear of stays, and what was sent.
LEMMA StillStep ==
  ASSUME TypeInv, dialog' \in Dialog \cup {"none"}, excuses' \subseteq Excuse,
         rev' \in [Item -> Nat], file' \in [Item -> Nat], view' \in [Item -> Nat],
         up' \subseteq {"read", "write"}, faults' \in 0..MaxFaults, results' \in [1..MaxCommands -> Result],
         \A j \in 1..MaxCommands : jobs[j].phase = "idle" => results'[j].status = "none",
         UNCHANGED <<reads, commands, replies, selected, shown, listed, listing, loads, jobs, inputs>>
  PROVE  TypeInv' /\ Line' = Line
<1>1. Values /\ Agrees(Line, loads, listing) /\ TypeOK /\ Handled
  BY TypeOfValues DEF TypeInv
<1>2. Line' = Line
  BY DEF Line, Entries
<1>3. Values' /\ Agrees(Line', loads', listing')
  BY <1>1, <1>2 DEF Values
<1>4. TypeOK'
  BY <1>3, TypeKept
<1>5. Handled'
  BY <1>1, <1>2 DEF Handled, Waiting, Command, Read
<1>. QED BY <1>2, <1>4, <1>5 DEF TypeInv

LEMMA DialogStep ==
  ASSUME TypeInv, CloseDialog \/ (\E d \in Dialog : OpenDialog(d)) \/ UNCHANGED vars
  PROVE  /\ TypeInv' /\ Line' = Line
         /\ UNCHANGED <<rev, file, view, up, reads, commands, results, replies, selected, shown, listed, listing,
                        loads, jobs, excuses>>
<1>1. Values /\ Handled
  BY TypeOfValues DEF TypeInv
<1>2. /\ UNCHANGED <<rev, file, view, up, faults, reads, commands, results, replies, selected, shown, listed,
                     listing, loads, jobs, inputs, excuses>>
      /\ dialog' \in Dialog \cup {"none"}
  BY <1>1 DEF CloseDialog, OpenDialog, vars, panel, store, Values
<1>3. /\ dialog' \in Dialog \cup {"none"} /\ excuses' \subseteq Excuse
      /\ rev' \in [Item -> Nat] /\ file' \in [Item -> Nat] /\ view' \in [Item -> Nat]
      /\ up' \subseteq {"read", "write"} /\ faults' \in 0..MaxFaults /\ results' \in [1..MaxCommands -> Result]
      /\ \A j \in 1..MaxCommands : jobs[j].phase = "idle" => results'[j].status = "none"
  BY <1>1, <1>2 DEF Values, Handled
<1>. QED BY <1>2, <1>3, StillStep

LEMMA ReadChildStep ==
  ASSUME TypeInv, LoadReadChild \/ SaveReadChild
  PROVE  /\ TypeInv' /\ Line' = Line
         /\ UNCHANGED <<rev, reads, commands, results, replies, panel>>
         /\ \/ "read" \notin up /\ view' = file /\ file' = file /\ up' = up \cup {"read"} /\ excuses' = excuses
            \/ /\ "read" \in up /\ UNCHANGED <<view, up>> /\ file' = view
               /\ excuses' = excuses \cup IF view = rev THEN {} ELSE {"behind"}
<1>1. Values /\ Handled
  BY TypeOfValues DEF TypeInv
<1>2. /\ UNCHANGED <<rev, faults, reads, commands, results, replies, panel>>
      /\ \/ "read" \notin up /\ view' = file /\ file' = file /\ up' = up \cup {"read"} /\ excuses' = excuses
         \/ /\ "read" \in up /\ UNCHANGED <<view, up>> /\ file' = view
            /\ excuses' = excuses \cup IF view = rev THEN {} ELSE {"behind"}
  BY DEF LoadReadChild, SaveReadChild
<1>3. UNCHANGED <<selected, shown, listed, listing, loads, dialog, jobs, inputs>>
  BY <1>2 DEF panel
<1>4. /\ dialog' \in Dialog \cup {"none"} /\ excuses' \subseteq Excuse
      /\ rev' \in [Item -> Nat] /\ file' \in [Item -> Nat] /\ view' \in [Item -> Nat]
      /\ up' \subseteq {"read", "write"} /\ faults' \in 0..MaxFaults /\ results' \in [1..MaxCommands -> Result]
      /\ \A j \in 1..MaxCommands : jobs[j].phase = "idle" => results'[j].status = "none"
  BY <1>1, <1>2, <1>3 DEF Values, Handled, Excuse
<1>. QED BY <1>2, <1>3, <1>4, StillStep

\* The environment that a command finds, and what it makes of it.
Found == IF "write" \in up THEN rev ELSE file
Made(c, i) == IF c.changed THEN [Found EXCEPT ![i] = @ + 1] ELSE Found
Carries(k, c, i) ==
  /\ results[commands[k]].status = "none"
  /\ \A l \in 1..(k - 1) : results[commands[l]].status # "none"
  /\ rev' = Made(c, i)
  /\ file' = IF c.saved THEN rev' ELSE file
  /\ up' = up \cup {"write"}
  /\ results' = [results EXCEPT ![commands[k]] = [status |-> IF c.ok THEN "ok" ELSE "error", said |-> rev']]
  /\ excuses' = excuses
       \cup (IF file' = rev' THEN {} ELSE {"behind"})
       \cup (IF c.changed /\ ~ c.ok THEN {"unseen"} ELSE {})
       \cup (IF k > 1 THEN {"outrun"} ELSE {})

LEMMA CarryOutStep ==
  ASSUME TypeInv, CarryOut
  PROVE  /\ TypeInv' /\ Line' = Line
         /\ UNCHANGED <<view, reads, commands, replies, panel>>
         /\ \E k \in DOMAIN commands, c \in Course, i \in Item :
              commands[k] \in 1..MaxCommands /\ rev' \in [Item -> Nat] /\ Carries(k, c, i)
<1>1. Values /\ Handled
  BY TypeOfValues DEF TypeInv
<1>2. PICK k \in DOMAIN commands, c \in Course :
        /\ Carries(k, c, jobs[commands[k]].item)
        /\ faults' = IF c.ok /\ c.saved THEN faults ELSE faults + 1
        /\ UNCHANGED <<view, reads, commands, replies, panel>>
  BY DEF CarryOut, Carries, Found, Made
<1>3. commands[k] \in 1..MaxCommands /\ Contains(commands, commands[k])
  BY <1>1, MemberType DEF Values
<1>4. jobs[commands[k]].phase = "sent" /\ jobs[commands[k]].item \in Item
  BY <1>1, <1>3 DEF Handled, Waiting
<1>5. PICK j \in 1..MaxCommands, i \in Item : j = commands[k] /\ i = jobs[j].item /\ jobs[j].phase = "sent"
  BY <1>3, <1>4
<1>6. c \in [ok : BOOLEAN, changed : BOOLEAN, saved : BOOLEAN] /\ ((c.ok /\ c.saved) \/ faults < MaxFaults)
  BY DEF Course
<1>7. rev' \in [Item -> Nat]
  <2>1. Found \in [Item -> Nat]
    BY <1>1 DEF Values, Found
  <2>2. [Found EXCEPT ![i] = @ + 1] \in [Item -> Nat]
    BY <2>1
  <2>. QED BY <1>2, <1>5, <2>1, <2>2 DEF Carries, Made
<1>8. file' \in [Item -> Nat] /\ up' \subseteq {"read", "write"} /\ excuses' \subseteq Excuse
  BY <1>1, <1>2, <1>7 DEF Carries, Values, Excuse
<1>9. faults' \in 0..MaxFaults
  BY <1>1, <1>2, <1>6 DEF Values
<1>10. results' \in [1..MaxCommands -> Result] /\ \A m \in 1..MaxCommands : m # j => results'[m] = results[m]
  <2>1. [status |-> IF c.ok THEN "ok" ELSE "error", said |-> rev'] \in Result
    BY <1>6, <1>7 DEF Result
  <2>2. results \in [1..MaxCommands -> Result]
    BY <1>1 DEF Values
  <2>3. results' = [results EXCEPT ![j] = [status |-> IF c.ok THEN "ok" ELSE "error", said |-> rev']]
    BY <1>2, <1>5 DEF Carries
  <2>. QED BY <2>1, <2>2, <2>3
<1>11. \A m \in 1..MaxCommands : jobs[m].phase = "idle" => results'[m].status = "none"
  BY <1>1, <1>5, <1>10 DEF Handled
<1>12. UNCHANGED <<selected, shown, listed, listing, loads, dialog, jobs, inputs>> /\ dialog' \in Dialog \cup {"none"}
  BY <1>1, <1>2 DEF panel, Values
<1>13. view' \in [Item -> Nat]
  BY <1>1, <1>2 DEF Values
<1>14. TypeInv' /\ Line' = Line
  BY <1>2, <1>7, <1>8, <1>9, <1>10, <1>11, <1>12, <1>13, StillStep
<1>. QED BY <1>2, <1>3, <1>4, <1>7, <1>14

LEMMA ConfirmStep ==
  ASSUME TypeInv, NEW j \in 1..MaxCommands, Confirm(j)
  PROVE  TypeInv' /\ Line' = Line /\ selected \in Item /\ dialog \in Dialog /\ Send(j, dialog, selected)
<1>1. selected \in Item /\ dialog \in Dialog /\ Send(j, dialog, selected)
  BY DEF Confirm, TypeInv, TypeOK
<1>2. PICK i \in Item, d \in Dialog \cup {"message"} : i = selected /\ d = dialog
  BY <1>1
<1>. QED BY <1>1, <1>2, SendStep

LEMMA NextType == TypeInv /\ [Next]_vars => TypeInv'
<1>. SUFFICES ASSUME TypeInv, [Next]_vars PROVE TypeInv'
  OBVIOUS
<1>1. ASSUME NEW i \in Item, Select(i) PROVE TypeInv'
  BY <1>1, SelectStep
<1>2. ASSUME CloseDialog \/ (\E d \in Dialog : OpenDialog(d)) \/ UNCHANGED vars PROVE TypeInv'
  BY <1>2, DialogStep
<1>3. ASSUME NEW j \in 1..MaxCommands, Confirm(j) PROVE TypeInv'
  BY <1>3, ConfirmStep
<1>4. ASSUME NEW j \in 1..MaxCommands, NEW i \in Item, Message(j, i) PROVE TypeInv'
  BY <1>4, SendStep DEF Message
<1>5. ASSUME LoadReadChild \/ SaveReadChild PROVE TypeInv'
  BY <1>5, ReadChildStep
<1>6. ASSUME CarryOut PROVE TypeInv'
  BY <1>6, CarryOutStep
<1>7. ASSUME AnswerRead PROVE TypeInv'
  BY <1>7, AnswerStep
<1>8. ASSUME Perform PROVE TypeInv'
  BY <1>8, PerformStep
<1>9. ASSUME Fail \/ Refuse PROVE TypeInv'
  BY <1>9, EndsStep
<1>10. ASSUME LoseReadChild PROVE TypeInv'
  BY <1>10, LossStep
<1>11. ASSUME ListArrives PROVE TypeInv'
  BY <1>11, ListStep
<1>12. ASSUME NEW p \in Part, PartArrives(p) PROVE TypeInv'
  BY <1>12, PartStep
<1>13. ASSUME CommandEnds PROVE TypeInv'
  BY <1>13, CommandStep
<1>. QED BY <1>1, <1>2, <1>3, <1>4, <1>5, <1>6, <1>7, <1>8, <1>9, <1>10, <1>11, <1>12, <1>13 DEF Next, Deliver

LEMMA TypeInvariant == Spec => []TypeInv
BY InitType, NextType, PTL DEF Spec

(* Values have their types; and what is entered as under way, the table or *)
(* a part of an item, is what the read child is still asked or has         *)
(* answered, none of it twice.                                             *)
THEOREM TypeCorrect == Spec => []TypeOK
BY TypeInvariant, PTL DEF TypeInv
-----------------------------------------------------------------------------
(* Revisions, while the state file is not behind the environment: what is  *)
(* shown is no newer than any answer that is still to come, and the        *)
(* answers come in the order in which they were read.                      *)
AtMost(v, w) == \A i \in Item : v[i] <= w[i]

\* What the read child says next, and whether a command waits for its answer to be taken.
Sight == IF "read" \in up THEN view ELSE file
Carried(k) == results[commands[k]].status = "ok"

Filed ==
  /\ file = rev /\ AtMost(Sight, rev)
  /\ \A k \in DOMAIN commands : Carried(k) => k = 1 /\ results[commands[k]].said = rev

Rising ==
  /\ AtMost(listed, Sight)
  /\ \A k \in DOMAIN replies : replies[k].ok => AtMost(listed, replies[k].said) /\ AtMost(replies[k].said, Sight)
  /\ \A k, l \in DOMAIN replies :
       k < l /\ replies[k].ok /\ replies[l].ok => AtMost(replies[k].said, replies[l].said)
  /\ \A p \in Part : shown[p].item # NoItem =>
       /\ shown[p].rev <= Sight[shown[p].item]
       /\ \A k \in DOMAIN replies : replies[k].ok => shown[p].rev <= replies[k].said[shown[p].item]

Steady == excuses \cap {"behind", "outrun"} = {}

Ordered == Steady => Filed /\ Rising

LEMMA SightType ==
  ASSUME TypeInv
  PROVE  /\ Sight \in [Item -> Nat] /\ file \in [Item -> Nat] /\ view \in [Item -> Nat] /\ rev \in [Item -> Nat]
         /\ listed \in [Item -> Nat] /\ replies \in Seq(Answered)
         /\ shown \in [Part -> [item : Item \cup {NoItem}, rev : Nat]]
BY DEF Sight, TypeInv, TypeOK

\* Excuses are never withdrawn.
LEMMA ExcusesGrow == [Next]_vars => excuses \subseteq excuses'
<1>. SUFFICES ASSUME [Next]_vars PROVE excuses \subseteq excuses'
  OBVIOUS
<1>1. CASE (\E i \in Item : Select(i)) \/ CloseDialog \/ (\E d \in Dialog : OpenDialog(d)) \/ UNCHANGED vars
  BY <1>1 DEF Select, CloseDialog, OpenDialog, vars
<1>2. CASE \E j \in 1..MaxCommands : Confirm(j) \/ \E i \in Item : Message(j, i)
  BY <1>2 DEF Confirm, Message, Send
<1>3. CASE LoadReadChild \/ SaveReadChild \/ CarryOut \/ AnswerRead \/ Perform \/ Fail \/ Refuse \/ LoseReadChild
  BY <1>3 DEF LoadReadChild, SaveReadChild, CarryOut, AnswerRead, Perform, Fail, Refuse, LoseReadChild
<1>4. CASE ListArrives \/ \E p \in Part : PartArrives(p)
  BY <1>4 DEF ListArrives, PartArrives
<1>5. CASE CommandEnds
  BY <1>5 DEF CommandEnds, CommandResolves, CommandRejects
<1>. QED BY <1>1, <1>2, <1>3, <1>4, <1>5 DEF Next, Deliver

\* Answers that are added behind tell the environment as it is told from here on, or nothing.
Added(old, new, told) ==
  /\ \A k \in DOMAIN old : k \in DOMAIN new /\ new[k] = old[k]
  /\ \A k \in DOMAIN new : \/ k \in DOMAIN old
                           \/ /\ \A l \in DOMAIN old : l < k
                              /\ new[k].ok => new[k].said = told

LEMMA ReplyType ==
  ASSUME TypeInv
  PROVE  /\ replies \in Seq(Answered) /\ DOMAIN replies = 1..Len(replies) /\ Len(replies) \in Nat
         /\ \A k \in DOMAIN replies : replies[k] \in Answered /\ replies[k].said \in [Item -> Nat]
                                      /\ k \in Nat \ {0}
BY MemberType, AnsweredType, LenProperties DEF TypeInv, TypeOK

LEMMA InitOrdered == Init => Ordered
<1>. SUFFICES ASSUME Init PROVE Filed /\ Rising
  BY DEF Ordered
<1>1. DOMAIN replies = {} /\ DOMAIN commands = {}
  BY Empty DEF Init
<1>2. \A p \in Part : shown[p].item = NoItem
  BY DEF Init, NotShown
<1>3. file = rev /\ Sight = rev /\ AtMost(Sight, rev) /\ AtMost(listed, Sight)
  BY DEF Init, AtMost, Sight
<1>. QED BY <1>1, <1>2, <1>3 DEF Filed, Rising

LEMMA AtMostFacts ==
  /\ \A u, v, w \in [Item -> Nat] : AtMost(u, v) /\ AtMost(v, w) => AtMost(u, w)
  /\ \A v \in [Item -> Nat] : AtMost(v, v)
BY DEF AtMost

LEMMA Raised ==
  ASSUME NEW v \in [Item -> Nat], NEW i \in Item
  PROVE  AtMost(v, [v EXCEPT ![i] = @ + 1])
<1>1. ASSUME NEW x \in Item PROVE v[x] <= [v EXCEPT ![i] = @ + 1][x]
  <2>1. v[x] \in Nat
    OBVIOUS
  <2>2. CASE x = i
    BY <2>1, <2>2
  <2>3. CASE x # i
    BY <2>1, <2>3
  <2>. QED BY <2>2, <2>3
<1>. QED BY <1>1 DEF AtMost

LEMMA RisingAdded ==
  ASSUME TypeInv, TypeInv', Rising, AtMost(Sight, Sight'), UNCHANGED <<listed, shown>>,
         Added(replies, replies', Sight')
  PROVE  Rising'
<1>1. Sight \in [Item -> Nat] /\ Sight' \in [Item -> Nat] /\ listed \in [Item -> Nat]
      /\ shown \in [Part -> [item : Item \cup {NoItem}, rev : Nat]]
  <2>1. Sight' \in [Item -> Nat]
    BY DEF Sight, TypeInv, TypeOK
  <2>. QED BY <2>1, SightType
<1>2. /\ \A k \in DOMAIN replies : replies[k].said \in [Item -> Nat]
      /\ \A k \in DOMAIN replies : k \in Nat
      /\ \A k \in DOMAIN replies' : k \in Nat
  <2>1. \A k \in DOMAIN replies' : k \in Nat
    BY MemberType DEF TypeInv, TypeOK
  <2>. QED BY <2>1, ReplyType
<1>. PICK s, t : s = Sight /\ t = Sight'
  OBVIOUS
<1>3. AtMost(listed, Sight') /\ AtMost(Sight', Sight')
  BY <1>1, AtMostFacts DEF Rising
<1>4. ASSUME NEW k \in DOMAIN replies', replies'[k].ok
      PROVE  AtMost(listed, replies'[k].said) /\ AtMost(replies'[k].said, Sight')
  <2>1. CASE k \in DOMAIN replies
    <3>1. replies'[k] = replies[k] /\ replies[k].said \in [Item -> Nat]
          /\ AtMost(listed, replies[k].said) /\ AtMost(replies[k].said, Sight)
      BY <1>2, <1>4, <2>1 DEF Added, Rising
    <3>. QED BY <1>1, <3>1, AtMostFacts
  <2>2. CASE k \notin DOMAIN replies
    BY <1>3, <1>4, <2>2 DEF Added
  <2>. QED BY <2>1, <2>2
<1>5. ASSUME NEW k \in DOMAIN replies', NEW l \in DOMAIN replies', k < l, replies'[k].ok, replies'[l].ok
      PROVE  AtMost(replies'[k].said, replies'[l].said)
  <2>1. CASE l \in DOMAIN replies
    <3>1. k \in DOMAIN replies
      BY <1>2, <1>5, <2>1 DEF Added
    <3>. QED BY <1>5, <2>1, <3>1 DEF Added, Rising
  <2>2. CASE l \notin DOMAIN replies
    <3>1. replies'[l].said = Sight'
      BY <1>5, <2>2 DEF Added
    <3>. QED BY <1>4, <1>5, <3>1
  <2>. QED BY <2>1, <2>2
<1>6. ASSUME NEW p \in Part, shown'[p].item # NoItem
      PROVE  /\ shown'[p].rev <= Sight'[shown'[p].item]
             /\ \A k \in DOMAIN replies' : replies'[k].ok => shown'[p].rev <= replies'[k].said[shown'[p].item]
  <2>1. PICK i \in Item, n \in Nat : shown'[p].item = i /\ shown[p].item = i /\ shown'[p].rev = n /\ shown[p].rev = n
    BY <1>1, <1>6
  <2>2. n <= Sight[i] /\ Sight[i] <= Sight'[i]
    BY <2>1 DEF Rising, AtMost
  <2>3. n <= Sight'[i]
    BY <1>1, <2>2
  <2>4. ASSUME NEW k \in DOMAIN replies', replies'[k].ok PROVE n <= replies'[k].said[i]
    <3>1. CASE k \in DOMAIN replies
      BY <2>1, <2>4, <3>1 DEF Added, Rising
    <3>2. CASE k \notin DOMAIN replies
      BY <2>3, <2>4, <3>2 DEF Added
    <3>. QED BY <3>1, <3>2
  <2>. QED BY <2>1, <2>3, <2>4
<1>. QED BY <1>3, <1>4, <1>5, <1>6 DEF Rising

Forward ==
  /\ \A p \in Part : shown'[p].item = shown[p].item /\ shown[p].item # Placeholder => shown'[p].rev >= shown[p].rev
  /\ \A i \in Item : listed'[i] >= listed[i]

\* The first answer is taken: its table is listed, or what it says of an item is shown, or neither.
LEMMA RisingTaken ==
  ASSUME TypeInv, TypeInv', Rising, UNCHANGED <<file, view, up>>, replies # <<>>, replies' = Tail(replies),
         listed' = listed \/ (Reply.ok /\ listed' = Reply.said),
         \A p \in Part : \/ shown'[p] = shown[p]
                         \/ /\ Reply.ok /\ shown'[p].item \in Item
                            /\ shown'[p].rev = Reply.said[shown'[p].item]
                         \/ shown'[p].item = Placeholder /\ shown'[p].rev = 0
  PROVE  Rising' /\ Forward
<1>1. Sight \in [Item -> Nat] /\ listed \in [Item -> Nat] /\ listed' \in [Item -> Nat]
      /\ shown \in [Part -> [item : Item \cup {NoItem}, rev : Nat]]
      /\ shown' \in [Part -> [item : Item \cup {NoItem}, rev : Nat]]
  <2>1. listed' \in [Item -> Nat] /\ shown' \in [Part -> [item : Item \cup {NoItem}, rev : Nat]]
    BY DEF TypeInv, TypeOK
  <2>. QED BY <2>1, SightType
<1>2. /\ replies \in Seq(Answered) /\ Reply = replies[1] /\ 1 \in DOMAIN replies
      /\ \A k \in DOMAIN replies' : k \in Nat \ {0} /\ k + 1 \in DOMAIN replies /\ replies'[k] = replies[k + 1]
  BY TailFacts, ReplyType DEF Reply
<1>3. \A k \in DOMAIN replies' : k \in Nat \ {0} /\ k + 1 \in DOMAIN replies /\ 1 < k + 1
  BY <1>2
<1>4. Reply.said \in [Item -> Nat] /\ \A k \in DOMAIN replies' : replies'[k].said \in [Item -> Nat]
  BY <1>2, ReplyType
<1>5. Reply.ok => /\ AtMost(listed, Reply.said) /\ AtMost(Reply.said, Sight)
                  /\ \A k \in DOMAIN replies' : replies'[k].ok => AtMost(Reply.said, replies'[k].said)
                  /\ \A p \in Part : shown[p].item # NoItem => shown[p].rev <= Reply.said[shown[p].item]
  BY <1>2, <1>3 DEF Rising
<1>6. Sight' = Sight
  BY DEF Sight
<1>7. AtMost(listed, listed') /\ AtMost(listed', Sight)
  BY <1>1, <1>5, AtMostFacts DEF Rising
<1>8. ASSUME NEW k \in DOMAIN replies', replies'[k].ok
      PROVE  AtMost(listed', replies'[k].said) /\ AtMost(replies'[k].said, Sight)
  <2>1. AtMost(listed, replies'[k].said) /\ AtMost(replies'[k].said, Sight)
    BY <1>2, <1>8 DEF Rising
  <2>. QED BY <1>5, <1>8, <2>1
<1>9. ASSUME NEW k \in DOMAIN replies', NEW l \in DOMAIN replies', k < l, replies'[k].ok, replies'[l].ok
      PROVE  AtMost(replies'[k].said, replies'[l].said)
  <2>1. k + 1 < l + 1
    BY <1>3, <1>9
  <2>. QED BY <1>2, <1>9, <2>1 DEF Rising
<1>10. ASSUME NEW p \in Part, shown'[p].item # NoItem
       PROVE  /\ shown'[p].rev <= Sight[shown'[p].item]
              /\ \A k \in DOMAIN replies' : replies'[k].ok => shown'[p].rev <= replies'[k].said[shown'[p].item]
  <2>1. CASE shown'[p] = shown[p]
    BY <1>2, <1>10, <2>1 DEF Rising
  <2>2. CASE /\ Reply.ok /\ shown'[p].item \in Item
             /\ shown'[p].rev = Reply.said[shown'[p].item]
    BY <1>5, <2>2 DEF AtMost
  <2>3. CASE shown'[p].item = Placeholder /\ shown'[p].rev = 0
    <3>1. Sight[Placeholder] \in Nat
      BY <1>1
    <3>2. ASSUME NEW k \in DOMAIN replies' PROVE replies'[k].said[Placeholder] \in Nat
      BY <1>4
    <3>3. \A n \in Nat : 0 <= n
      OBVIOUS
    <3>. QED BY <2>3, <3>1, <3>2, <3>3
  <2>. QED BY <2>1, <2>2, <2>3
<1>11. Rising'
  BY <1>6, <1>7, <1>8, <1>9, <1>10 DEF Rising
<1>12. ASSUME NEW p \in Part, shown'[p].item = shown[p].item, shown[p].item # Placeholder
       PROVE  shown'[p].rev >= shown[p].rev
  <2>1. shown'[p].rev \in Nat /\ shown[p].rev \in Nat
    BY <1>1
  <2>2. CASE shown'[p] = shown[p]
    BY <2>1, <2>2
  <2>3. CASE /\ Reply.ok /\ shown'[p].item \in Item
             /\ shown'[p].rev = Reply.said[shown'[p].item]
    BY <1>5, <1>12, <2>1, <2>3
  <2>. QED BY <1>12, <2>2, <2>3
<1>. QED BY <1>1, <1>7, <1>11, <1>12 DEF Forward, AtMost

\* Commands are sent, carried out, and their answers taken.
LEMMA CommandSent ==
  ASSUME TypeInv, NEW j \in 1..MaxCommands, jobs[j].phase = "idle", commands' = Append(commands, j),
         results' = results
  PROVE  /\ \A k \in DOMAIN commands : k \in DOMAIN commands' /\ commands'[k] = commands[k] /\ Carried(k)' = Carried(k)
         /\ \A k \in DOMAIN commands' : results[commands'[k]].status # "none" => k \in DOMAIN commands
         /\ \A k \in DOMAIN commands' : k \in Nat
<1>1. /\ commands \in Seq(1..MaxCommands) /\ DOMAIN commands = 1..Len(commands) /\ Len(commands) \in Nat
      /\ results[j].status = "none"
  BY LenProperties DEF TypeInv, TypeOK, Handled
<1>2. /\ DOMAIN commands' = 1..(Len(commands) + 1) /\ commands'[Len(commands) + 1] = j
      /\ \A k \in DOMAIN commands : commands'[k] = commands[k]
  BY <1>1, AppendProperties
<1>3. \A k \in DOMAIN commands' : k \in DOMAIN commands \/ k = Len(commands) + 1
  BY <1>1, <1>2
<1>. QED BY <1>1, <1>2, <1>3 DEF Carried

LEMMA CommandGone ==
  ASSUME TypeInv, commands # <<>>, commands' = Tail(commands), results' = results
  PROVE  /\ 1 \in DOMAIN commands /\ Head(commands) = commands[1]
         /\ \A k \in DOMAIN commands' : /\ k \in Nat \ {0} /\ k + 1 \in DOMAIN commands
                                        /\ commands'[k] = commands[k + 1] /\ Carried(k)' = Carried(k + 1)
         /\ \A k \in DOMAIN commands : k \in Nat \ {0}
         /\ \A k \in DOMAIN commands : k = 1 \/ (k - 1 \in DOMAIN commands' /\ Carried(k - 1)' = Carried(k))
<1>1. commands \in Seq(1..MaxCommands)
  BY DEF TypeInv, TypeOK
<1>2. /\ 1 \in DOMAIN commands /\ Head(commands) = commands[1]
      /\ \A k \in DOMAIN commands' : k \in Nat \ {0} /\ k + 1 \in DOMAIN commands /\ commands'[k] = commands[k + 1]
      /\ \A k \in DOMAIN commands : k = 1 \/ (k - 1 \in DOMAIN commands' /\ commands'[k - 1] = commands[k])
  BY <1>1, TailFacts
<1>3. \A k \in DOMAIN commands : k \in Nat \ {0}
  BY <1>1, MemberType
<1>. QED BY <1>2, <1>3 DEF Carried

LEMMA CommandDone ==
  ASSUME TypeInv, NEW k \in DOMAIN commands, NEW c \in Course, NEW i, Carries(k, c, i), UNCHANGED commands
  PROVE  /\ results'[commands[k]].said = rev' /\ (Carried(k)' <=> c.ok) /\ ~ Carried(k)
         /\ \A l \in DOMAIN commands : /\ l \in Nat \ {0}
                                       /\ l # k => Carried(l)' = Carried(l) /\ results'[commands[l]] = results[commands[l]]
<1>1. commands \in Seq(1..MaxCommands) /\ IsInjective(commands) /\ results \in [1..MaxCommands -> Result]
  BY DEF TypeInv, TypeOK, Handled
<1>2. \A l \in DOMAIN commands : commands[l] \in 1..MaxCommands /\ l \in Nat \ {0}
  BY <1>1, MemberType
<1>3. \A l \in DOMAIN commands : l # k => commands[l] # commands[k]
  BY <1>1 DEF IsInjective
<1>4. PICK x : x = [status |-> IF c.ok THEN "ok" ELSE "error", said |-> rev'] /\ results' = [results EXCEPT ![commands[k]] = x]
  BY DEF Carries
<1>5. results'[commands[k]] = x /\ \A l \in DOMAIN commands : l # k => results'[commands[l]] = results[commands[l]]
  BY <1>1, <1>2, <1>3, <1>4
<1>6. x.said = rev' /\ (x.status = "ok" <=> c.ok)
  BY <1>4
<1>7. results[commands[k]].status = "none"
  BY DEF Carries
<1>. QED BY <1>2, <1>5, <1>6, <1>7 DEF Carried

LEMMA AddedConcat ==
  ASSUME NEW a \in Seq(Answered), NEW b \in Seq(Answered), NEW told,
         \A k \in DOMAIN b : b[k].ok => b[k].said = told
  PROVE  Added(a, a \o b, told)
<1>1. /\ DOMAIN a = 1..Len(a) /\ Len(a) \in Nat /\ DOMAIN b = 1..Len(b) /\ Len(b) \in Nat
      /\ DOMAIN (a \o b) = 1..(Len(a) + Len(b))
      /\ \A k \in 1..Len(a) : (a \o b)[k] = a[k]
      /\ \A k \in 1..Len(b) : (a \o b)[Len(a) + k] = b[k]
  BY ConcatProperties, LenProperties
<1>2. ASSUME NEW k \in DOMAIN (a \o b), k \notin DOMAIN a
      PROVE  /\ \A l \in DOMAIN a : l < k
             /\ (a \o b)[k].ok => (a \o b)[k].said = told
  <2>1. k - Len(a) \in 1..Len(b) /\ k = Len(a) + (k - Len(a)) /\ k > Len(a)
    BY <1>1, <1>2
  <2>2. (a \o b)[k] = b[k - Len(a)]
    BY <1>1, <2>1
  <2>. QED BY <1>1, <2>1, <2>2
<1>3. \A k \in DOMAIN a : k \in DOMAIN (a \o b) /\ (a \o b)[k] = a[k]
  BY <1>1
<1>. QED BY <1>2, <1>3 DEF Added

LEMMA AddedOne ==
  ASSUME NEW a \in Seq(Answered), NEW r \in Answered, NEW told, r.ok => r.said = told
  PROVE  Added(a, Append(a, r), told)
<1>1. PICK b : b = <<r>>
  OBVIOUS
<1>2. Append(a, r) = a \o b
  BY <1>1, AppendIsConcat
<1>3. b \in Seq(Answered) /\ Len(b) = 1 /\ b[1] = r
  BY <1>1
<1>4. \A k \in DOMAIN b : b[k].ok => b[k].said = told
  BY <1>3, LenProperties
<1>. QED BY <1>2, <1>3, <1>4, AddedConcat

LEMMA AddedNone ==
  ASSUME NEW a \in Seq(Answered), NEW told
  PROVE  Added(a, a, told)
BY DEF Added

\* What was carried out is told by its answer, the last of those that are then on their way.
LEMMA PerformedAdded ==
  ASSUME TypeInv, NEW r \in Answered, replies' = replies \o Rejected \o <<r>>
  PROVE  /\ Added(replies, replies', r.said)
         /\ \E n \in DOMAIN replies' : replies'[n] = r /\ \A k \in DOMAIN replies' : k <= n
<1>. DEFINE a == replies \o Rejected
<1>2. replies \in Seq(Answered) /\ Rejected \in Seq(Answered) /\ \A k \in DOMAIN Rejected : ~ Rejected[k].ok
  BY RejectedFacts DEF TypeInv, TypeOK
<1>3. a \in Seq(Answered) /\ <<r>> \in Seq(Answered) /\ Rejected \o <<r>> \in Seq(Answered)
  BY <1>2, ConcatProperties
<1>4. replies' = replies \o (Rejected \o <<r>>)
  BY <1>2, <1>3, ConcatAssociative
<1>5. ASSUME NEW k \in DOMAIN (Rejected \o <<r>>), (Rejected \o <<r>>)[k].ok
      PROVE  (Rejected \o <<r>>)[k].said = r.said
  <2>1. Rejected \o <<r>> = Append(Rejected, r)
    BY <1>2, AppendIsConcat
  <2>2. k \in 1..(Len(Rejected) + 1) /\ Len(Rejected) \in Nat /\ DOMAIN Rejected = 1..Len(Rejected)
    BY <1>2, <2>1, AppendProperties, LenProperties
  <2>3. CASE k = Len(Rejected) + 1
    BY <1>2, <2>1, <2>3, AppendProperties
  <2>4. CASE k \in 1..Len(Rejected)
    BY <1>2, <1>5, <2>1, <2>2, <2>4, AppendProperties
  <2>. QED BY <2>2, <2>3, <2>4
<1>6. Added(replies, replies', r.said)
  <2>. DEFINE b == Rejected \o <<r>>
  <2>1. b \in Seq(Answered) /\ \A k \in DOMAIN b : b[k].ok => b[k].said = r.said
    BY <1>3, <1>5
  <2>. HIDE DEF b
  <2>2. Added(replies, replies \o b, r.said)
    BY <1>2, <2>1, AddedConcat
  <2>. QED BY <1>4, <2>2 DEF b
<1>7. replies' = Append(a, r)
  BY <1>3, AppendIsConcat
<1>. HIDE DEF a
<1>8. /\ Len(a) + 1 \in DOMAIN replies' /\ replies'[Len(a) + 1] = r
      /\ \A k \in DOMAIN replies' : k <= Len(a) + 1
  <2>0. a \in Seq(Answered) /\ Len(a) \in Nat
    BY <1>3, LenProperties
  <2>1. Len(a) \in Nat /\ replies' \in Seq(Answered) /\ Len(replies') = Len(a) + 1
        /\ replies'[Len(a) + 1] = r
    <3>1. /\ Append(a, r) \in Seq(Answered) /\ Len(Append(a, r)) = Len(a) + 1
          /\ Append(a, r)[Len(a) + 1] = r
      BY <2>0, AppendProperties
    <3>. QED BY <1>7, <2>0, <3>1
  <2>. QED BY <2>1, LenProperties
<1>. QED BY <1>6, <1>8

LEMMA CarriedUp ==
  ASSUME TypeInv, Filed, NEW k, NEW c, NEW i \in Item, Carries(k, c, i)
  PROVE  AtMost(rev, rev')
<1>1. Found = rev
  BY DEF Found, Filed
<1>2. rev' = rev \/ rev' = [rev EXCEPT ![i] = @ + 1]
  BY <1>1 DEF Carries, Made
<1>3. rev \in [Item -> Nat]
  BY SightType
<1>4. CASE rev' = rev
  BY <1>3, <1>4, AtMostFacts
<1>5. CASE rev' = [rev EXCEPT ![i] = @ + 1]
  BY <1>3, <1>5, Raised
<1>. QED BY <1>2, <1>4, <1>5

LEMMA StayForward ==
  ASSUME TypeInv, UNCHANGED <<listed, shown>>
  PROVE  Forward
<1>1. /\ listed \in [Item -> Nat] /\ shown \in [Part -> [item : Item \cup {NoItem}, rev : Nat]]
  BY SightType
<1>2. ASSUME NEW p \in Part PROVE shown[p].rev \in Nat
  BY <1>1
<1>3. ASSUME NEW i \in Item PROVE listed[i] \in Nat
  BY <1>1
<1>4. \A n \in Nat : n >= n
  OBVIOUS
<1>. QED BY <1>2, <1>3, <1>4 DEF Forward

\* Where the state file stands.
LEMMA NextFiled ==
  ASSUME TypeInv, Filed, [Next]_vars, Steady'
  PROVE  Filed'
<1>1. ASSUME UNCHANGED <<rev, file, view, up, commands, results>> PROVE Filed'
  BY <1>1 DEF Filed, Sight, Carried
<1>2. ASSUME NEW j \in 1..MaxCommands, NEW kind, NEW i, Send(j, kind, i) PROVE Filed'
  <2>1. /\ UNCHANGED <<rev, file, view, up, results>> /\ commands' = Append(commands, j) /\ jobs[j].phase = "idle"
    BY <1>2 DEF Send, store
  <2>2. \A k \in DOMAIN commands' : Carried(k)' => k = 1 /\ results'[commands'[k]].said = rev'
    BY <2>1, CommandSent DEF Filed, Carried
  <2>. QED BY <2>1, <2>2 DEF Filed, Sight
<1>3. CASE LoadReadChild \/ SaveReadChild
  <2>1. /\ UNCHANGED <<rev, commands, results>>
        /\ \/ "read" \notin up /\ view' = file /\ file' = file /\ up' = up \cup {"read"} /\ excuses' = excuses
           \/ /\ "read" \in up /\ UNCHANGED <<view, up>> /\ file' = view
              /\ excuses' = excuses \cup IF view = rev THEN {} ELSE {"behind"}
    BY <1>3, ReadChildStep
  <2>2. file' = file /\ Sight' = Sight
    BY <2>1 DEF Steady, Filed, Sight
  <2>. QED BY <2>1, <2>2 DEF Filed, Carried
<1>4. CASE CarryOut
  <2>1. UNCHANGED <<view, commands>>
    BY <1>4, CarryOutStep
  <2>2. PICK k \in DOMAIN commands, c \in Course, i \in Item : rev' \in [Item -> Nat] /\ Carries(k, c, i)
    BY <1>4, CarryOutStep
  <2>3. file' = rev' /\ ~ (k > 1) /\ up' = up \cup {"write"}
    BY <2>2 DEF Carries, Steady
  <2>4. /\ results'[commands[k]].said = rev'
        /\ \A l \in DOMAIN commands : l \in Nat \ {0} /\ (l # k => Carried(l)' = Carried(l))
    BY <2>1, <2>2, CommandDone
  <2>5. \A l \in DOMAIN commands : Carried(l)' => l = 1 /\ results'[commands[l]].said = rev'
    BY <2>3, <2>4 DEF Filed
  <2>6. AtMost(Sight', rev')
    <3>1. AtMost(rev, rev')
      BY <2>2, CarriedUp
    <3>2. CASE "read" \in up
      <4>1. Sight' = Sight
        BY <2>1, <2>3, <3>2 DEF Sight
      <4>. QED BY <2>2, <3>1, <4>1, SightType, AtMostFacts DEF Filed
    <3>3. CASE "read" \notin up
      <4>1. Sight' = rev'
        BY <2>3, <3>3 DEF Sight
      <4>. QED BY <2>2, <4>1, AtMostFacts
    <3>. QED BY <3>2, <3>3
  <2>. QED BY <2>1, <2>3, <2>5, <2>6 DEF Filed, Carried
<1>5. CASE AnswerRead
  BY <1>1, <1>5 DEF AnswerRead, store
<1>6. ASSUME commands # <<>>, commands' = Tail(commands), UNCHANGED <<rev, file, view, results>>,
             up' \in {up, up \ {"write"}, up \ {"read"}}
      PROVE  Filed'
  <2>1. \A k \in DOMAIN commands' : ~ Carried(k)'
    BY <1>6, CommandGone DEF Filed
  <2>2. Sight' = Sight \/ Sight' = rev
    BY <1>6 DEF Sight, Filed
  <2>3. AtMost(Sight', rev)
    BY <2>2, SightType, AtMostFacts DEF Filed
  <2>. QED BY <1>6, <2>1, <2>3 DEF Filed
<1>7. CASE Perform
  BY <1>6, <1>7 DEF Perform, Invalidated
<1>8. CASE Fail \/ Refuse
  BY <1>6, <1>8, EndsStep
<1>9. CASE LoseReadChild
  <2>1. UNCHANGED <<rev, file, commands, results>> /\ Sight' = file
    BY <1>9 DEF LoseReadChild, Sight
  <2>2. AtMost(Sight', rev)
    BY <2>1, SightType, AtMostFacts DEF Filed
  <2>. QED BY <2>1, <2>2 DEF Filed, Carried
<1>10. CASE Deliver
  BY <1>1, <1>10 DEF Deliver, ListArrives, PartArrives, CommandEnds, store
<1>11. CASE (\E i \in Item : Select(i)) \/ CloseDialog \/ (\E d \in Dialog : OpenDialog(d)) \/ UNCHANGED vars
  BY <1>1, <1>11 DEF Select, CloseDialog, OpenDialog, vars, store
<1>12. CASE \E j \in 1..MaxCommands : Confirm(j) \/ \E i \in Item : Message(j, i)
  BY <1>2, <1>12 DEF Confirm, Message
<1>. QED BY <1>3, <1>4, <1>5, <1>7, <1>8, <1>9, <1>10, <1>11, <1>12 DEF Next

LEMMA NextRising ==
  ASSUME TypeInv, Filed, Rising, [Next]_vars, Steady'
  PROVE  Rising' /\ Forward
<1>1. TypeInv' /\ Filed'
  BY NextType, NextFiled
<1>2. /\ Sight \in [Item -> Nat] /\ rev \in [Item -> Nat] /\ listed \in [Item -> Nat]
      /\ replies \in Seq(Answered) /\ shown \in [Part -> [item : Item \cup {NoItem}, rev : Nat]]
  BY SightType
<1>3. AtMost(Sight, rev) /\ AtMost(Sight, Sight) /\ AtMost(rev, rev)
  BY <1>2, AtMostFacts DEF Filed
<1>4. ASSUME UNCHANGED <<replies, listed, shown>>, AtMost(Sight, Sight')
      PROVE  Rising' /\ Forward
  <2>1. Added(replies, replies', Sight')
    BY <1>2, <1>4, AddedNone
  <2>. QED BY <1>1, <1>4, <2>1, RisingAdded, StayForward
<1>5. ASSUME UNCHANGED <<file, view, up, replies, listed, shown>> PROVE Rising' /\ Forward
  <2>1. Sight' = Sight
    BY <1>5 DEF Sight
  <2>. QED BY <1>3, <1>4, <1>5, <2>1
<1>6. CASE LoadReadChild \/ SaveReadChild
  <2>1. /\ UNCHANGED <<rev, replies, listed, shown>>
        /\ \/ "read" \notin up /\ view' = file /\ up' = up \cup {"read"}
           \/ "read" \in up /\ UNCHANGED <<view, up>>
    BY <1>6, ReadChildStep DEF panel
  <2>2. Sight' = Sight
    BY <2>1 DEF Sight
  <2>. QED BY <1>3, <1>4, <2>1, <2>2
<1>7. CASE CarryOut
  <2>1. UNCHANGED <<view, replies, listed, shown>>
    BY <1>7, CarryOutStep DEF panel
  <2>2. PICK k \in DOMAIN commands, c \in Course, i \in Item : rev' \in [Item -> Nat] /\ Carries(k, c, i)
    BY <1>7, CarryOutStep
  <2>3. up' = up \cup {"write"}
    BY <2>2 DEF Carries
  <2>4. AtMost(Sight, Sight')
    <3>1. CASE "read" \in up
      <4>1. Sight' = Sight
        BY <2>1, <2>3, <3>1 DEF Sight
      <4>. QED BY <1>3, <4>1
    <3>2. CASE "read" \notin up
      <4>1. Sight' = rev'
        BY <1>1, <2>3, <3>2 DEF Sight, Filed
      <4>2. AtMost(rev, rev')
        BY <2>2, CarriedUp
      <4>. QED BY <1>2, <1>3, <2>2, <4>1, <4>2, AtMostFacts
    <3>. QED BY <3>1, <3>2
  <2>. QED BY <1>4, <2>1, <2>4
<1>8. CASE AnswerRead
  <2>1. "read" \in up /\ UNCHANGED <<view, up, listed, shown>>
    BY <1>8 DEF AnswerRead, store, panel
  <2>2. Sight = view /\ Sight' = view
    BY <2>1 DEF Sight
  <2>3. PICK r \in Answered : replies' = Append(replies, r) /\ r.ok = TRUE /\ r.said = view
    BY <1>8, AnswerStep
  <2>4. Added(replies, replies', Sight')
    BY <1>2, <2>2, <2>3, AddedOne
  <2>5. AtMost(Sight, Sight')
    BY <1>3, <2>2
  <2>. QED BY <1>1, <2>1, <2>4, <2>5, RisingAdded, StayForward
<1>9. CASE Perform
  <2>1. UNCHANGED <<rev, file, listed, shown>>
    BY <1>9 DEF Perform, panel
  <2>2. PICK r \in Answered : /\ replies' = replies \o Rejected \o <<r>> /\ r.said = results[Head(commands)].said
                              /\ commands # <<>> /\ results[Head(commands)].status = "ok" /\ up' = up \ {"read"}
    BY <1>9, PerformStep
  <2>3. 1 \in DOMAIN commands /\ Head(commands) = commands[1]
    BY <2>2, TailFacts DEF TypeInv, TypeOK
  <2>4. r.said = rev
    BY <2>2, <2>3 DEF Filed, Carried
  <2>5. Sight' = rev
    BY <2>1, <2>2 DEF Sight, Filed
  <2>6. Added(replies, replies', Sight')
    BY <2>2, <2>4, <2>5, PerformedAdded
  <2>. QED BY <1>1, <1>3, <2>1, <2>5, <2>6, RisingAdded, StayForward
<1>10. CASE Fail \/ Refuse
  <2>1. /\ UNCHANGED <<file, view, listed, shown>> /\ up' \in {up, up \ {"write"}}
    BY <1>10, EndsStep DEF panel
  <2>2. Sight' = Sight
    BY <2>1 DEF Sight
  <2>3. PICK r \in Answered : replies' = Append(replies, r) /\ r.ok = FALSE
    BY <1>10, EndsStep
  <2>4. Added(replies, replies', Sight')
    BY <1>2, <2>3, AddedOne
  <2>. QED BY <1>1, <1>3, <2>1, <2>2, <2>4, RisingAdded, StayForward
<1>11. CASE LoseReadChild
  <2>1. replies' = replies \o Rejected /\ up' = up \ {"read"} /\ UNCHANGED <<rev, file, listed, shown>>
    BY <1>11 DEF LoseReadChild, panel
  <2>2. Rejected \in Seq(Answered) /\ \A k \in DOMAIN Rejected : ~ Rejected[k].ok
    BY RejectedFacts DEF TypeInv
  <2>3. Added(replies, replies', Sight')
    BY <1>2, <2>1, <2>2, AddedConcat
  <2>4. Sight' = rev
    BY <2>1 DEF Sight, Filed
  <2>. QED BY <1>1, <1>3, <2>1, <2>3, <2>4, RisingAdded, StayForward
<1>12. CASE ListArrives
  <2>1. /\ UNCHANGED <<file, view, up, shown>> /\ replies # <<>> /\ replies' = Tail(replies)
        /\ listed' = listed \/ (Reply.ok /\ listed' = Reply.said)
    BY <1>12 DEF ListArrives, Taken, store
  <2>. QED BY <1>1, <2>1, RisingTaken
<1>13. ASSUME NEW p \in Part, PartArrives(p) PROVE Rising' /\ Forward
  <2>1. UNCHANGED <<file, view, up, listed>> /\ replies # <<>> /\ replies' = Tail(replies)
    BY <1>13 DEF PartArrives, Taken, store
  <2>2. shown' = IF Reply.ok THEN [shown EXCEPT ![p] = [item |-> Reply.item, rev |-> Reply.said[Reply.item]]] ELSE shown
    BY <1>13 DEF PartArrives
  <2>3. Reply.item \in Item
    BY <1>13, PartStep
  <2>4. \A q \in Part : \/ shown'[q] = shown[q]
                        \/ /\ Reply.ok /\ shown'[q].item \in Item
                           /\ shown'[q].rev = Reply.said[shown'[q].item]
    BY <1>2, <2>2, <2>3
  <2>. QED BY <1>1, <2>1, <2>4, RisingTaken
<1>14. CASE CommandEnds
  <2>1. UNCHANGED <<file, view, up, listed>> /\ replies # <<>> /\ replies' = Tail(replies)
    BY <1>14 DEF CommandEnds, Taken, store
  <2>2. PICK j \in 1..MaxCommands : j = Reply.item /\ jobs[j].item \in Item /\ Reply \in Answered
    BY <1>14, CommandStep
  <2>3. shown' = shown \/ shown' = [shown EXCEPT !["detail"] = Returned(j)]
    BY <1>14, <2>2 DEF CommandEnds, CommandResolves, CommandRejects
  <2>4. \/ /\ Reply.ok /\ Returned(j).item \in Item
           /\ Returned(j).rev = Reply.said[Returned(j).item]
        \/ Returned(j).item = Placeholder /\ Returned(j).rev = 0
    BY <2>2, ReturnedFacts
  <2>5. \A q \in Part : \/ shown'[q] = shown[q]
                        \/ /\ Reply.ok /\ shown'[q].item \in Item
                           /\ shown'[q].rev = Reply.said[shown'[q].item]
                        \/ shown'[q].item = Placeholder /\ shown'[q].rev = 0
    <3>1. PICK x : x = Returned(j)
      OBVIOUS
    <3>. QED BY <1>2, <2>3, <2>4, <3>1
  <2>. QED BY <1>1, <2>1, <2>5, RisingTaken
<1>15. CASE (\E i \in Item : Select(i)) \/ CloseDialog \/ (\E d \in Dialog : OpenDialog(d)) \/ UNCHANGED vars
  BY <1>5, <1>15 DEF Select, CloseDialog, OpenDialog, vars, store, panel
<1>16. CASE \E j \in 1..MaxCommands : Confirm(j) \/ \E i \in Item : Message(j, i)
  BY <1>5, <1>16 DEF Confirm, Message, Send, store
<1>. QED BY <1>6, <1>7, <1>8, <1>9, <1>10, <1>11, <1>12, <1>13, <1>14, <1>15, <1>16 DEF Next, Deliver

LEMMA NextOrdered == TypeInv /\ Ordered /\ [Next]_vars => Ordered' /\ (Steady' => Forward)
<1>. SUFFICES ASSUME TypeInv, Ordered, [Next]_vars, Steady' PROVE Filed' /\ Rising' /\ Forward
  BY DEF Ordered
<1>1. Filed /\ Rising
  BY ExcusesGrow DEF Ordered, Steady
<1>. QED BY <1>1, NextFiled, NextRising

LEMMA OrderedInvariant == Spec => []Ordered
BY TypeInvariant, InitOrdered, NextOrdered, PTL DEF Spec

(* As long as the state file is not behind the environment and no command  *)
(* was carried out ahead of an answer, a part that shows the same item     *)
(* does not go back to an older revision, nor does a row of the table:     *)
(* what is shown is no newer than any answer on its way or to come, for    *)
(* answers come as they were read, no read child outlives the answer of    *)
(* the command that made its view old, and the next one finds that         *)
(* command's image in the file.                                            *)
THEOREM PanelGoesForward == Spec => ShownNeverGoesBack
<1>. DEFINE Kept ==
       excuses' \cap {"behind", "outrun"} = {} =>
         /\ \A p \in Part : shown'[p].item = shown[p].item /\ shown[p].item # Placeholder =>
              shown'[p].rev >= shown[p].rev
         /\ \A i \in Item : listed'[i] >= listed[i]
<1>1. TypeInv /\ Ordered /\ [Next]_vars => [Kept]_vars
  BY NextOrdered DEF Forward, Steady
<1>. QED BY <1>1, TypeInvariant, OrderedInvariant, PTL DEF Spec, ShownNeverGoesBack

-----------------------------------------------------------------------------
(* What the panel comes to show, as long as the state file is not behind   *)
(* the environment.  Who does not tell what the environment is now is      *)
(* followed by the answer of a command, whose refresh asks anew: it is on  *)
(* its way already or still owed to the adapter.                           *)
Done(r) == r.kind = "command" /\ r.ok
Behind  == \E k \in DOMAIN replies : Done(replies[k])
Owed    == \E k \in DOMAIN commands : Carried(k)

Stale(r, now) == IF r.kind = "command" THEN r.ok /\ r.said # now ELSE ~ (r.ok /\ r.said = now)

Current ==
  /\ file = rev
  /\ "read" \in up => view = rev \/ Owed
  /\ \A k \in DOMAIN replies :
       Stale(replies[k], rev) => Owed \/ \E l \in DOMAIN replies : k < l /\ Done(replies[l])
  /\ \A k \in DOMAIN commands :
       Carried(k) => results[commands[k]].said = rev \/ \E l \in DOMAIN commands : k < l /\ Carried(l)
  /\ \A k, l \in DOMAIN commands : k < l /\ Carried(l) => results[commands[k]].status # "none"

Undisturbed == excuses \cap {"lost", "unseen", "behind"} = {}

Followed == Undisturbed => Current

\* A read that the adapter rejected is followed by the command for which it did.
Rejections == "lost" \notin excuses =>
  \A k \in DOMAIN replies :
    replies[k].kind # "command" /\ ~ replies[k].ok => \E l \in DOMAIN replies : k < l /\ Done(replies[l])

\* Before an item is selected nothing is shown or loaded, and no dialog was confirmed.
Opening == selected = NoItem =>
  /\ \A p \in Part : shown[p].item = NoItem
  /\ \A i \in Item : loads[i] = "none"
  /\ \A j \in 1..MaxCommands : ~ (Waiting(j) /\ jobs[j].kind # "message")

\* A dialog's handler that waits is about the item that is selected.
Mine == "strayed" \notin excuses =>
  \A j \in 1..MaxCommands : Waiting(j) /\ jobs[j].kind # "message" => jobs[j].item = selected

LEMMA BehindAdded ==
  ASSUME Behind, NEW told, Added(replies, replies', told)
  PROVE  Behind'
BY DEF Behind, Added

LEMMA TakenFacts ==
  ASSUME TypeInv, replies # <<>>, replies' = Tail(replies)
  PROVE  /\ Reply = replies[1] /\ 1 \in DOMAIN replies
         /\ \A k \in DOMAIN replies' : k \in Nat \ {0} /\ k + 1 \in DOMAIN replies /\ replies'[k] = replies[k + 1]
         /\ \A k \in DOMAIN replies : k = 1 \/ (k - 1 \in DOMAIN replies' /\ replies'[k - 1] = replies[k])
         /\ \A k \in DOMAIN replies : k \in Nat \ {0}
BY TailFacts, ReplyType DEF Reply

LEMMA BehindTaken ==
  ASSUME TypeInv, replies # <<>>, replies' = Tail(replies), Behind, ~ Done(Reply)
  PROVE  Behind'
BY TakenFacts DEF Behind

\* Who was followed by a command's answer still is when the first answer is taken.
LEMMA LaterTaken ==
  ASSUME TypeInv, replies # <<>>, replies' = Tail(replies),
         NEW k \in DOMAIN replies', NEW l \in DOMAIN replies, k + 1 < l, Done(replies[l])
  PROVE  \E m \in DOMAIN replies' : k < m /\ Done(replies'[m])
<1>1. k \in Nat \ {0} /\ l \in Nat \ {0} /\ l # 1
  BY TakenFacts
<1>2. l - 1 \in DOMAIN replies' /\ replies'[l - 1] = replies[l] /\ k < l - 1
  BY <1>1, TakenFacts
<1>. QED BY <1>2

\* And then a command's answer is still to come, if the first one did not tell what is now.
LEMMA BehindLater ==
  ASSUME TypeInv, Current, replies # <<>>, replies' = Tail(replies), Stale(Reply, rev)
  PROVE  Owed \/ Behind'
<1>1. Owed \/ \E l \in DOMAIN replies : 1 < l /\ Done(replies[l])
  BY TakenFacts DEF Current
<1>2. ASSUME NEW l \in DOMAIN replies, 1 < l, Done(replies[l])
      PROVE  Behind'
  <2>1. l - 1 \in DOMAIN replies' /\ replies'[l - 1] = replies[l]
    BY <1>2, TakenFacts
  <2>. QED BY <1>2, <2>1 DEF Behind
<1>. QED BY <1>1, <1>2

LEMMA BehindRejected ==
  ASSUME TypeInv, Rejections, "lost" \notin excuses, replies # <<>>, replies' = Tail(replies),
         Reply.kind # "command", ~ Reply.ok
  PROVE  Behind'
<1>1. PICK l \in DOMAIN replies : 1 < l /\ Done(replies[l])
  BY TakenFacts DEF Rejections
<1>2. l - 1 \in DOMAIN replies' /\ replies'[l - 1] = replies[l]
  BY <1>1, TakenFacts
<1>. QED BY <1>1, <1>2 DEF Behind

LEMMA AppendFacts ==
  ASSUME TypeInv, NEW r \in Answered, replies' = Append(replies, r)
  PROVE  /\ \A k \in DOMAIN replies : k \in DOMAIN replies' /\ replies'[k] = replies[k]
         /\ \A k \in DOMAIN replies' : k \in DOMAIN replies \/ replies'[k] = r
<1>1. replies \in Seq(Answered) /\ DOMAIN replies = 1..Len(replies) /\ Len(replies) \in Nat
  BY ReplyType
<1>2. DOMAIN replies' = 1..(Len(replies) + 1) /\ replies'[Len(replies) + 1] = r
      /\ \A k \in DOMAIN replies : replies'[k] = replies[k]
  BY <1>1, AppendProperties
<1>. QED BY <1>1, <1>2

LEMMA InitFollowed == Init => Followed /\ Rejections /\ Opening /\ Mine
<1>. SUFFICES ASSUME Init PROVE Followed /\ Rejections /\ Opening /\ Mine
  OBVIOUS
<1>1. DOMAIN replies = {} /\ DOMAIN commands = {}
  BY Empty DEF Init
<1>2. \A j \in 1..MaxCommands : ~ Waiting(j)
  BY DEF Init, Waiting, NotSent
<1>3. Current
  BY <1>1 DEF Init, Current
<1>. QED BY <1>1, <1>2, <1>3 DEF Init, NotShown, Followed, Rejections, Opening, Mine

\* A command that was carried out: it is owed now, or the environment did not change.
LEMMA CarriedFacts ==
  ASSUME TypeInv, Current, CarryOut, Undisturbed'
  PROVE  /\ file' = rev'
         /\ Owed' \/ (rev' = rev /\ ~ Owed)
         /\ \A k \in DOMAIN commands' :
              Carried(k)' => results'[commands'[k]].said = rev' \/ \E l \in DOMAIN commands' : k < l /\ Carried(l)'
         /\ \A k, l \in DOMAIN commands' : k < l /\ Carried(l)' => results'[commands'[k]].status # "none"
<1>1. UNCHANGED commands
  BY CarryOutStep
<1>2. PICK k \in DOMAIN commands, c \in Course, i \in Item : rev' \in [Item -> Nat] /\ Carries(k, c, i)
  BY CarryOutStep
<1>3. file' = rev' /\ ~ (c.changed /\ ~ c.ok)
  BY <1>2 DEF Carries, Undisturbed
<1>4. /\ results'[commands[k]].said = rev' /\ (Carried(k)' <=> c.ok) /\ ~ Carried(k) /\ k \in Nat
      /\ \A l \in DOMAIN commands : /\ l \in Nat \ {0}
                                    /\ l # k => Carried(l)' = Carried(l) /\ results'[commands[l]] = results[commands[l]]
  BY <1>1, <1>2, CommandDone
<1>5. results[commands[k]].status = "none" /\ \A l \in 1..(k - 1) : results[commands[l]].status # "none"
  BY <1>2 DEF Carries
<1>6. \A l \in DOMAIN commands : Carried(l) => ~ (k < l)
  BY <1>5 DEF Current
<1>7. \A l \in DOMAIN commands : l < k => results[commands[l]].status # "none"
  BY <1>4, <1>5
<1>8. CASE c.ok
  <2>1. Carried(k)' /\ Owed'
    BY <1>1, <1>4, <1>8 DEF Owed
  <2>2. \A l \in DOMAIN commands : Carried(l)' => l = k \/ l < k
    BY <1>4, <1>6
  <2>3. \A l, m \in DOMAIN commands : l < m /\ Carried(m)' => results'[commands[l]].status # "none"
    <3>. SUFFICES ASSUME NEW l \in DOMAIN commands, NEW m \in DOMAIN commands, l < m, Carried(m)'
                  PROVE  results'[commands[l]].status # "none"
      OBVIOUS
    <3>1. l < k /\ l # k
      BY <1>4, <2>2
    <3>. QED BY <1>4, <1>7, <3>1
  <2>. QED BY <1>1, <1>3, <1>4, <2>1, <2>2, <2>3
<1>9. CASE ~ c.ok
  <2>1. rev' = rev
    BY <1>2, <1>3, <1>9 DEF Carries, Made, Found, Current
  <2>2. \A l \in DOMAIN commands : Carried(l)' <=> Carried(l)
    <3>. SUFFICES ASSUME NEW l \in DOMAIN commands PROVE Carried(l)' <=> Carried(l)
      OBVIOUS
    <3>1. CASE l = k
      BY <1>4, <1>9, <3>1
    <3>2. CASE l # k
      BY <1>4, <3>2
    <3>. QED BY <3>1, <3>2
  <2>3. Owed' <=> Owed
    BY <1>1, <2>2 DEF Owed
  <2>4. \A l \in DOMAIN commands : results'[commands[l]].said = results[commands[l]].said \/ l = k
    BY <1>4
  <2>5. \A l \in DOMAIN commands :
          Carried(l)' => results'[commands[l]].said = rev' \/ \E m \in DOMAIN commands : l < m /\ Carried(m)'
    BY <1>4, <2>1, <2>2 DEF Current
  <2>6. \A l, m \in DOMAIN commands : l < m /\ Carried(m)' => results'[commands[l]].status # "none"
    <3>. SUFFICES ASSUME NEW l \in DOMAIN commands, NEW m \in DOMAIN commands, l < m, Carried(m)'
                  PROVE  results'[commands[l]].status # "none"
      OBVIOUS
    <3>1. Carried(m) /\ l # k
      BY <1>6, <2>2
    <3>2. results[commands[l]].status # "none"
      BY <3>1 DEF Current
    <3>. QED BY <1>4, <3>1, <3>2
  <2>. QED BY <1>1, <1>3, <2>1, <2>3, <2>5, <2>6
<1>. QED BY <1>8, <1>9

\* What is owed and said of commands, when one is sent and when one's answer is taken.
LEMMA SentCurrent ==
  ASSUME TypeInv, Current, NEW j \in 1..MaxCommands, NEW kind, NEW i, Send(j, kind, i)
  PROVE  Current' /\ (Owed => Owed') /\ UNCHANGED <<rev, replies>>
<1>1. /\ UNCHANGED <<rev, file, view, up, replies, results>> /\ commands' = Append(commands, j)
      /\ jobs[j].phase = "idle"
  BY DEF Send, store
<1>2. /\ \A k \in DOMAIN commands : k \in DOMAIN commands' /\ commands'[k] = commands[k] /\ Carried(k)' = Carried(k)
      /\ \A k \in DOMAIN commands' : Carried(k)' => k \in DOMAIN commands
  BY <1>1, CommandSent DEF Carried
<1>3. Owed' <=> Owed
  BY <1>2 DEF Owed
<1>4. \A k \in DOMAIN commands' :
        Carried(k)' => results'[commands'[k]].said = rev' \/ \E l \in DOMAIN commands' : k < l /\ Carried(l)'
  BY <1>1, <1>2 DEF Current
<1>5. \A k, l \in DOMAIN commands' : k < l /\ Carried(l)' => results'[commands'[k]].status # "none"
  <2>. SUFFICES ASSUME NEW k \in DOMAIN commands', NEW l \in DOMAIN commands', k < l, Carried(l)'
                PROVE  results'[commands'[k]].status # "none"
    OBVIOUS
  <2>1. l \in DOMAIN commands /\ Carried(l)
    BY <1>2
  <2>2. k \in DOMAIN commands
    <3>1. DOMAIN commands = 1..Len(commands) /\ Len(commands) \in Nat /\ DOMAIN commands' = 1..(Len(commands) + 1)
      BY <1>1, AppendProperties, LenProperties DEF TypeInv, TypeOK
    <3>. QED BY <2>1, <3>1
  <2>. QED BY <1>1, <1>2, <2>1, <2>2 DEF Current
<1>. QED BY <1>1, <1>3, <1>4, <1>5 DEF Current

LEMMA GoneCurrent ==
  ASSUME TypeInv, Current, commands # <<>>, commands' = Tail(commands), UNCHANGED <<rev, results>>
  PROVE  /\ \A k \in DOMAIN commands' :
              Carried(k)' => results'[commands'[k]].said = rev' \/ \E l \in DOMAIN commands' : k < l /\ Carried(l)'
         /\ \A k, l \in DOMAIN commands' : k < l /\ Carried(l)' => results'[commands'[k]].status # "none"
         /\ Carried(1) => results[Head(commands)].said = rev \/ Owed'
         /\ ~ Carried(1) /\ Owed => Owed'
<1>1. /\ 1 \in DOMAIN commands /\ Head(commands) = commands[1]
      /\ \A k \in DOMAIN commands' : /\ k \in Nat \ {0} /\ k + 1 \in DOMAIN commands
                                     /\ commands'[k] = commands[k + 1] /\ Carried(k)' = Carried(k + 1)
      /\ \A k \in DOMAIN commands : k \in Nat \ {0}
      /\ \A k \in DOMAIN commands : k = 1 \/ (k - 1 \in DOMAIN commands' /\ Carried(k - 1)' = Carried(k))
  BY CommandGone
<1>2. ASSUME NEW k \in DOMAIN commands', Carried(k)', results'[commands'[k]].said # rev'
      PROVE  \E l \in DOMAIN commands' : k < l /\ Carried(l)'
  <2>1. PICK l \in DOMAIN commands : k + 1 < l /\ Carried(l)
    BY <1>1, <1>2 DEF Current
  <2>2. l - 1 \in DOMAIN commands' /\ Carried(l - 1)' /\ k < l - 1
    BY <1>1, <2>1
  <2>. QED BY <2>2
<1>3. ASSUME NEW k \in DOMAIN commands', NEW l \in DOMAIN commands', k < l, Carried(l)'
      PROVE  results'[commands'[k]].status # "none"
  <2>1. k + 1 < l + 1 /\ Carried(l + 1)
    BY <1>1, <1>3
  <2>. QED BY <1>1, <2>1 DEF Current
<1>4. ASSUME Carried(1), results[Head(commands)].said # rev PROVE Owed'
  <2>1. PICK l \in DOMAIN commands : 1 < l /\ Carried(l)
    BY <1>1, <1>4 DEF Current
  <2>. QED BY <1>1, <2>1 DEF Owed
<1>5. ASSUME ~ Carried(1), Owed PROVE Owed'
  <2>1. PICK l \in DOMAIN commands : Carried(l)
    BY <1>5 DEF Owed
  <2>. QED BY <1>1, <1>5, <2>1 DEF Owed
<1>. QED BY <1>2, <1>3, <1>4, <1>5

LEMMA NextCurrent ==
  ASSUME TypeInv, Current, [Next]_vars, Undisturbed'
  PROVE  Current'
<1>1. ASSUME UNCHANGED <<rev, file, view, up, commands, results, replies>> PROVE Current'
  BY <1>1 DEF Current, Owed, Carried
<1>2. CASE LoadReadChild \/ SaveReadChild
  <2>1. /\ UNCHANGED <<rev, commands, results, replies>>
        /\ \/ "read" \notin up /\ view' = file /\ file' = file
           \/ /\ "read" \in up /\ UNCHANGED <<view, up>> /\ file' = view
              /\ excuses' = excuses \cup IF view = rev THEN {} ELSE {"behind"}
    BY <1>2, ReadChildStep
  <2>2. file' = rev /\ ("read" \in up' => view' = rev \/ Owed)
    BY <2>1 DEF Undisturbed, Current
  <2>. QED BY <2>1, <2>2 DEF Current, Owed, Carried
<1>3. CASE CarryOut
  <2>1. UNCHANGED <<view, commands, replies>>
    BY <1>3, CarryOutStep
  <2>2. up' = up \cup {"write"}
    BY <1>3, CarryOutStep DEF Carries
  <2>3. /\ file' = rev' /\ (Owed' \/ (rev' = rev /\ ~ Owed))
        /\ \A k \in DOMAIN commands' :
             Carried(k)' => results'[commands'[k]].said = rev' \/ \E l \in DOMAIN commands' : k < l /\ Carried(l)'
        /\ \A k, l \in DOMAIN commands' : k < l /\ Carried(l)' => results'[commands'[k]].status # "none"
    BY <1>3, CarriedFacts
  <2>. QED BY <2>1, <2>2, <2>3 DEF Current
<1>4. CASE AnswerRead
  <2>1. PICK r \in Answered : replies' = Append(replies, r) /\ r.ok = TRUE /\ r.said = view /\ "read" \in up
    BY <1>4, AnswerStep
  <2>2. UNCHANGED <<rev, file, view, up, commands, results>>
    BY <1>4 DEF AnswerRead, store
  <2>3. /\ \A k \in DOMAIN replies : k \in DOMAIN replies' /\ replies'[k] = replies[k]
        /\ \A k \in DOMAIN replies' : k \in DOMAIN replies \/ replies'[k] = r
    BY <2>1, AppendFacts
  <2>4. Owed \/ ~ Stale(r, rev)
    <3>1. view = rev \/ Owed
      BY <2>1 DEF Current
    <3>2. r.kind # "command" \/ r.kind = "command"
      OBVIOUS
    <3>. QED BY <2>1, <3>1 DEF Stale
  <2>5. \A k \in DOMAIN replies' :
          Stale(replies'[k], rev) => Owed \/ \E l \in DOMAIN replies' : k < l /\ Done(replies'[l])
    BY <2>3, <2>4 DEF Current
  <2>. QED BY <2>2, <2>5 DEF Current, Owed, Carried
<1>5. CASE Perform
  <2>1. PICK r \in Answered :
          /\ replies' = replies \o Rejected \o <<r>> /\ Ends(r, Head(commands)) /\ r.ok = TRUE
          /\ r.said = results[Head(commands)].said /\ results[Head(commands)].status = "ok"
          /\ commands # <<>> /\ commands' = Tail(commands) /\ up' = up \ {"read"} /\ TypeInv'
    BY <1>5, PerformStep
  <2>2. UNCHANGED <<rev, file, results>>
    BY <1>5 DEF Perform
  <2>3. Carried(1)
    BY <2>1, <2>2, CommandGone DEF Carried
  <2>4. /\ \A k \in DOMAIN commands' :
             Carried(k)' => results'[commands'[k]].said = rev' \/ \E l \in DOMAIN commands' : k < l /\ Carried(l)'
        /\ \A k, l \in DOMAIN commands' : k < l /\ Carried(l)' => results'[commands'[k]].status # "none"
        /\ r.said = rev \/ Owed'
    BY <2>1, <2>2, <2>3, GoneCurrent
  <2>5. PICK n \in DOMAIN replies' : replies'[n] = r /\ \A k \in DOMAIN replies' : k <= n
    BY <2>1, PerformedAdded
  <2>6. Done(replies'[n]) /\ (Stale(replies'[n], rev) => Owed')
    BY <2>1, <2>4, <2>5 DEF Done, Stale, Ends
  <2>7. \A k \in DOMAIN replies' : k \in Nat
    BY <2>1, MemberType DEF TypeInv, TypeOK
  <2>8. \A k \in DOMAIN replies' :
          Stale(replies'[k], rev) => Owed' \/ \E l \in DOMAIN replies' : k < l /\ Done(replies'[l])
    <3>. SUFFICES ASSUME NEW k \in DOMAIN replies', k # n PROVE k < n
      BY <2>6
    <3>. QED BY <2>5, <2>7
  <2>. QED BY <2>1, <2>2, <2>4, <2>8 DEF Current
<1>6. CASE Fail \/ Refuse
  <2>1. PICK r \in Answered :
          /\ replies' = Append(replies, r) /\ r.kind = "command" /\ r.ok = FALSE
          /\ commands # <<>> /\ commands' = Tail(commands) /\ up' \in {up, up \ {"write"}}
          /\ results[Head(commands)].status # "ok" \/ "unseen" \in excuses'
          /\ UNCHANGED <<rev, file, view, results>>
    BY <1>6, EndsStep
  <2>2. ~ Carried(1)
    BY <2>1, CommandGone DEF Carried, Undisturbed
  <2>3. /\ \A k \in DOMAIN commands' :
             Carried(k)' => results'[commands'[k]].said = rev' \/ \E l \in DOMAIN commands' : k < l /\ Carried(l)'
        /\ \A k, l \in DOMAIN commands' : k < l /\ Carried(l)' => results'[commands'[k]].status # "none"
        /\ Owed => Owed'
    BY <2>1, <2>2, GoneCurrent
  <2>4. /\ \A k \in DOMAIN replies : k \in DOMAIN replies' /\ replies'[k] = replies[k]
        /\ \A k \in DOMAIN replies' : k \in DOMAIN replies \/ replies'[k] = r
    BY <2>1, AppendFacts
  <2>5. ~ Stale(r, rev)
    BY <2>1 DEF Stale
  <2>6. \A k \in DOMAIN replies' :
          Stale(replies'[k], rev) => Owed' \/ \E l \in DOMAIN replies' : k < l /\ Done(replies'[l])
    BY <2>3, <2>4, <2>5 DEF Current
  <2>. QED BY <2>1, <2>3, <2>6 DEF Current
<1>7. CASE LoseReadChild
  BY <1>7 DEF LoseReadChild, Undisturbed
<1>8. CASE Deliver
  <2>1. UNCHANGED <<rev, file, view, up, commands, results>> /\ replies # <<>> /\ replies' = Tail(replies)
    BY <1>8 DEF Deliver, ListArrives, PartArrives, CommandEnds, Taken, store
  <2>2. ASSUME NEW k \in DOMAIN replies', Stale(replies'[k], rev), ~ Owed
        PROVE  \E l \in DOMAIN replies' : k < l /\ Done(replies'[l])
    <3>1. k + 1 \in DOMAIN replies /\ replies'[k] = replies[k + 1]
      BY <2>1, TakenFacts
    <3>2. PICK l \in DOMAIN replies : k + 1 < l /\ Done(replies[l])
      BY <2>2, <3>1 DEF Current
    <3>. QED BY <2>1, <3>2, LaterTaken
  <2>3. Owed' = Owed
    BY <2>1 DEF Owed, Carried
  <2>. QED BY <2>1, <2>2, <2>3 DEF Current, Carried
<1>9. CASE (\E i \in Item : Select(i)) \/ CloseDialog \/ (\E d \in Dialog : OpenDialog(d)) \/ UNCHANGED vars
  BY <1>1, <1>9 DEF Select, CloseDialog, OpenDialog, vars, store
<1>10. CASE \E j \in 1..MaxCommands : Confirm(j) \/ \E i \in Item : Message(j, i)
  BY <1>10, SentCurrent DEF Confirm, Message
<1>. QED BY <1>2, <1>3, <1>4, <1>5, <1>6, <1>7, <1>8, <1>9, <1>10 DEF Next

LEMMA NextFollowed == TypeInv /\ Followed /\ [Next]_vars => Followed'
BY NextCurrent, ExcusesGrow DEF Followed, Undisturbed

LEMMA NextRejections == TypeInv /\ Rejections /\ [Next]_vars => Rejections'
<1>. SUFFICES ASSUME TypeInv, Rejections, [Next]_vars, "lost" \notin excuses',
                     NEW k \in DOMAIN replies', replies'[k].kind # "command", ~ replies'[k].ok
              PROVE  \E l \in DOMAIN replies' : k < l /\ Done(replies'[l])
  BY DEF Rejections
<1>1. "lost" \notin excuses
  BY ExcusesGrow
<1>2. ASSUME UNCHANGED replies PROVE \E l \in DOMAIN replies' : k < l /\ Done(replies'[l])
  BY <1>1, <1>2 DEF Rejections
<1>3. ASSUME NEW r \in Answered, replies' = Append(replies, r), r.kind = "command" \/ r.ok = TRUE
      PROVE  \E l \in DOMAIN replies' : k < l /\ Done(replies'[l])
  <2>1. /\ \A m \in DOMAIN replies : m \in DOMAIN replies' /\ replies'[m] = replies[m]
        /\ k \in DOMAIN replies
    BY <1>3, AppendFacts
  <2>. QED BY <1>1, <2>1 DEF Rejections
<1>4. CASE AnswerRead
  BY <1>3, <1>4, AnswerStep
<1>5. CASE Fail \/ Refuse
  BY <1>3, <1>5, EndsStep
<1>6. CASE Perform
  <2>1. PICK r \in Answered : /\ replies' = replies \o Rejected \o <<r>> /\ Ends(r, Head(commands))
                              /\ r.ok = TRUE /\ TypeInv'
    BY <1>6, PerformStep
  <2>2. PICK n \in DOMAIN replies' : replies'[n] = r /\ \A m \in DOMAIN replies' : m <= n
    BY <2>1, PerformedAdded
  <2>3. Done(replies'[n]) /\ n # k
    BY <2>1, <2>2 DEF Done, Ends
  <2>4. \A m \in DOMAIN replies' : m \in Nat
    BY <2>1, MemberType DEF TypeInv, TypeOK
  <2>5. k < n
    BY <2>2, <2>3, <2>4
  <2>. QED BY <2>3, <2>5
<1>7. CASE LoseReadChild
  BY <1>7 DEF LoseReadChild
<1>8. CASE Deliver
  <2>1. replies # <<>> /\ replies' = Tail(replies)
    BY <1>8 DEF Deliver, ListArrives, PartArrives, CommandEnds, Taken
  <2>2. k + 1 \in DOMAIN replies /\ replies'[k] = replies[k + 1]
    BY <2>1, TakenFacts
  <2>3. PICK l \in DOMAIN replies : k + 1 < l /\ Done(replies[l])
    BY <1>1, <2>2 DEF Rejections
  <2>. QED BY <2>1, <2>3, LaterTaken
<1>9. CASE \/ \E i \in Item : Select(i)
           \/ CloseDialog \/ (\E d \in Dialog : OpenDialog(d)) \/ UNCHANGED vars
           \/ \E j \in 1..MaxCommands : Confirm(j) \/ \E i \in Item : Message(j, i)
           \/ LoadReadChild \/ SaveReadChild \/ CarryOut
  BY <1>2, <1>9 DEF Select, CloseDialog, OpenDialog, vars, Confirm, Message, Send, LoadReadChild, SaveReadChild, CarryOut
<1>. QED BY <1>4, <1>5, <1>6, <1>7, <1>8, <1>9 DEF Next

LEMMA NextOpening == TypeInv /\ Opening /\ [Next]_vars => Opening'
<1>. SUFFICES ASSUME TypeInv, Opening, [Next]_vars, selected' = NoItem
              PROVE  /\ \A p \in Part : shown'[p].item = NoItem
                     /\ \A i \in Item : loads'[i] = "none"
                     /\ \A j \in 1..MaxCommands : ~ (Waiting(j)' /\ jobs'[j].kind # "message")
  BY DEF Opening, Waiting
<1>. DEFINE Goal == /\ \A p \in Part : shown'[p].item = NoItem
                    /\ \A i \in Item : loads'[i] = "none"
                    /\ \A j \in 1..MaxCommands : ~ (Waiting(j)' /\ jobs'[j].kind # "message")
<1>1. /\ jobs \in [1..MaxCommands -> Job] /\ loads \in [Item -> Part \cup {"none"}]
      /\ \A j \in 1..MaxCommands : jobs[j].phase \in {"listing", "loading"} => jobs[j].kind # "message"
  BY DEF TypeInv, TypeOK, Handled
<1>2. First # NoItem
  OBVIOUS
<1>3. ASSUME UNCHANGED <<selected, shown, loads, jobs>> PROVE Goal
  BY <1>3 DEF Opening, Waiting
<1>4. ASSUME NEW i \in Item, Select(i) PROVE Goal
  BY <1>4 DEF Select
<1>5. ASSUME NEW j \in 1..MaxCommands, NEW i \in Item, Message(j, i) PROVE Goal
  BY <1>1, <1>5 DEF Message, Send, Opening, Waiting
<1>6. ASSUME NEW j \in 1..MaxCommands, Confirm(j) PROVE Goal
  BY <1>6 DEF Confirm, Send
<1>7. ASSUME ListArrives PROVE Goal
  <2>1. selected = NoItem /\ ~ Reply.ok
    BY <1>2, <1>7 DEF ListArrives
  <2>2. Resumed = {}
    BY <1>1, <2>1 DEF Opening, Resumed, Waiting
  <2>3. ListLoads = {}
    BY <2>1, <2>2 DEF ListLoads
  <2>4. loads' = Loading(ListLoads)
    BY <1>7, ListStep
  <2>5. \A i \in Item : loads'[i] = loads[i]
    BY <2>3, <2>4 DEF Loading
  <2>6. shown' = shown /\ \A j \in 1..MaxCommands : jobs'[j] = jobs[j]
    BY <1>1, <1>7, <2>2 DEF ListArrives
  <2>. QED BY <2>1, <2>5, <2>6 DEF Opening, Waiting
<1>8. ASSUME NEW p \in Part, PartArrives(p) PROVE Goal
  <2>1. Reply.item \in Item /\ loads[Reply.item] = p /\ selected = NoItem
    BY <1>8, PartStep DEF PartArrives
  <2>. QED BY <2>1, ReadFacts DEF Opening
<1>9. ASSUME CommandEnds PROVE Goal
  <2>1. PICK j \in 1..MaxCommands : Reply.item = j /\ jobs[j].phase = "sent"
    BY <1>9, CommandStep
  <2>2. selected = NoItem /\ jobs[j].kind = "message"
    BY <1>9, <2>1 DEF CommandEnds, Opening, Waiting
  <2>3. Refreshed = {}
    BY <2>2 DEF Refreshed
  <2>4. \A i \in Item : loads'[i] = loads[i]
    BY <1>9, <2>3 DEF CommandEnds, CommandResolves, CommandRejects, Loading
  <2>5. shown' = shown /\ jobs' = [jobs EXCEPT ![j] = Over]
    BY <1>9, <2>1, <2>2 DEF CommandEnds, CommandResolves, CommandRejects
  <2>6. \A k \in 1..MaxCommands : jobs'[k] = jobs[k] \/ ~ Waiting(k)'
    BY <1>1, <2>5 DEF Waiting, Over, NotSent
  <2>. QED BY <2>2, <2>4, <2>5, <2>6 DEF Opening, Waiting
<1>10. CASE CloseDialog \/ (\E d \in Dialog : OpenDialog(d)) \/ UNCHANGED vars
  BY <1>3, <1>10, DialogStep
<1>11. CASE LoadReadChild \/ SaveReadChild \/ CarryOut \/ AnswerRead \/ Perform \/ Fail \/ Refuse \/ LoseReadChild
  <2>1. UNCHANGED panel
    BY <1>11 DEF LoadReadChild, SaveReadChild, CarryOut, AnswerRead, Perform, Fail, Refuse, LoseReadChild
  <2>. QED BY <1>3, <2>1 DEF panel
<1>. QED BY <1>4, <1>5, <1>6, <1>7, <1>8, <1>9, <1>10, <1>11 DEF Next, Deliver

LEMMA NextMine == TypeInv /\ Opening /\ Mine /\ [Next]_vars => Mine'
<1>. SUFFICES ASSUME TypeInv, Opening, Mine, [Next]_vars, "strayed" \notin excuses',
                     NEW k \in 1..MaxCommands, Waiting(k)', jobs'[k].kind # "message"
              PROVE  jobs'[k].item = selected'
  BY DEF Mine, Waiting
<1>1. jobs \in [1..MaxCommands -> Job]
  BY DEF TypeInv, TypeOK
<1>2. ASSUME UNCHANGED <<selected, jobs>>, excuses \subseteq excuses' PROVE jobs'[k].item = selected'
  BY <1>2 DEF Mine, Waiting
<1>3. ASSUME NEW i \in Item, Select(i) PROVE FALSE
  BY <1>1, <1>3 DEF Select, Waiting
<1>4. ASSUME NEW j \in 1..MaxCommands, NEW i \in Item, Message(j, i) PROVE jobs'[k].item = selected'
  BY <1>1, <1>4 DEF Message, Send, Mine, Waiting
<1>5. ASSUME NEW j \in 1..MaxCommands, Confirm(j) PROVE jobs'[k].item = selected'
  BY <1>1, <1>5 DEF Confirm, Send, Mine, Waiting
<1>6. ASSUME ListArrives PROVE jobs'[k].item = selected'
  <2>1. excuses \subseteq excuses' /\ selected' = IF Reply.ok /\ selected = NoItem THEN First ELSE selected
    BY <1>6, ListStep
  <2>2. Waiting(k) /\ jobs[k].kind # "message" /\ jobs'[k].item = jobs[k].item
    BY <1>1, <1>6 DEF ListArrives, Resumed, Waiting
  <2>. QED BY <2>1, <2>2 DEF Mine, Opening
<1>7. ASSUME NEW p \in Part, PartArrives(p) PROVE jobs'[k].item = selected'
  <2>1. UNCHANGED <<selected, excuses>>
    BY <1>7 DEF PartArrives
  <2>2. jobs'[k] = jobs[k] \/ jobs'[k] = Over
    BY <1>1, <1>7 DEF PartArrives
  <2>. QED BY <2>1, <2>2 DEF Mine, Waiting, Over, NotSent
<1>8. ASSUME CommandEnds PROVE jobs'[k].item = selected'
  <2>1. PICK j \in 1..MaxCommands : Reply.item = j /\ jobs[j].phase = "sent" /\ jobs[j].item \in Item /\ Reply \in Answered
    BY <1>8, CommandStep
  <2>2. UNCHANGED selected /\ "strayed" \notin excuses
    BY <1>8, ExcusesGrow DEF CommandEnds
  <2>3. \/ jobs' = [jobs EXCEPT ![j] = Over]
        \/ /\ jobs[j].kind # "message" /\ Reply.ok
           /\ jobs' = [jobs EXCEPT ![j] = Turned(jobs[j], Returned(j).item)]
    BY <1>8, <2>1 DEF CommandEnds, CommandResolves, CommandRejects, Turned
  <2>4. Waiting(k) /\ jobs[k].kind # "message" /\ jobs'[k].item = jobs[k].item
    <3>1. CASE jobs' = [jobs EXCEPT ![j] = Over]
      <4>1. k # j
        BY <1>1, <3>1 DEF Waiting, Over, NotSent
      <4>. QED BY <1>1, <3>1, <4>1 DEF Waiting
    <3>2. CASE /\ jobs[j].kind # "message" /\ Reply.ok
               /\ jobs' = [jobs EXCEPT ![j] = Turned(jobs[j], Returned(j).item)]
      <4>1. CASE k = j
        <5>1. jobs'[k] = Turned(jobs[j], Returned(j).item)
          BY <1>1, <3>2, <4>1
        <5>2. Returned(j).item = jobs[j].item
          BY <2>1, <3>2, ReturnedFacts
        <5>3. PICK x \in Job, i \in Item : x = jobs[j] /\ i = Returned(j).item
          BY <1>1, <2>1, <5>2
        <5>4. Turned(x, i).item = i
          BY TurnFacts
        <5>. QED BY <2>1, <3>2, <4>1, <5>1, <5>2, <5>3, <5>4 DEF Waiting
      <4>2. CASE k # j
        BY <1>1, <3>2, <4>2 DEF Waiting
      <4>. QED BY <4>1, <4>2
    <3>. QED BY <2>3, <3>1, <3>2
  <2>. QED BY <2>2, <2>4 DEF Mine
<1>9. CASE CloseDialog \/ (\E d \in Dialog : OpenDialog(d)) \/ UNCHANGED vars
  BY <1>2, <1>9, DialogStep
<1>10. CASE LoadReadChild \/ SaveReadChild \/ CarryOut \/ AnswerRead \/ Perform \/ Fail \/ Refuse \/ LoseReadChild
  <2>1. UNCHANGED panel
    BY <1>10 DEF LoadReadChild, SaveReadChild, CarryOut, AnswerRead, Perform, Fail, Refuse, LoseReadChild
  <2>. QED BY <1>2, <2>1, ExcusesGrow DEF panel
<1>. QED BY <1>3, <1>4, <1>5, <1>6, <1>7, <1>8, <1>9, <1>10 DEF Next, Deliver


-----------------------------------------------------------------------------
(* How far a load has come, and that what is shown, if it is not what the  *)
(* environment is now, is still to be loaded or will be asked for.         *)
Rank(p) == IF p = "detail" THEN 0 ELSE IF p = "plan" THEN 1 ELSE IF p = "workflow" THEN 2 ELSE 3

Fresh(p) == shown[p].item = NoItem \/ shown[p].rev = rev[shown[p].item]

Unexcused == excuses \cap {"overtaken", "lost", "unseen", "behind"} = {}

Coming == Unexcused =>
  /\ listed = rev \/ listing \/ Behind \/ Owed
  /\ \A p \in Part : Fresh(p) \/ Behind \/ Owed \/ \E x \in Item : Rank(loads[x]) <= Rank(p)

LEMMA RankFacts ==
  /\ \A p \in Part \cup {"none"} : Rank(p) \in 0..3 /\ (Rank(p) = 3 <=> p = "none")
  /\ \A p, q \in Part \cup {"none"} : Rank(p) = Rank(q) => p = q
  /\ \A p \in Part : Rank(Following(p)) = Rank(p) + 1 /\ (Following(p) = "none" <=> p = "workflow")
  /\ \A p \in Part \cup {"none"} : Rank("detail") <= Rank(p)
  /\ "detail" \in Part /\ Rank("detail") = 0 /\ Rank("none") = 3
BY DEF Rank, Part, Following

LEMMA LoadingFacts ==
  ASSUME TypeInv, NEW items \in SUBSET Item
  PROVE  \A x \in Item : /\ Loading(items)[x] = loads[x] \/ (x \in items /\ loads[x] = "none" /\ Loading(items)[x] = "detail")
                         /\ Rank(Loading(items)[x]) <= Rank(loads[x])
                         /\ x \in items => Loading(items)[x] # "none"
                         /\ x \in items /\ Overtaken(items) = {} => Loading(items)[x] = "detail"
<1>. SUFFICES ASSUME NEW x \in Item
              PROVE  /\ Loading(items)[x] = loads[x] \/ (x \in items /\ loads[x] = "none" /\ Loading(items)[x] = "detail")
                     /\ Rank(Loading(items)[x]) <= Rank(loads[x])
                     /\ x \in items => Loading(items)[x] # "none"
                     /\ x \in items /\ Overtaken(items) = {} => Loading(items)[x] = "detail"
  OBVIOUS
<1>1. loads[x] \in Part \cup {"none"}
  BY DEF TypeInv, TypeOK
<1>2. Loading(items)[x] = IF x \in items /\ loads[x] = "none" THEN "detail" ELSE loads[x]
  BY DEF Loading
<1>3. Rank(loads[x]) \in 0..3 /\ Rank("detail") = 0
  BY <1>1, RankFacts
<1>4. x \in items /\ Overtaken(items) = {} => loads[x] \notin {"plan", "workflow"}
  BY DEF Overtaken
<1>. QED BY <1>1, <1>2, <1>3, <1>4 DEF Part

LEMMA InitComing == Init => Coming
BY DEF Init, Coming, Fresh, NotShown

LEMMA UnexcusedFacts ==
  ASSUME [Next]_vars, Unexcused'
  PROVE  Unexcused /\ Undisturbed /\ Undisturbed'
BY ExcusesGrow DEF Unexcused, Undisturbed

\* Steps that neither show anything nor change the environment.
LEMMA ComingKept ==
  ASSUME TypeInv, Coming, Unexcused, UNCHANGED <<rev, listed, shown>>,
         listing => listing', Behind => Behind', Owed => Owed', loads' \in [Item -> Part \cup {"none"}],
         \A x \in Item : Rank(loads'[x]) <= Rank(loads[x])
  PROVE  Coming'
<1>1. listed' = rev' \/ listing' \/ Behind' \/ Owed'
  BY DEF Coming
<1>2. ASSUME NEW p \in Part, ~ Behind', ~ Owed', ~ Fresh(p)'
      PROVE  \E x \in Item : Rank(loads'[x]) <= Rank(p)
  <2>1. ~ Fresh(p)
    BY <1>2 DEF Fresh
  <2>2. PICK x \in Item : Rank(loads[x]) <= Rank(p)
    BY <1>2, <2>1 DEF Coming
  <2>3. Rank(loads[x]) \in 0..3 /\ Rank(loads'[x]) \in 0..3 /\ Rank(p) \in 0..3
    BY RankFacts DEF TypeInv, TypeOK
  <2>4. Rank(loads'[x]) <= Rank(loads[x])
    OBVIOUS
  <2>5. Rank(loads'[x]) <= Rank(p)
    BY <2>2, <2>3, <2>4
  <2>. QED BY <2>5
<1>. QED BY <1>1, <1>2 DEF Coming, Fresh

LEMMA NextComing == TypeInv /\ Followed /\ Opening /\ Coming /\ [Next]_vars => Coming'
<1>. SUFFICES ASSUME TypeInv, Followed, Opening, Coming, [Next]_vars, Unexcused' PROVE Coming'
  BY DEF Coming
<1>1. /\ replies \in Seq(Answered) /\ view \in [Item -> Nat] /\ rev \in [Item -> Nat]
      /\ loads \in [Item -> Part \cup {"none"}] /\ TypeInv'
      /\ shown \in [Part -> [item : Item \cup {NoItem}, rev : Nat]]
  BY NextType DEF TypeInv, TypeOK
<1>2. Unexcused /\ Undisturbed /\ Undisturbed' /\ Current /\ \A x \in Item : Rank(loads[x]) \in 0..3
  BY <1>1, RankFacts, UnexcusedFacts DEF Followed
<1>3. ASSUME UNCHANGED <<rev, listed, shown, listing, loads>>, Behind => Behind', Owed => Owed'
      PROVE  Coming'
  <2>1. loads' \in [Item -> Part \cup {"none"}] /\ (listing => listing')
    BY <1>1, <1>3
  <2>2. \A x \in Item : Rank(loads'[x]) <= Rank(loads[x])
    BY <1>2, <1>3
  <2>. QED BY <1>2, <1>3, <2>1, <2>2, ComingKept
<1>4. ASSUME NEW i \in Item, Select(i) PROVE Coming'
  <2>1. loads' = Loading({i}) /\ {i} \in SUBSET Item
    BY <1>4 DEF Select, Effect
  <2>2. \A x \in Item : Rank(loads'[x]) <= Rank(loads[x])
    BY <2>1, LoadingFacts
  <2>3. UNCHANGED <<rev, listed, shown, listing, replies, commands, results>>
    BY <1>4 DEF Select, store
  <2>4. (Behind => Behind') /\ (Owed => Owed')
    BY <2>3 DEF Behind, Owed, Carried
  <2>5. loads' \in [Item -> Part \cup {"none"}] /\ (listing => listing')
    BY <1>1, <2>3 DEF TypeInv, TypeOK
  <2>. QED BY <1>2, <2>2, <2>3, <2>4, <2>5, ComingKept
<1>5. ASSUME AnswerRead PROVE Coming'
  <2>1. PICK r \in Answered : replies' = Append(replies, r) /\ r.ok = TRUE /\ r.said = view
    BY <1>5, AnswerStep
  <2>2. Behind => Behind'
    BY <1>1, <2>1, AddedOne, BehindAdded
  <2>3. UNCHANGED <<rev, listed, shown, listing, loads, commands, results>>
    BY <1>5 DEF AnswerRead, panel, store
  <2>. QED BY <1>3, <2>2, <2>3 DEF Owed, Carried
<1>6. ASSUME Perform PROVE Coming'
  <2>1. PICK r \in Answered : replies' = replies \o Rejected \o <<r>> /\ Ends(r, Head(commands)) /\ r.ok = TRUE
    BY <1>6, PerformStep
  <2>2. PICK n \in DOMAIN replies' : replies'[n] = r
    BY <2>1, PerformedAdded
  <2>3. Behind'
    BY <2>1, <2>2 DEF Behind, Done, Ends
  <2>. QED BY <2>3 DEF Coming
<1>7. ASSUME Fail \/ Refuse PROVE Coming'
  <2>1. PICK r \in Answered :
          /\ replies' = Append(replies, r) /\ r.kind = "command" /\ r.ok = FALSE
          /\ commands # <<>> /\ commands' = Tail(commands)
          /\ results[Head(commands)].status # "ok" \/ "unseen" \in excuses'
          /\ UNCHANGED <<rev, results, panel>>
    BY <1>7, EndsStep
  <2>2. ~ Carried(1)
    BY <1>2, <2>1, CommandGone DEF Carried, Undisturbed
  <2>3. Owed => Owed'
    BY <1>2, <2>1, <2>2, GoneCurrent
  <2>4. Behind => Behind'
    BY <1>1, <2>1, AddedOne, BehindAdded
  <2>. QED BY <1>3, <2>1, <2>3, <2>4 DEF panel
<1>8. ASSUME LoseReadChild PROVE Coming'
  BY <1>2, <1>8 DEF LoseReadChild, Undisturbed
<1>9. ASSUME LoadReadChild \/ SaveReadChild PROVE Coming'
  <2>1. UNCHANGED <<rev, listed, shown, listing, loads, commands, results, replies>>
    BY <1>9, ReadChildStep DEF panel
  <2>. QED BY <1>3, <2>1 DEF Owed, Carried, Behind
<1>10. ASSUME CarryOut PROVE Coming'
  <2>1. UNCHANGED <<replies, panel>>
    BY <1>10, CarryOutStep
  <2>2. Owed' \/ (rev' = rev /\ ~ Owed)
    BY <1>2, <1>10, CarriedFacts
  <2>3. CASE Owed'
    BY <2>3 DEF Coming
  <2>4. CASE rev' = rev /\ ~ Owed
    BY <1>3, <2>1, <2>4 DEF Behind, panel
  <2>. QED BY <2>2, <2>3, <2>4
<1>11. ASSUME ListArrives PROVE Coming'
  <2>1. /\ loads' = Loading(ListLoads) /\ ListLoads \in SUBSET Item /\ excuses \subseteq excuses'
        /\ UNCHANGED <<rev, shown>> /\ replies # <<>> /\ replies' = Tail(replies) /\ Reply.kind = "list"
        /\ listed' = IF Reply.ok THEN Reply.said ELSE listed
    BY <1>11, ListStep, ListLoadsFacts DEF ListArrives, Taken, store
  <2>2. \A x \in Item : Rank(loads'[x]) <= Rank(loads[x])
    BY <2>1, LoadingFacts
  <2>3. Behind => Behind'
    BY <2>1, BehindTaken DEF Done
  <2>4. UNCHANGED <<commands, results>> /\ (Owed' <=> Owed)
    BY <1>11 DEF ListArrives, Owed, Carried, store
  <2>. SUFFICES ASSUME ~ Behind', ~ Owed'
                PROVE  /\ listed' = rev'
                       /\ \A p \in Part : Fresh(p)' \/ \E x \in Item : Rank(loads'[x]) <= Rank(p)
    BY DEF Coming, Fresh
  <2>5. ~ Stale(Reply, rev)
    BY <1>2, <2>1, <2>4, BehindLater
  <2>6. listed' = rev'
    BY <2>1, <2>5 DEF Stale
  <2>7. ASSUME NEW p \in Part, ~ Fresh(p)' PROVE \E x \in Item : Rank(loads'[x]) <= Rank(p)
    <3>1. ~ Fresh(p)
      BY <2>1, <2>7 DEF Fresh
    <3>2. PICK x \in Item : Rank(loads[x]) <= Rank(p)
      BY <1>2, <2>3, <2>4, <3>1 DEF Coming
    <3>3. Rank(loads'[x]) \in 0..3 /\ Rank(p) \in 0..3
      BY <1>1, RankFacts DEF TypeInv, TypeOK
    <3>4. Rank(loads'[x]) <= Rank(loads[x]) /\ Rank(loads[x]) \in 0..3
      BY <1>2, <2>2
    <3>5. Rank(loads'[x]) <= Rank(p)
      BY <3>2, <3>3, <3>4
    <3>. QED BY <3>5
  <2>. QED BY <2>6, <2>7
<1>12. ASSUME NEW p \in Part, PartArrives(p) PROVE Coming'
  <2>1. PICK i \in Item : /\ i = Reply.item /\ loads[i] = p /\ loads' = [loads EXCEPT ![i] = Continued(p)]
    BY <1>12, PartStep
  <2>2. /\ UNCHANGED <<rev, listed, listing, commands, results>>
        /\ replies # <<>> /\ replies' = Tail(replies) /\ Reply.kind = p
        /\ shown' = IF Reply.ok THEN [shown EXCEPT ![p] = [item |-> i, rev |-> Reply.said[i]]] ELSE shown
    BY <1>12, <2>1 DEF PartArrives, Taken, store
  <2>3. (Behind => Behind') /\ (Owed' <=> Owed)
    BY <2>2, BehindTaken DEF Done, Part, Owed, Carried
  <2>. SUFFICES ASSUME ~ Behind', ~ Owed'
                PROVE  /\ listed = rev \/ listing
                       /\ \A q \in Part : Fresh(q)' \/ \E x \in Item : Rank(loads'[x]) <= Rank(q)
    BY <2>2 DEF Coming, Fresh
  <2>4. ~ Stale(Reply, rev)
    BY <1>2, <2>2, <2>3, BehindLater
  <2>5. Reply.ok /\ Reply.said = rev
    BY <2>2, <2>4 DEF Stale, Part
  <2>6. shown' = [shown EXCEPT ![p] = [item |-> i, rev |-> rev[i]]] /\ rev' = rev /\ Continued(p) = Following(p)
    BY <2>2, <2>5 DEF Continued
  <2>7. ASSUME NEW q \in Part, ~ Fresh(q)' PROVE \E x \in Item : Rank(loads'[x]) <= Rank(q)
    <3>1. q # p /\ ~ Fresh(q)
      BY <1>1, <2>6, <2>7 DEF Fresh
    <3>2. PICK x \in Item : Rank(loads[x]) <= Rank(q)
      BY <1>2, <2>3, <3>1 DEF Coming
    <3>3. CASE x # i
      BY <1>1, <2>1, <3>2, <3>3
    <3>4. CASE x = i
      <4>1. Rank(p) <= Rank(q) /\ Rank(p) # Rank(q) /\ Rank(p) \in 0..3 /\ Rank(q) \in 0..3
        BY <2>1, <3>1, <3>2, <3>4, RankFacts
      <4>2. loads'[i] = Following(p) /\ Rank(Following(p)) = Rank(p) + 1
        BY <1>1, <2>1, <2>6, RankFacts
      <4>3. Rank(loads'[i]) <= Rank(q)
        BY <4>1, <4>2
      <4>. QED BY <4>3
    <3>. QED BY <3>3, <3>4
  <2>. QED BY <1>2, <2>3, <2>7 DEF Coming
<1>13. ASSUME CommandEnds PROVE Coming'
  <2>1. PICK j \in 1..MaxCommands : j = Reply.item /\ jobs[j].phase = "sent" /\ jobs[j].item \in Item
    BY <1>13, CommandStep
  <2>2. /\ UNCHANGED <<rev, listed, selected, commands, results>>
        /\ replies # <<>> /\ replies' = Tail(replies) /\ Reply.kind = "command"
        /\ IF Resolves THEN CommandResolves(j) ELSE CommandRejects(j)
    BY <1>13, <2>1 DEF CommandEnds, Taken, Resolves, store
  <2>3. CASE ~ Resolves
    <3>1. UNCHANGED <<listing, loads, shown>> /\ ~ Reply.ok
      BY <2>2, <2>3 DEF CommandRejects, Resolves
    <3>2. (Behind => Behind') /\ (Owed => Owed')
      BY <2>2, <3>1, BehindTaken DEF Done, Owed, Carried
    <3>. QED BY <1>3, <2>2, <3>1, <3>2
  <2>4. CASE Resolves
    <3>1. /\ listing' = TRUE /\ loads' = Loading(Refreshed) /\ Overtaken(Refreshed) \subseteq excuses'
          /\ jobs[j].kind = "message" => shown' = shown
      BY <2>2, <2>4 DEF CommandResolves
    <3>2. Refreshed \in SUBSET Item
      BY DEF Refreshed, TypeInv, TypeOK
    <3>. SUFFICES \A p \in Part : Fresh(p)' \/ \E x \in Item : Rank(loads'[x]) <= Rank(p)
      BY <3>1 DEF Coming, Fresh
    <3>3. Overtaken(Refreshed) = {}
      BY <3>1 DEF Overtaken, Unexcused
    <3>4. CASE selected = NoItem
      <4>1. jobs[j].kind = "message" /\ \A p \in Part : shown[p].item = NoItem
        BY <2>1, <3>4 DEF Opening, Waiting
      <4>. QED BY <3>1, <4>1 DEF Fresh
    <3>5. CASE selected # NoItem
      <4>1. selected \in Item /\ selected \in Refreshed
        BY <3>5 DEF Refreshed, TypeInv, TypeOK
      <4>2. loads'[selected] = "detail"
        BY <3>1, <3>2, <3>3, <4>1, LoadingFacts
      <4>3. \A p \in Part : Rank(loads'[selected]) <= Rank(p)
        BY <4>2, RankFacts
      <4>. QED BY <4>1, <4>3
    <3>. QED BY <3>4, <3>5
  <2>. QED BY <2>3, <2>4
<1>14. CASE CloseDialog \/ (\E d \in Dialog : OpenDialog(d)) \/ UNCHANGED vars
  <2>1. UNCHANGED <<rev, listed, shown, listing, loads, replies, commands, results>>
    BY <1>14, DialogStep
  <2>. QED BY <1>3, <2>1 DEF Behind, Owed, Carried
<1>15. ASSUME NEW j \in 1..MaxCommands, NEW kind, NEW i, Send(j, kind, i) PROVE Coming'
  <2>1. (Owed => Owed') /\ UNCHANGED <<rev, replies>>
    BY <1>2, <1>15, SentCurrent
  <2>2. UNCHANGED <<listed, shown, listing, loads>>
    BY <1>15 DEF Send
  <2>. QED BY <1>3, <2>1, <2>2 DEF Behind
<1>16. CASE \E j \in 1..MaxCommands : Confirm(j) \/ \E i \in Item : Message(j, i)
  BY <1>15, <1>16 DEF Confirm, Message
<1>. QED BY <1>4, <1>5, <1>6, <1>7, <1>8, <1>9, <1>10, <1>11, <1>12, <1>13, <1>14, <1>16 DEF Next, Deliver

\* Nothing is under way any more.
LEMMA QuietFacts ==
  ASSUME TypeInv, Quiet
  PROVE  ~ Behind /\ ~ Owed /\ ~ listing /\ \A i \in Item : loads[i] = "none"
<1>1. reads = <<>> /\ replies = <<>> /\ DOMAIN replies = {} /\ DOMAIN commands = {}
  BY Empty DEF Quiet
<1>2. Line = <<>>
  BY <1>1, Empty, ConcatEmptySeq DEF Line, Entries
<1>3. \A e : ~ Contains(Line, e)
  BY <1>2, Empty
<1>4. Agrees(Line, loads, listing)
  BY LineType DEF TypeInv
<1>5. ~ listing /\ \A p \in Part, i \in Item : loads[i] # p
  BY <1>3, <1>4 DEF Agrees
<1>6. \A i \in Item : loads[i] \in Part \cup {"none"}
  BY <1>4 DEF Agrees
<1>. QED BY <1>1, <1>5, <1>6 DEF Behind, Owed

LEMMA FollowedInvariant == Spec => [](TypeInv /\ Followed /\ Rejections /\ Opening /\ Mine)
<1>1. TypeInv /\ Followed /\ Rejections /\ Opening /\ Mine /\ [Next]_vars
        => (TypeInv /\ Followed /\ Rejections /\ Opening /\ Mine)'
  BY NextType, NextFollowed, NextRejections, NextOpening, NextMine
<1>. QED BY <1>1, InitType, InitFollowed, PTL DEF Spec

(* In the end, when nothing is under way, the selected item's row and what *)
(* is shown of it are what the environment is now: an answer that does not *)
(* tell that is followed by a command's, which has it all loaded again.    *)
THEOREM WhatIsShownIsFresh == Spec => []PanelIsFresh
<1>1. TypeInv /\ Coming => PanelIsFresh
  <2>. SUFFICES ASSUME TypeInv, Coming, Quiet, selected # NoItem, Unexcused
                PROVE  /\ listed[selected] = rev[selected]
                       /\ \A p \in Part : shown[p].item = selected => shown[p].rev = rev[selected]
    BY DEF PanelIsFresh, Unexcused
  <2>1. ~ Behind /\ ~ Owed /\ ~ listing /\ \A i \in Item : loads[i] = "none"
    BY QuietFacts
  <2>2. ASSUME NEW p \in Part, NEW x \in Item, Rank(loads[x]) <= Rank(p) PROVE FALSE
    <3>1. Rank(p) \in 0..3 /\ Rank(p) # 3 /\ Rank(loads[x]) = 3
      BY <2>1, RankFacts, ReadFacts
    <3>. QED BY <2>2, <3>1
  <2>3. listed = rev /\ \A p \in Part : Fresh(p)
    BY <2>1, <2>2 DEF Coming
  <2>. QED BY <2>3 DEF Fresh
<1>2. TypeInv /\ Followed /\ Opening /\ Coming /\ [Next]_vars => Coming'
  BY NextComing
<1>. QED BY <1>1, <1>2, FollowedInvariant, InitComing, PTL DEF Spec

-----------------------------------------------------------------------------
(* The load of the selected item is the last to end: every other one that  *)
(* is under way has come further, or as far and is heard of before.        *)
Ahead(x) ==
  \/ loads[selected] = "none" /\ Behind
  \/ Rank(loads[x]) > Rank(loads[selected])
  \/ loads[x] = loads[selected] /\ Before(Read(loads[x], x), Read(loads[selected], selected), Line)

Lasting == excuses \cap {"rejoined", "strayed", "lost"} = {} /\ selected # NoItem =>
  /\ \A x \in Item \ {selected} : loads[x] # "none" => Ahead(x)
  /\ \A p \in Part : \/ shown[p].item = selected
                     \/ loads[selected] = "none" /\ Behind
                     \/ Rank(loads[selected]) <= Rank(p)

LEMMA InitLasting == Init => Lasting
BY DEF Init, Lasting

\* A load of the selected item that is begun behind the others.
LEMMA LastingAsked ==
  ASSUME TypeInv', selected' \in Item, loads'[selected'] = "detail",
         \A x \in Item \ {selected'} : loads'[x] = "detail" =>
           Before(Read("detail", x), Read("detail", selected'), Line')
  PROVE  Lasting'
<1>1. ASSUME NEW x \in Item \ {selected'}, loads'[x] # "none" PROVE Ahead(x)'
  <2>1. loads'[x] \in Part
    BY <1>1 DEF TypeInv, TypeOK
  <2>2. CASE loads'[x] = "detail"
    BY <2>2 DEF Ahead, Read
  <2>3. CASE loads'[x] # "detail"
    <3>1. Rank(loads'[x]) \in 0..3 /\ Rank(loads'[x]) # 0 /\ Rank(loads'[selected']) = 0
      BY <2>1, <2>3, RankFacts
    <3>2. Rank(loads'[x]) > Rank(loads'[selected'])
      BY <3>1
    <3>. QED BY <3>2 DEF Ahead
  <2>. QED BY <2>2, <2>3
<1>2. \A p \in Part : Rank(loads'[selected']) <= Rank(p)
  BY RankFacts
<1>. QED BY <1>1, <1>2 DEF Lasting

\* A step that asks for no more than the selected item's detail, behind an entry that is no part.
LEMMA LastingReloaded ==
  ASSUME TypeInv, TypeInv', Lasting, UNCHANGED selected, selected # NoItem, excuses \subseteq excuses',
         NEW items \in SUBSET {selected}, \A x \in Item : loads'[x] = Loading(items)[x],
         Line # <<>>, \A p \in Part, x \in Item : Head(Line) # Read(p, x),
         NEW new, Queued(Tail(Line), new, Line'), Wanted(items, loads) \subseteq new,
         loads'[selected] = "none" /\ Behind => Behind',
         \A p \in Part : shown'[p].item \in {shown[p].item, selected}
  PROVE  Lasting'
<1>1. /\ loads \in [Item -> Part \cup {"none"}] /\ selected \in Item
      /\ Line \in Seq(Entry) /\ IsInjective(Line) /\ Agrees(Line, loads, listing)
  BY LineType DEF TypeInv, TypeOK, Agrees
<1>2. ASSUME NEW p \in Part, NEW x \in Item, loads[x] = p PROVE Contains(Tail(Line), Read(p, x))
  BY <1>1, <1>2, Shorter DEF Agrees
<1>3. CASE selected \in items /\ loads[selected] = "none"
  <2>1. loads'[selected'] = "detail" /\ \A x \in Item \ {selected'} : loads'[x] = loads[x]
    BY <1>1, <1>3 DEF Loading
  <2>2. Read("detail", selected') \in new
    BY <1>3 DEF Wanted
  <2>3. ASSUME NEW x \in Item \ {selected'}, loads'[x] = "detail"
        PROVE  Before(Read("detail", x), Read("detail", selected'), Line')
    BY <1>2, <2>1, <2>2, <2>3, RankFacts DEF Queued
  <2>. QED BY <1>1, <2>1, <2>3, LastingAsked
<1>4. CASE ~ (selected \in items /\ loads[selected] = "none")
  <2>1. \A x \in Item : loads'[x] = loads[x]
    BY <1>4 DEF Loading
  <2>. SUFFICES ASSUME excuses' \cap {"rejoined", "strayed", "lost"} = {}
                PROVE  /\ \A x \in Item \ {selected} : loads'[x] # "none" => Ahead(x)'
                       /\ \A p \in Part : \/ shown'[p].item = selected
                                          \/ loads'[selected] = "none" /\ Behind'
                                          \/ Rank(loads'[selected]) <= Rank(p)
    BY DEF Lasting
  <2>2. excuses \cap {"rejoined", "strayed", "lost"} = {}
    OBVIOUS
  <2>3. ASSUME NEW x \in Item \ {selected}, loads'[x] # "none" PROVE Ahead(x)'
    <3>1. Ahead(x) /\ loads[x] \in Part /\ loads'[x] = loads[x] /\ loads'[selected] = loads[selected]
      BY <1>1, <2>1, <2>2, <2>3 DEF Lasting
    <3>2. ASSUME Before(Read(loads[x], x), Read(loads[selected], selected), Line)
          PROVE  Before(Read(loads[x], x), Read(loads[selected], selected), Line')
      BY <1>1, <3>1, <3>2, Shorter DEF Queued
    <3>. QED BY <3>1, <3>2 DEF Ahead, Read
  <2>4. ASSUME NEW p \in Part
        PROVE  \/ shown'[p].item = selected
               \/ loads'[selected] = "none" /\ Behind'
               \/ Rank(loads'[selected]) <= Rank(p)
    BY <1>1, <2>1, <2>2 DEF Lasting
  <2>. QED BY <2>3, <2>4
<1>. QED BY <1>3, <1>4

\* A step that asks for nothing.
LEMMA LastingKept ==
  ASSUME TypeInv, TypeInv', Lasting, UNCHANGED <<selected, loads, shown>>, excuses \subseteq excuses',
         Behind => Behind', \A e, f : Before(e, f, Line) => Before(e, f, Line')
  PROVE  Lasting'
<1>. SUFFICES ASSUME excuses' \cap {"rejoined", "strayed", "lost"} = {}, selected # NoItem
              PROVE  /\ \A x \in Item \ {selected} : loads[x] # "none" => Ahead(x)'
                     /\ \A p \in Part : \/ shown[p].item = selected
                                        \/ loads[selected] = "none" /\ Behind'
                                        \/ Rank(loads[selected]) <= Rank(p)
  BY DEF Lasting
<1>1. excuses \cap {"rejoined", "strayed", "lost"} = {}
  OBVIOUS
<1>2. ASSUME NEW x \in Item \ {selected}, loads[x] # "none" PROVE Ahead(x)'
  <2>1. Ahead(x)
    BY <1>1, <1>2 DEF Lasting
  <2>. QED BY <2>1 DEF Ahead, Read
<1>. QED BY <1>1, <1>2 DEF Lasting

\* A part comes.
LEMMA LastingPart ==
  ASSUME TypeInv, Rejections, Lasting, NEW p \in Part, PartArrives(p)
  PROVE  Lasting'
<1>1. PICK i \in Item : /\ i = Reply.item /\ loads[i] = p /\ loads' = [loads EXCEPT ![i] = Continued(p)]
                        /\ Line # <<>> /\ Head(Line) = Read(p, i) /\ TypeInv'
                        /\ Queued(Tail(Line), IF Continued(p) = "none" THEN {} ELSE {Read(Continued(p), i)}, Line')
  BY PartStep
<1>2. /\ UNCHANGED <<selected, excuses>>
      /\ replies # <<>> /\ replies' = Tail(replies) /\ Reply.kind = p
      /\ shown' = IF Reply.ok THEN [shown EXCEPT ![p] = [item |-> i, rev |-> Reply.said[i]]] ELSE shown
  BY <1>1 DEF PartArrives, Taken
<1>3. Behind => Behind'
  BY <1>2, BehindTaken DEF Done, Part
<1>4. /\ loads \in [Item -> Part \cup {"none"}] /\ selected \in Item \cup {NoItem}
      /\ shown \in [Part -> [item : Item \cup {NoItem}, rev : Nat]]
      /\ Line \in Seq(Entry) /\ IsInjective(Line) /\ Agrees(Line, loads, listing)
  BY LineType DEF TypeInv, TypeOK, Agrees
<1>5. loads'[i] = Continued(p) /\ \A x \in Item : x # i => loads'[x] = loads[x]
  BY <1>1, <1>4
<1>6. \A x \in Item : Rank(loads[x]) \in 0..3 /\ Rank(p) \in 0..3 /\ Rank(Following(p)) = Rank(p) + 1
  BY <1>4, RankFacts
<1>. SUFFICES ASSUME excuses \cap {"rejoined", "strayed", "lost"} = {}, selected # NoItem
              PROVE  /\ \A x \in Item \ {selected} : loads'[x] # "none" => Ahead(x)'
                     /\ \A q \in Part : \/ shown'[q].item = selected
                                        \/ loads'[selected] = "none" /\ Behind'
                                        \/ Rank(loads'[selected]) <= Rank(q)
  BY <1>2 DEF Lasting
<1>7. selected \in Item
  BY <1>4
<1>8. /\ \A x \in Item \ {selected} : loads[x] # "none" => Ahead(x)
      /\ \A q \in Part : \/ shown[q].item = selected
                         \/ loads[selected] = "none" /\ Behind
                         \/ Rank(loads[selected]) <= Rank(q)
  BY DEF Lasting
<1>9. CASE selected = i
  <2>1. CASE ~ Reply.ok
    <3>1. Reply.kind # "command" /\ "lost" \notin excuses
      BY <1>2 DEF Part
    <3>2. Behind'
      BY <1>2, <2>1, <3>1, BehindRejected
    <3>3. loads'[selected] = "none"
      BY <1>5, <1>9, <2>1 DEF Continued
    <3>. QED BY <1>2, <3>2, <3>3 DEF Ahead
  <2>2. CASE Reply.ok
    <3>1. loads'[selected] = Following(p) /\ Continued(p) = Following(p)
      BY <1>5, <1>9, <2>2 DEF Continued
    <3>2. ASSUME NEW x \in Item \ {selected}, loads'[x] # "none" PROVE Ahead(x)'
      <4>1. loads'[x] = loads[x] /\ loads[x] \in Part /\ Ahead(x)
        BY <1>4, <1>5, <1>8, <1>9, <3>2
      <4>2. ~ Before(Read(loads[x], x), Read(p, i), Line)
        <5>1. \A e : ~ Before(e, Head(Line), Line)
          BY <1>1, <1>4, Shorter
        <5>. QED BY <1>1, <5>1
      <4>3. Rank(loads[x]) > Rank(p)
        BY <1>1, <1>9, <4>1, <4>2, ReadFacts DEF Ahead
      <4>4. CASE Rank(loads[x]) > Rank(Following(p))
        BY <1>2, <3>1, <4>1, <4>4 DEF Ahead
      <4>5. CASE Rank(loads[x]) = Rank(Following(p))
        <5>1. loads[x] = Following(p) /\ Following(p) \in Part
          BY <4>1, <4>5, RankFacts, FollowingType
        <5>2. Contains(Tail(Line), Read(loads[x], x))
          <6>1. Contains(Line, Read(loads[x], x)) /\ Read(loads[x], x) # Read(p, i)
            BY <1>4, <1>9, <3>2, <4>1, ReadFacts DEF Agrees
          <6>. QED BY <1>1, <1>4, <6>1, Shorter
        <5>3. Queued(Tail(Line), {Read(Following(p), i)}, Line')
          BY <1>1, <3>1, <5>1, ReadFacts
        <5>4. Before(Read(loads[x], x), Read(Following(p), i), Line')
          BY <5>2, <5>3 DEF Queued
        <5>. QED BY <1>2, <1>9, <3>1, <4>1, <5>1, <5>4 DEF Ahead, Read
      <4>. QED BY <1>6, <4>3, <4>4, <4>5
    <3>3. ASSUME NEW q \in Part, shown'[q].item # selected PROVE Rank(loads'[selected]) <= Rank(q)
      <4>1. q # p /\ shown'[q] = shown[q]
        BY <1>2, <1>4, <1>9, <2>2, <3>3
      <4>2. Rank(p) <= Rank(q) /\ Rank(p) # Rank(q) /\ Rank(q) \in 0..3
        BY <1>1, <1>8, <1>9, <3>3, <4>1, RankFacts, ReadFacts
      <4>. QED BY <1>6, <3>1, <4>2
    <3>. QED BY <3>2, <3>3
  <2>. QED BY <2>1, <2>2
<1>10. CASE selected # i
  <2>1. loads'[selected] = loads[selected] /\ Ahead(i)
    BY <1>1, <1>5, <1>7, <1>8, <1>10, ReadFacts
  <2>2. CASE loads[selected] = "none" /\ Behind
    BY <1>2, <1>3, <2>1, <2>2 DEF Ahead
  <2>3. CASE ~ (loads[selected] = "none" /\ Behind)
    <3>1. Rank(p) >= Rank(loads[selected])
      BY <1>1, <1>6, <1>7, <2>1, <2>3 DEF Ahead
    <3>2. ASSUME NEW x \in Item \ {selected}, loads'[x] # "none" PROVE Ahead(x)'
      <4>1. CASE x = i
        <5>1. Continued(p) = Following(p)
          BY <1>5, <3>2, <4>1 DEF Continued
        <5>2. Rank(loads'[x]) > Rank(loads'[selected])
          BY <1>5, <1>6, <1>7, <2>1, <3>1, <4>1, <5>1
        <5>. QED BY <1>2, <5>2 DEF Ahead
      <4>2. CASE x # i
        <5>1. loads'[x] = loads[x] /\ loads[x] \in Part /\ Ahead(x)
          BY <1>4, <1>5, <1>8, <3>2, <4>2
        <5>2. ASSUME Before(Read(loads[x], x), Read(loads[selected], selected), Line)
              PROVE  Before(Read(loads[x], x), Read(loads[selected], selected), Line')
          <6>1. Read(loads[x], x) # Read(p, i)
            BY <4>2, ReadFacts
          <6>2. Before(Read(loads[x], x), Read(loads[selected], selected), Tail(Line))
            BY <1>1, <1>4, <5>2, <6>1, Shorter
          <6>. QED BY <1>1, <6>2 DEF Queued
        <5>. QED BY <1>2, <2>1, <2>3, <5>1, <5>2 DEF Ahead, Read
      <4>. QED BY <4>1, <4>2
    <3>3. ASSUME NEW q \in Part, shown'[q].item # selected PROVE Rank(loads'[selected]) <= Rank(q)
      <4>1. CASE q = p
        BY <2>1, <3>1, <4>1
      <4>2. CASE q # p
        <5>1. shown'[q] = shown[q]
          BY <1>2, <1>4, <4>2
        <5>. QED BY <1>8, <2>1, <2>3, <3>3, <5>1
      <4>. QED BY <4>1, <4>2
    <3>. QED BY <3>2, <3>3
  <2>. QED BY <2>2, <2>3
<1>. QED BY <1>9, <1>10

LEMMA NextLasting == TypeInv /\ Rejections /\ Opening /\ Mine /\ Lasting /\ [Next]_vars => Lasting'
<1>. SUFFICES ASSUME TypeInv, Rejections, Opening, Mine, Lasting, [Next]_vars PROVE Lasting'
  OBVIOUS
<1>1. /\ replies \in Seq(Answered) /\ view \in [Item -> Nat]
      /\ loads \in [Item -> Part \cup {"none"}] /\ TypeInv'
      /\ jobs \in [1..MaxCommands -> Job] /\ selected \in Item \cup {NoItem}
      /\ shown \in [Part -> [item : Item \cup {NoItem}, rev : Nat]]
      /\ Agrees(Line, loads, listing)
  BY NextType, LineType DEF TypeInv, TypeOK
<1>2. ASSUME NEW i \in Item, Select(i) PROVE Lasting'
  <2>1. selected' = i /\ loads' = Loading({i}) /\ Queued(Line, Wanted({i}, loads), Line')
        /\ (loads[i] # "none" => "rejoined" \in excuses')
    BY <1>2, SelectStep DEF Select, Effect
  <2>2. CASE loads[i] # "none"
    BY <2>1, <2>2 DEF Lasting
  <2>3. CASE loads[i] = "none"
    <3>1. loads'[i] = "detail" /\ \A x \in Item \ {i} : loads'[x] = loads[x]
      BY <2>1, <2>3 DEF Loading
    <3>2. Read("detail", i) \in Wanted({i}, loads)
      BY <2>3 DEF Wanted
    <3>3. ASSUME NEW x \in Item \ {i}, loads'[x] = "detail"
          PROVE  Before(Read("detail", x), Read("detail", i), Line')
      <4>1. Contains(Line, Read("detail", x))
        BY <1>1, <3>1, <3>3, RankFacts DEF Agrees
      <4>. QED BY <2>1, <3>2, <4>1 DEF Queued
    <3>. QED BY <1>1, <2>1, <3>1, <3>3, LastingAsked
  <2>. QED BY <2>2, <2>3
<1>3. ASSUME AnswerRead PROVE Lasting'
  <2>1. PICK r \in Answered : replies' = Append(replies, r) /\ r.ok = TRUE /\ r.said = view
    BY <1>3, AnswerStep
  <2>2. Behind => Behind'
    BY <1>1, <2>1, AddedOne, BehindAdded
  <2>3. Line' = Line /\ UNCHANGED <<selected, loads, shown, excuses>>
    BY <1>3, AnswerStep DEF AnswerRead, panel
  <2>. QED BY <1>1, <2>2, <2>3, LastingKept
<1>4. ASSUME Perform PROVE Lasting'
  <2>1. PICK r \in Answered : replies' = replies \o Rejected \o <<r>>
    BY <1>4, PerformStep
  <2>2. Behind => Behind'
    BY <2>1, PerformedAdded, BehindAdded
  <2>3. \A e, f : Before(e, f, Line) => Before(e, f, Line')
    BY <1>4, PerformStep
  <2>4. UNCHANGED <<selected, loads, shown, excuses>>
    BY <1>4 DEF Perform, panel
  <2>. QED BY <1>1, <2>2, <2>3, <2>4, LastingKept
<1>5. ASSUME Fail \/ Refuse PROVE Lasting'
  <2>1. /\ \A e, f : Before(e, f, Line) => Before(e, f, Line')
        /\ excuses \subseteq excuses' /\ UNCHANGED panel
    BY <1>5, EndsStep
  <2>2. PICK r \in Answered : replies' = Append(replies, r) /\ r.ok = FALSE
    BY <1>5, EndsStep
  <2>3. Behind => Behind'
    BY <1>1, <2>2, AddedOne, BehindAdded
  <2>4. UNCHANGED <<selected, loads, shown>>
    BY <2>1 DEF panel
  <2>. QED BY <1>1, <2>1, <2>3, <2>4, LastingKept
<1>6. ASSUME LoseReadChild PROVE Lasting'
  BY <1>6 DEF LoseReadChild, Lasting
<1>7. ASSUME ListArrives PROVE Lasting'
  <2>1. /\ Line # <<>> /\ Head(Line) = Listing
        /\ Queued(Tail(Line), Wanted(ListLoads, loads), Line')
        /\ loads' = Loading(ListLoads) /\ excuses' = excuses \cup Overtaken(ListLoads)
        /\ selected' = IF Reply.ok /\ selected = NoItem THEN First ELSE selected
    BY <1>7, ListStep
  <2>2. ListLoads \in SUBSET Item /\ Resumed = {j \in 1..MaxCommands : jobs[j].phase = "listing"}
    BY <1>1, ListLoadsFacts DEF Resumed
  <2>3. CASE selected = NoItem
    <3>1. Resumed = {}
      BY <2>2, <2>3 DEF Opening, Waiting, TypeInv, Handled
    <3>2. ListLoads = IF Reply.ok THEN {First} ELSE {}
      BY <2>3, <3>1 DEF ListLoads
    <3>3. CASE Reply.ok
      <4>1. selected' = First /\ First \in Item
        BY <2>1, <2>3, <3>3
      <4>2. loads'[First] = "detail" /\ \A x \in Item \ {First} : loads'[x] = "none"
        BY <2>1, <2>3, <3>2, <3>3 DEF Loading, Opening
      <4>. QED BY <1>1, <4>1, <4>2, LastingAsked
    <3>4. CASE ~ Reply.ok
      BY <2>1, <2>3, <3>4 DEF Lasting
    <3>. QED BY <3>3, <3>4
  <2>4. CASE selected # NoItem
    <3>1. CASE "strayed" \in excuses
      BY <2>1, <3>1 DEF Lasting
    <3>2. CASE "strayed" \notin excuses
      <4>1. \A j \in Resumed : jobs[j].item = selected
        BY <2>2, <3>2 DEF Mine, Waiting, TypeInv, Handled
      <4>2. ListLoads \in SUBSET {selected}
        BY <2>4, <4>1 DEF ListLoads
      <4>3. replies # <<>> /\ replies' = Tail(replies) /\ Reply.kind = "list" /\ shown' = shown
        BY <1>7 DEF ListArrives, Taken
      <4>4. Behind => Behind'
        BY <4>3, BehindTaken DEF Done
      <4>5. \A p \in Part, x \in Item : Head(Line) # Read(p, x)
        BY <2>1, ReadFacts
      <4>6. UNCHANGED selected /\ excuses \subseteq excuses' /\ \A x \in Item : loads'[x] = Loading(ListLoads)[x]
        BY <2>1, <2>4
      <4>. QED BY <1>1, <2>1, <2>4, <4>2, <4>3, <4>4, <4>5, <4>6, LastingReloaded
    <3>. QED BY <3>1, <3>2
  <2>. QED BY <2>3, <2>4
<1>8. ASSUME NEW p \in Part, PartArrives(p) PROVE Lasting'
  BY <1>8, LastingPart
<1>9. ASSUME CommandEnds PROVE Lasting'
  <2>1. PICK j \in 1..MaxCommands :
          /\ j = Reply.item /\ jobs[j].phase = "sent" /\ jobs[j].item \in Item /\ Reply \in Answered
          /\ Line # <<>> /\ Head(Line) = Command(j)
          /\ Resolves => Queued(Tail(Line), NewList(listing) \cup Wanted(Refreshed, loads), Line')
          /\ ~ Resolves => Line' = Tail(Line)
    BY <1>9, CommandStep
  <2>2. /\ UNCHANGED selected /\ excuses \subseteq excuses'
        /\ replies # <<>> /\ replies' = Tail(replies) /\ Reply.kind = "command"
        /\ IF Resolves THEN CommandResolves(j) ELSE CommandRejects(j)
    BY <1>9, <2>1, ExcusesGrow DEF CommandEnds, Taken, Resolves
  <2>3. \A p \in Part, x \in Item : Head(Line) # Read(p, x)
    BY <2>1, ReadFacts
  <2>4. CASE selected = NoItem
    BY <2>2, <2>4 DEF Lasting
  <2>5. CASE selected # NoItem /\ ~ Resolves
    <3>1. UNCHANGED <<loads, shown>> /\ ~ Reply.ok
      BY <2>2, <2>5 DEF CommandRejects, Resolves
    <3>2. Behind => Behind'
      BY <2>2, <3>1, BehindTaken DEF Done
    <3>3. Queued(Tail(Line), {}, Line')
      BY <2>1, <2>5 DEF Queued
    <3>4. {} \in SUBSET {selected} /\ (\A x \in Item : loads'[x] = Loading({})[x]) /\ Wanted({}, loads) \subseteq {}
      BY <3>1 DEF Loading, Wanted
    <3>. QED BY <1>1, <2>1, <2>2, <2>3, <2>5, <3>1, <3>2, <3>3, <3>4, LastingReloaded
  <2>6. CASE selected # NoItem /\ Resolves
    <3>1. /\ loads' = Loading(Refreshed)
          /\ jobs[j].kind # "message" => shown' = [shown EXCEPT !["detail"] = Returned(j)]
          /\ jobs[j].kind = "message" => shown' = shown
          /\ jobs[j].kind # "message" /\ ~ Reply.ok => "strayed" \in excuses'
      BY <2>2, <2>6 DEF CommandResolves
    <3>2. Refreshed = {selected} /\ {selected} \in SUBSET Item /\ selected \in Item
      BY <1>1, <2>6 DEF Refreshed
    <3>3. loads'[selected] # "none"
      BY <3>1, <3>2, LoadingFacts
    <3>4. CASE "strayed" \in excuses'
      BY <3>4 DEF Lasting
    <3>5. CASE "strayed" \notin excuses'
      <4>1. jobs[j].kind # "message" => Returned(j).item = selected
        BY <2>1, <2>2, <3>1, <3>5, ReturnedFacts DEF Mine, Waiting
      <4>2. \A p \in Part : shown'[p].item \in {shown[p].item, selected}
        BY <1>1, <3>1, <4>1
      <4>3. Wanted(Refreshed, loads) \subseteq NewList(listing) \cup Wanted(Refreshed, loads)
        OBVIOUS
      <4>4. Refreshed \in SUBSET {selected} /\ \A x \in Item : loads'[x] = Loading(Refreshed)[x]
        BY <3>1, <3>2
      <4>. QED BY <1>1, <2>1, <2>2, <2>3, <2>6, <3>3, <4>2, <4>3, <4>4, LastingReloaded
    <3>. QED BY <3>4, <3>5
  <2>. QED BY <2>4, <2>5, <2>6
<1>10. ASSUME UNCHANGED <<selected, loads, shown, replies>>, excuses \subseteq excuses', Line' = Line PROVE Lasting'
  <2>1. Behind => Behind'
    BY <1>10 DEF Behind
  <2>. QED BY <1>1, <1>10, <2>1, LastingKept
<1>11. CASE CloseDialog \/ (\E d \in Dialog : OpenDialog(d)) \/ UNCHANGED vars
  BY <1>10, <1>11, DialogStep
<1>12. CASE LoadReadChild \/ SaveReadChild \/ CarryOut
  <2>1. Line' = Line /\ UNCHANGED <<replies, panel>>
    BY <1>12, ReadChildStep, CarryOutStep
  <2>. QED BY <1>10, <2>1, ExcusesGrow DEF panel
<1>13. ASSUME NEW j \in 1..MaxCommands, NEW kind, NEW i, Send(j, kind, i) PROVE Lasting'
  <2>1. UNCHANGED <<selected, loads, shown, excuses, replies, reads>>
    BY <1>13 DEF Send
  <2>2. Line' = Line
    BY <2>1 DEF Line, Entries
  <2>. QED BY <1>10, <2>1, <2>2
<1>14. CASE \E j \in 1..MaxCommands : Confirm(j) \/ \E i \in Item : Message(j, i)
  BY <1>13, <1>14 DEF Confirm, Message
<1>. QED BY <1>2, <1>3, <1>4, <1>5, <1>6, <1>7, <1>8, <1>9, <1>11, <1>12, <1>14 DEF Next, Deliver

(* In the end, when nothing is under way, detail, plan and workflow record *)
(* are those of the selected item: its load has outlasted every other, and *)
(* what another one showed meanwhile was replaced by it.                   *)
THEOREM WhatIsSelectedIsShown == Spec => []PanelShowsTheSelection
<1>1. TypeInv /\ Lasting => PanelShowsTheSelection
  <2>. SUFFICES ASSUME TypeInv, Lasting, Quiet, selected # NoItem,
                       excuses \cap {"rejoined", "strayed", "lost"} = {}, NEW p \in Part
                PROVE  shown[p].item = selected
    BY DEF PanelShowsTheSelection
  <2>1. selected \in Item /\ ~ Behind /\ loads[selected] = "none"
    BY QuietFacts DEF TypeInv, TypeOK
  <2>2. Rank(p) \in 0..3 /\ Rank(p) # 3 /\ Rank(loads[selected]) = 3
    BY <2>1, RankFacts, ReadFacts
  <2>3. ~ (Rank(loads[selected]) <= Rank(p))
    BY <2>2
  <2>. QED BY <2>1, <2>3 DEF Lasting
<1>2. TypeInv /\ Rejections /\ Opening /\ Mine /\ Lasting /\ [Next]_vars => Lasting'
  BY NextLasting
<1>. QED BY <1>1, <1>2, FollowedInvariant, InitLasting, PTL DEF Spec
=============================================================================
