-------------------------- MODULE ShellSession_proofs --------------------------
(***************************************************************************)
(* Theorems about ShellSession, for any texts, images and numbers of       *)
(* handlers, edits and reloads: types, the text that is typed, the image   *)
(* that is opened and the image that is saved on the way out.              *)
(***************************************************************************)
EXTENDS ShellSession, SequenceTheorems, FiniteSetTheorems, WellFoundedInduction, TLAPS

USE DraftAssumption, NameAssumption, FaultAssumption, BoundAssumption
-----------------------------------------------------------------------------
(* Sequences.                                                              *)
LEMMA MemberType ==
  ASSUME NEW S, NEW q \in Seq(S), NEW k \in DOMAIN q
  PROVE  q[k] \in S /\ k \in Nat \ {0} /\ DOMAIN q = 1..Len(q) /\ Len(q) \in Nat
BY ElementOfSeq, LenProperties

LEMMA TailFacts ==
  ASSUME NEW S, NEW q \in Seq(S), q # <<>>
  PROVE  /\ Head(q) \in S /\ Head(q) = q[1] /\ 1 \in DOMAIN q
         /\ Tail(q) \in Seq(S)
         /\ \A k \in DOMAIN Tail(q) :
              k \in Nat \ {0} /\ k + 1 \in DOMAIN q /\ Tail(q)[k] = q[k + 1]
         /\ \A k \in DOMAIN q : k = 1 \/ (k - 1 \in DOMAIN Tail(q) /\ Tail(q)[k - 1] = q[k])
BY HeadTailProperties, LenProperties, EmptySeq

LEMMA EmptyFacts ==
  ASSUME NEW S, NEW q \in Seq(S)
  PROVE  /\ <<>> \in Seq(S) /\ DOMAIN <<>> = {}
         /\ q = <<>> <=> DOMAIN q = {}
         /\ q # <<>> => 1 \in DOMAIN q
BY EmptySeq, LenProperties

LEMMA AppendFacts ==
  ASSUME NEW S, NEW q \in Seq(S), NEW e \in S
  PROVE  LET n == Len(q) + 1
         IN /\ Append(q, e) \in Seq(S) /\ Append(q, e) # <<>>
            /\ n \in Nat \ {0} /\ DOMAIN Append(q, e) = 1..n /\ Append(q, e)[n] = e
            /\ \A k \in DOMAIN q : k \in 1..n /\ k < n /\ Append(q, e)[k] = q[k]
            /\ \A k \in 1..n : k = n \/ k \in DOMAIN q
            /\ Len(Append(q, e)) = n
BY AppendProperties, LenProperties

(* What there is behind a sequence: each of the new ones, once.            *)
Behind(w, new, line) ==
  /\ \A k \in DOMAIN w : k \in DOMAIN line /\ line[k] = w[k]
  /\ \A k \in DOMAIN line : \/ k \in DOMAIN w /\ line[k] = w[k]
                            \/ k \notin DOMAIN w /\ line[k] \in new /\ \A j \in DOMAIN w : j < k
  /\ \A j, k \in DOMAIN line : j \notin DOMAIN w /\ k \notin DOMAIN w /\ line[j] = line[k] => j = k
  /\ \A e \in new : \E k \in DOMAIN line : k \notin DOMAIN w /\ line[k] = e

LEMMA BehindNothing ==
  ASSUME NEW S, NEW w \in Seq(S)
  PROVE  Behind(w, {}, w)
BY DEF Behind

LEMMA BehindOne ==
  ASSUME NEW S, NEW w \in Seq(S), NEW e \in S
  PROVE  Append(w, e) \in Seq(S) /\ Behind(w, {e}, Append(w, e))
<1>. DEFINE n == Len(w) + 1
            line == Append(w, e)
<1>1. /\ line \in Seq(S) /\ n \in Nat \ {0} /\ DOMAIN line = 1..n /\ line[n] = e
      /\ \A k \in DOMAIN w : k \in 1..n /\ k < n /\ line[k] = w[k]
      /\ \A k \in 1..n : k = n \/ k \in DOMAIN w
  BY AppendFacts
<1>2. n \in DOMAIN line /\ n \notin DOMAIN w
  BY <1>1
<1>. HIDE DEF n, line
<1>3. \A k \in DOMAIN line : k = n \/ (k \in DOMAIN w /\ line[k] = w[k])
  BY <1>1
<1>4. Behind(w, {e}, line)
  BY <1>1, <1>2, <1>3 DEF Behind
<1>. QED BY <1>1, <1>4 DEF line

LEMMA BehindMore ==
  ASSUME NEW S, NEW w \in Seq(S), NEW q \in Seq(S),
         \A j, k \in DOMAIN q : q[j] = q[k] => j = k
  PROVE  w \o q \in Seq(S) /\ Behind(w, {q[k] : k \in DOMAIN q}, w \o q)
<1>. DEFINE line == w \o q
            new == {q[k] : k \in DOMAIN q}
<1>1. /\ line \in Seq(S) /\ Len(w) \in Nat /\ Len(q) \in Nat
      /\ DOMAIN w = 1..Len(w) /\ DOMAIN q = 1..Len(q) /\ DOMAIN line = 1..(Len(w) + Len(q))
      /\ \A k \in 1..(Len(w) + Len(q)) : line[k] = IF k <= Len(w) THEN w[k] ELSE q[k - Len(w)]
  BY ConcatProperties, LenProperties
<1>. HIDE DEF line
<1>2. \A k \in DOMAIN w : k \in DOMAIN line /\ line[k] = w[k]
  BY <1>1
<1>3. ASSUME NEW k \in DOMAIN line, k \notin DOMAIN w
      PROVE  /\ k - Len(w) \in DOMAIN q /\ line[k] = q[k - Len(w)] /\ line[k] \in new
             /\ \A j \in DOMAIN w : j < k
  BY <1>1, <1>3
<1>4. ASSUME NEW j \in DOMAIN line, NEW k \in DOMAIN line, j \notin DOMAIN w, k \notin DOMAIN w, line[j] = line[k]
      PROVE  j = k
  <2>1. j - Len(w) = k - Len(w)
    BY <1>3, <1>4
  <2>. QED BY <1>1, <2>1
<1>5. ASSUME NEW k \in DOMAIN q
      PROVE  Len(w) + k \in DOMAIN line /\ Len(w) + k \notin DOMAIN w /\ line[Len(w) + k] = q[k]
  BY <1>1
<1>6. \A e \in new : \E k \in DOMAIN line : k \notin DOMAIN w /\ line[k] = e
  BY <1>5
<1>. HIDE DEF new
<1>7. Behind(w, new, line)
  BY <1>2, <1>3, <1>4, <1>6 DEF Behind
<1>. QED BY <1>1, <1>7 DEF line, new

LEMMA BehindBoth ==
  ASSUME NEW S, NEW w \in Seq(S), NEW v \in Seq(S), NEW u \in Seq(S), NEW a, NEW b,
         Behind(w, a, v), Behind(v, b, u), a \cap b = {}
  PROVE  Behind(w, a \cup b, u)
<1>0. DOMAIN w \subseteq Nat /\ DOMAIN v \subseteq Nat /\ DOMAIN u \subseteq Nat
  BY LenProperties
<1>1. \A k \in DOMAIN w : k \in DOMAIN u /\ u[k] = w[k]
  BY DEF Behind
<1>2. ASSUME NEW k \in DOMAIN u, k \notin DOMAIN w
      PROVE  /\ (k \in DOMAIN v /\ u[k] = v[k] /\ u[k] \in a) \/ (k \notin DOMAIN v /\ u[k] \in b)
             /\ \A j \in DOMAIN w : j < k
  BY <1>0, <1>2 DEF Behind
<1>3. ASSUME NEW j \in DOMAIN u, NEW k \in DOMAIN u, j \notin DOMAIN w, k \notin DOMAIN w, u[j] = u[k]
      PROVE  j = k
  <2>1. (j \in DOMAIN v /\ k \in DOMAIN v /\ v[j] = v[k]) \/ (j \notin DOMAIN v /\ k \notin DOMAIN v)
    BY <1>2, <1>3
  <2>. QED BY <1>3, <2>1 DEF Behind
<1>4. \A e \in a \cup b : \E k \in DOMAIN u : k \notin DOMAIN w /\ u[k] = e
  <2>1. ASSUME NEW e \in a PROVE \E k \in DOMAIN u : k \notin DOMAIN w /\ u[k] = e
    BY DEF Behind
  <2>2. ASSUME NEW e \in b PROVE \E k \in DOMAIN u : k \notin DOMAIN w /\ u[k] = e
    BY DEF Behind
  <2>. QED BY <2>1, <2>2
<1>. QED BY <1>1, <1>2, <1>3, <1>4 DEF Behind

(* The sequence of a finite set has its elements, each once.               *)
LEMMA SetToSeqFacts ==
  ASSUME NEW S, IsFiniteSet(S)
  PROVE  LET f == SetToSeq(S)
         IN /\ f \in Seq(S)
            /\ \A j, k \in DOMAIN f : f[j] = f[k] => j = k
            /\ \A e \in S : \E k \in DOMAIN f : f[k] = e
<1>. DEFINE n == Cardinality(S)
            f == SetToSeq(S)
<1>1. n \in Nat /\ ExistsBijection(1..n, S)
  BY FS_CardinalityType
<1>2. \E g \in [1..n -> S] : IsInjective(g)
  BY <1>1 DEF ExistsBijection, Bijection, Injection
<1>3. f \in [1..n -> S] /\ IsInjective(f)
  BY <1>2 DEF SetToSeq
<1>4. IsFiniteSet(1..n) /\ Cardinality(1..n) = n
  BY <1>1, FS_Interval
<1>5. f \in Injection(1..n, S)
  BY <1>3 DEF Injection
<1>6. f \in Surjection(1..n, S)
  BY <1>4, <1>5, FS_Injection
<1>. HIDE DEF f, n
<1>7. f \in Seq(S) /\ DOMAIN f = 1..n
  BY <1>1, <1>3, SeqDef
<1>8. \A e \in S : \E k \in 1..n : f[k] = e
  BY <1>6 DEF Surjection
<1>9. \A j, k \in DOMAIN f : f[j] = f[k] => j = k
  BY <1>3 DEF IsInjective
<1>. QED BY <1>7, <1>8, <1>9 DEF f
-----------------------------------------------------------------------------
(* The last text of a chain.                                               *)
Texts(ch) == {k \in DOMAIN ch : ch[k].draft # Same}

LEMMA LastIs ==
  ASSUME NEW ch \in Seq(Write), NEW text, NEW k \in Texts(ch), \A l \in Texts(ch) : l <= k
  PROVE  LastText(text, ch) = ch[k].draft
<1>1. Texts(ch) \subseteq Nat
  BY LenProperties DEF Texts
<1>2. \A j \in Texts(ch) : (\A l \in Texts(ch) : l <= j) => j = k
  BY <1>1
<1>3. (CHOOSE j \in Texts(ch) : \A l \in Texts(ch) : l <= j) = k
  BY <1>2
<1>. QED BY <1>3 DEF LastText, Texts

LEMMA LastNone ==
  ASSUME NEW ch, NEW text, Texts(ch) = {}
  PROVE  LastText(text, ch) = text
BY DEF LastText, Texts

LEMMA HasLast ==
  ASSUME NEW ch \in Seq(Write), Texts(ch) # {}
  PROVE  \E k \in Texts(ch) : \A l \in Texts(ch) : l <= k
<1>. DEFINE n == Len(ch)
            gaps == {n - k : k \in Texts(ch)}
            less == OpToRel(<, Nat)
<1>1. n \in Nat /\ Texts(ch) \subseteq 1..n
  BY LenProperties DEF Texts
<1>2. gaps \subseteq Nat /\ gaps # {}
  BY <1>1
<1>3. \A a, b \in Nat : a < b => <<a, b>> \in less
  BY DEF OpToRel
<1>4. IsWellFoundedOn(less, Nat)
  BY NatLessThanWellFounded
<1>. HIDE DEF less
<1>5. PICK g \in gaps : \A h \in gaps : ~ (<<h, g>> \in less)
  <2>. HIDE DEF gaps
  <2>. QED BY <1>2, <1>4, WFMin
<1>6. PICK k \in Texts(ch) : g = n - k
  BY <1>5
<1>7. ASSUME NEW l \in Texts(ch) PROVE l <= k
  <2>1. n - l \in gaps /\ n - l \in Nat /\ g \in Nat
    BY <1>2
  <2>2. ~ (n - l < g)
    BY <1>3, <1>5, <2>1
  <2>. QED BY <1>1, <1>6, <2>2
<1>. QED BY <1>7

LEMMA LastTextType ==
  ASSUME NEW ch \in Seq(Write), NEW text \in Draft
  PROVE  LastText(text, ch) \in Draft
<1>1. ASSUME NEW k \in Texts(ch) PROVE ch[k].draft \in Draft
  <2>1. ch[k] \in Write /\ ch[k].draft # Same
    BY MemberType DEF Texts
  <2>. QED BY <2>1 DEF Write
<1>. QED BY <1>1, LastIs, LastNone, HasLast

LEMMA LastOfOne ==
  ASSUME NEW w \in Write, NEW text
  PROVE  /\ <<w>> \in Seq(Write)
         /\ LastText(text, <<w>>) = IF w.draft = Same THEN text ELSE w.draft
<1>1. <<w>> \in Seq(Write) /\ DOMAIN <<w>> = {1} /\ <<w>>[1] = w
  OBVIOUS
<1>2. CASE w.draft = Same
  BY <1>1, <1>2, LastNone DEF Texts
<1>3. CASE w.draft # Same
  <2>1. 1 \in Texts(<<w>>) /\ \A l \in Texts(<<w>>) : l <= 1
    BY <1>1, <1>3 DEF Texts
  <2>. QED BY <1>1, <1>3, <2>1, LastIs
<1>. QED BY <1>1, <1>2, <1>3

LEMMA LastAppended ==
  ASSUME NEW ch \in Seq(Write), NEW w \in Write, NEW text
  PROVE  LastText(text, Append(ch, w)) = IF w.draft = Same THEN LastText(text, ch) ELSE w.draft
<1>. DEFINE n == Len(ch) + 1
            more == Append(ch, w)
<1>1. /\ more \in Seq(Write) /\ n \in Nat \ {0} /\ DOMAIN more = 1..n /\ more[n] = w
      /\ \A k \in DOMAIN ch : k \in 1..n /\ k < n /\ more[k] = ch[k]
      /\ \A k \in 1..n : k = n \/ k \in DOMAIN ch
  BY AppendFacts
<1>. HIDE DEF n, more
<1>2. CASE w.draft = Same
  <2>1. Texts(more) = Texts(ch) /\ \A k \in Texts(ch) : more[k] = ch[k]
    BY <1>1, <1>2 DEF Texts
  <2>2. CASE Texts(ch) = {}
    BY <1>2, <2>1, <2>2, LastNone DEF more
  <2>3. CASE Texts(ch) # {}
    <3>1. PICK k \in Texts(ch) : \A l \in Texts(ch) : l <= k
      BY <2>3, HasLast
    <3>2. LastText(text, ch) = ch[k].draft
      BY <3>1, LastIs
    <3>3. LastText(text, more) = more[k].draft
      BY <1>1, <2>1, <3>1, LastIs
    <3>. QED BY <1>2, <2>1, <3>2, <3>3 DEF more
  <2>. QED BY <2>2, <2>3
<1>3. CASE w.draft # Same
  <2>1. n \in Texts(more) /\ \A l \in Texts(more) : l <= n
    BY <1>1, <1>3 DEF Texts
  <2>. QED BY <1>1, <1>3, <2>1, LastIs DEF more
<1>. QED BY <1>2, <1>3

LEMMA LastSplit ==
  ASSUME NEW ch \in Seq(Write), ch # <<>>, NEW text
  PROVE  LastText(text, ch) = LastText(IF ch[1].draft = Same THEN text ELSE ch[1].draft, Tail(ch))
<1>. DEFINE first == IF ch[1].draft = Same THEN text ELSE ch[1].draft
            rest == Tail(ch)
<1>1. /\ rest \in Seq(Write) /\ 1 \in DOMAIN ch
      /\ \A k \in DOMAIN rest : k \in Nat \ {0} /\ k + 1 \in DOMAIN ch /\ rest[k] = ch[k + 1]
      /\ \A k \in DOMAIN ch : k = 1 \/ (k - 1 \in DOMAIN rest /\ rest[k - 1] = ch[k])
      /\ DOMAIN ch \subseteq Nat
  BY TailFacts, LenProperties
<1>. HIDE DEF rest
<1>2. \A k \in DOMAIN ch : k # 1 => (k \in Texts(ch) <=> k - 1 \in Texts(rest))
  BY <1>1 DEF Texts
<1>3. \A k \in DOMAIN rest : k \in Texts(rest) <=> k + 1 \in Texts(ch)
  BY <1>1 DEF Texts
<1>4. CASE Texts(rest) = {}
  <2>1. LastText(first, rest) = first
    BY <1>4, LastNone
  <2>2. CASE ch[1].draft = Same
    <3>1. Texts(ch) = {}
      BY <1>1, <1>2, <1>4, <2>2 DEF Texts
    <3>. QED BY <2>1, <2>2, <3>1, LastNone DEF rest
  <2>3. CASE ch[1].draft # Same
    <3>1. 1 \in Texts(ch) /\ \A l \in Texts(ch) : l <= 1
      BY <1>1, <1>2, <1>4, <2>3 DEF Texts
    <3>2. LastText(text, ch) = ch[1].draft
      BY <3>1, LastIs
    <3>. QED BY <2>1, <2>3, <3>2 DEF rest
  <2>. QED BY <2>2, <2>3
<1>5. CASE Texts(rest) # {}
  <2>1. PICK k \in Texts(rest) : \A l \in Texts(rest) : l <= k
    BY <1>1, <1>5, HasLast
  <2>2. k \in DOMAIN rest /\ k + 1 \in Texts(ch) /\ rest[k] = ch[k + 1] /\ k \in Nat \ {0}
    BY <1>1, <1>3 DEF Texts
  <2>3. ASSUME NEW l \in Texts(ch) PROVE l <= k + 1
    <3>1. l \in DOMAIN ch /\ l \in Nat
      BY <1>1 DEF Texts
    <3>2. CASE l = 1
      BY <2>2, <3>2
    <3>3. CASE l # 1
      <4>1. l - 1 \in Texts(rest)
        BY <1>2, <3>1, <3>3
      <4>2. l - 1 <= k
        BY <2>1, <4>1
      <4>. QED BY <2>2, <3>1, <4>2
    <3>. QED BY <3>2, <3>3
  <2>4. LastText(text, ch) = ch[k + 1].draft
    BY <2>2, <2>3, LastIs
  <2>5. LastText(first, rest) = rest[k].draft
    BY <1>1, <2>1, LastIs
  <2>. QED BY <2>2, <2>4, <2>5 DEF rest
<1>. QED BY <1>4, <1>5
-----------------------------------------------------------------------------
(* Types, and who waits for what: a request that is owned is awaited by    *)
(* its handler, which has no other; the first write of the chain, and no   *)
(* other, is on the wire; and nothing is read of an image that is not      *)
(* there.                                                                  *)
Awaits(job, kind, name) ==
  /\ kind = "set" => job.phase = "flush" /\ job.kind \in Saving
  /\ kind = "save" => job.phase = "save" /\ job.kind \in Saving \cup {"create"} /\ job.name = name
  /\ kind = "load" => job.phase = "load" /\ job.kind = "open" /\ job.name = name
  /\ kind = "revert" => job.phase = "revert" /\ job.kind = "discard"

Owned(js, w) ==
  /\ \A k \in DOMAIN w : w[k].owner # 0 =>
       w[k].owner \in DOMAIN js /\ Awaits(js[w[k].owner], w[k].kind, w[k].name)
  /\ \A j, k \in DOMAIN w : w[j].owner = w[k].owner /\ w[j].owner # 0 => j = k

Chained(js, ch) ==
  /\ \A k \in DOMAIN ch : ch[k].owner # 0 =>
       ch[k].owner \in DOMAIN js /\ js[ch[k].owner].phase = "flush" /\ js[ch[k].owner].kind \in Saving
  /\ \A j, k \in DOMAIN ch : ch[j].owner = ch[k].owner /\ ch[j].owner # 0 => j = k

NoSet(w) == \A k \in DOMAIN w : w[k].kind # "set"

OneSet(ch, w) ==
  /\ \A k \in DOMAIN w : w[k].kind = "set" =>
       /\ ch # <<>> /\ w[k].owner = ch[1].owner
       /\ ch[1].draft # Same => w[k].draft = ch[1].draft
  /\ \A j, k \in DOMAIN w : w[j].kind = "set" /\ w[k].kind = "set" => j = k
  /\ ch # <<>> => ~ NoSet(w)

Named(js) == \A i \in DOMAIN js : js[i].kind # "discard" => js[i].name \in Name

Present(w) ==
  \A k \in DOMAIN w : /\ w[k].kind \in {"load", "save"} => w[k].name \in Name
                      /\ w[k].kind = "load" => images[w[k].name] # Absent

Jobs == {js \in Seq(Job) : Len(js) <= MaxJobs}

TypeInv ==
  /\ TypeOK /\ Named(jobs)
  /\ Owned(jobs, wire) /\ Chained(jobs, chain) /\ OneSet(chain, wire) /\ Present(wire)
  /\ current # NoName => images[current] # Absent

LEMMA JobType ==
  ASSUME NEW js \in Jobs, NEW i \in DOMAIN js
  PROVE  /\ i \in 1..MaxJobs /\ i \in Nat \ {0} /\ DOMAIN js = 1..Len(js) /\ Len(js) \in Nat
         /\ js[i] \in Job
BY MemberType DEF Jobs

LEMMA OwnTypes ==
  ASSUME TypeOK
  PROVE  /\ jobs \in Jobs /\ wire \in Seq(Request) /\ chain \in Seq(Write) /\ copy \in Draft
         /\ draft \in Draft /\ env \in Draft
BY DEF TypeOK, Jobs

(* What a step does to the handlers: those of S move, the others stay as   *)
(* they are, except that all of them may see more, and that those of C may *)
(* no longer be clean.                                                     *)
Moved(old, new, S, C, phase) ==
  /\ new \in Jobs /\ DOMAIN new = DOMAIN old
  /\ \A i \in DOMAIN old :
       /\ new[i].kind = old[i].kind /\ new[i].name = old[i].name /\ new[i].alone = old[i].alone
       /\ old[i].seen \subseteq new[i].seen
       /\ i \notin C => new[i].clean = old[i].clean
       /\ i \in C => (new[i].clean => old[i].clean)
       /\ new[i].phase = IF i \in S THEN phase ELSE old[i].phase

Phase == {"load", "flush", "save", "revert", "read", "bootstrap", "registry", "quit"} \cup Ended

LEMMA ToFacts ==
  ASSUME NEW js \in Jobs, NEW S, NEW phase \in Phase
  PROVE  /\ Moved(js, To(js, S, phase), S, {}, phase)
         /\ \A i \in DOMAIN js : To(js, S, phase)[i].seen = js[i].seen
<1>. DEFINE new == To(js, S, phase)
<1>1. DOMAIN js = 1..Len(js) /\ Len(js) \in Nat /\ Len(js) <= MaxJobs
  BY LenProperties DEF Jobs
<1>2. ASSUME NEW i \in DOMAIN js
      PROVE  /\ new[i] \in Job
             /\ new[i].kind = js[i].kind /\ new[i].name = js[i].name /\ new[i].alone = js[i].alone
             /\ new[i].seen = js[i].seen /\ new[i].clean = js[i].clean
             /\ new[i].phase = IF i \in S THEN phase ELSE js[i].phase
  <2>1. js[i] \in Job
    BY JobType
  <2>2. new[i] = IF i \in S THEN [js[i] EXCEPT !.phase = phase] ELSE js[i]
    BY DEF To
  <2>. HIDE DEF new
  <2>. QED BY <2>1, <2>2 DEF Job, Phase
<1>3. DOMAIN new = 1..Len(js)
  BY <1>1 DEF To
<1>. HIDE DEF new
<1>4. new \in Seq(Job) /\ Len(new) = Len(js)
  <2>1. new = [i \in 1..Len(js) |-> new[i]]
    BY <1>3 DEF new, To
  <2>. QED BY <1>1, <1>2, <2>1, SeqDef
<1>5. new \in Jobs
  BY <1>1, <1>4 DEF Jobs
<1>. QED BY <1>1, <1>2, <1>3, <1>5 DEF Moved, new

LEMMA SeeFacts ==
  ASSUME NEW js \in Jobs, NEW d \in Draft
  PROVE  /\ Moved(js, See(js, d), {}, {}, "done")
         /\ \A i \in DOMAIN js :
              /\ js[i].kind \in Saving /\ js[i].phase \notin Ended => d \in See(js, d)[i].seen
              /\ js[i].phase \in Ended => See(js, d)[i].seen = js[i].seen
<1>. DEFINE new == See(js, d)
<1>1. DOMAIN js = 1..Len(js) /\ Len(js) \in Nat /\ Len(js) <= MaxJobs
  BY LenProperties DEF Jobs
<1>2. ASSUME NEW i \in DOMAIN js
      PROVE  /\ new[i] \in Job
             /\ new[i].kind = js[i].kind /\ new[i].name = js[i].name /\ new[i].alone = js[i].alone
             /\ js[i].seen \subseteq new[i].seen /\ new[i].clean = js[i].clean
             /\ new[i].phase = js[i].phase
             /\ js[i].kind \in Saving /\ js[i].phase \notin Ended => d \in new[i].seen
             /\ js[i].phase \in Ended => new[i].seen = js[i].seen
  <2>1. js[i] \in Job
    BY JobType
  <2>2. new[i] = IF js[i].kind \notin Saving \/ js[i].phase \in Ended THEN js[i]
                 ELSE [js[i] EXCEPT !.seen = @ \cup {d}]
    BY DEF See
  <2>. HIDE DEF new
  <2>. QED BY <2>1, <2>2 DEF Job
<1>3. DOMAIN new = 1..Len(js)
  BY <1>1 DEF See
<1>. HIDE DEF new
<1>4. new \in Seq(Job) /\ Len(new) = Len(js)
  <2>1. new = [i \in 1..Len(js) |-> new[i]]
    BY <1>3 DEF new, See
  <2>. QED BY <1>1, <1>2, <2>1, SeqDef
<1>5. new \in Jobs
  BY <1>1, <1>4 DEF Jobs
<1>. QED BY <1>1, <1>2, <1>3, <1>5 DEF Moved, new

(* A handler starts: those that run are no longer alone.                   *)
LEMMA StartedFacts ==
  ASSUME jobs \in Jobs, draft \in Draft, Len(jobs) < MaxJobs,
         NEW kind \in Startup \cup Exit, NEW phase \in Phase, NEW name \in Name \cup {NoName},
         NEW js, js = Started(kind, phase, name)
  PROVE  /\ js \in Jobs /\ \A i : i \in DOMAIN js <=> i \in DOMAIN jobs \/ i = Me
         /\ Me \notin DOMAIN jobs /\ Me \in 1..MaxJobs /\ Me \in Nat \ {0}
         /\ \A i \in DOMAIN jobs :
              /\ js[i].kind = jobs[i].kind /\ js[i].name = jobs[i].name
              /\ js[i].phase = jobs[i].phase /\ js[i].seen = jobs[i].seen
              /\ js[i].clean = jobs[i].clean
              /\ js[i].alone <=> jobs[i].alone /\ ~ Active(i)
         /\ js[Me].kind = kind /\ js[Me].name = name /\ js[Me].phase = phase
         /\ js[Me].clean /\ (js[Me].alone <=> ~ Busy)
         /\ kind \in Saving => \A d : d \in js[Me].seen <=> d = draft
<1>. DEFINE base == [i \in DOMAIN jobs |-> IF Active(i) THEN [jobs[i] EXCEPT !.alone = FALSE] ELSE jobs[i]]
            me == [kind |-> kind, phase |-> phase, name |-> name, clean |-> TRUE,
                   seen |-> IF kind \in Saving THEN {draft} ELSE {}, alone |-> ~ Busy]
<1>1. DOMAIN jobs = 1..Len(jobs) /\ Len(jobs) \in Nat /\ DOMAIN base = 1..Len(jobs)
  BY LenProperties DEF Jobs
<1>2. ASSUME NEW i \in DOMAIN jobs
      PROVE  /\ base[i] \in Job
             /\ base[i].kind = jobs[i].kind /\ base[i].name = jobs[i].name
             /\ base[i].phase = jobs[i].phase /\ base[i].seen = jobs[i].seen
             /\ base[i].clean = jobs[i].clean
             /\ base[i].alone <=> jobs[i].alone /\ ~ Active(i)
  <2>1. jobs[i] \in Job
    BY JobType
  <2>2. base[i] = IF Active(i) THEN [jobs[i] EXCEPT !.alone = FALSE] ELSE jobs[i]
    OBVIOUS
  <2>. HIDE DEF base
  <2>3. jobs[i].alone \in BOOLEAN
    BY <2>1 DEF Job
  <2>. QED BY <2>1, <2>2, <2>3 DEF Job
<1>3. base \in Seq(Job) /\ Len(base) = Len(jobs)
  <2>. HIDE DEF base
  <2>1. base = [i \in 1..Len(jobs) |-> base[i]]
    BY <1>1 DEF base
  <2>. QED BY <1>1, <1>2, <2>1, SeqDef
<1>4. me \in Job
  <2>1. Busy \in BOOLEAN
    BY DEF Busy
  <2>. QED BY <2>1 DEF Job, Phase, Startup, Exit
<1>. DEFINE new == Append(base, me)
<1>5. Started(kind, phase, name) = new
  BY DEF Started
<1>6. me.kind = kind /\ me.phase = phase /\ me.name = name /\ me.clean = TRUE /\ me.alone = ~ Busy
      /\ (kind \in Saving => me.seen = {draft})
  OBVIOUS
<1>. HIDE DEF me, base
<1>7. /\ new \in Seq(Job) /\ Me \in Nat \ {0} /\ DOMAIN new = 1..Me /\ new[Me] = me
      /\ \A k \in DOMAIN base : k < Me /\ new[k] = base[k]
      /\ \A k \in 1..Me : k = Me \/ k \in DOMAIN base
      /\ Len(new) = Me
  BY <1>3, <1>4, AppendFacts DEF Me
<1>. HIDE DEF new
<1>8. Me \notin DOMAIN jobs /\ Me \in 1..MaxJobs /\ DOMAIN new = DOMAIN jobs \cup {Me}
  BY <1>1, <1>7 DEF Me
<1>9. new \in Jobs
  BY <1>7, <1>8 DEF Jobs
<1>10. \A i \in DOMAIN jobs : new[i] = base[i]
  BY <1>1, <1>7
<1>11. js = new
  BY <1>5
<1>12. \A i : i \in DOMAIN new <=> i \in DOMAIN jobs \/ i = Me
  BY <1>8
<1>13. kind \in Saving => \A d : d \in new[Me].seen <=> d = draft
  BY <1>6, <1>7
<1>14. new[Me].clean /\ (new[Me].alone <=> ~ Busy)
  <2>1. Busy \in BOOLEAN
    BY DEF Busy
  <2>. QED BY <1>6, <1>7, <2>1
<1>15. \A i \in DOMAIN jobs :
         /\ new[i].kind = jobs[i].kind /\ new[i].name = jobs[i].name
         /\ new[i].phase = jobs[i].phase /\ new[i].seen = jobs[i].seen
         /\ new[i].clean = jobs[i].clean
         /\ new[i].alone <=> jobs[i].alone /\ ~ Active(i)
  BY <1>2, <1>10
<1>. QED BY <1>6, <1>7, <1>8, <1>9, <1>11, <1>12, <1>13, <1>14, <1>15
-----------------------------------------------------------------------------
(* What Proceed sends: the next write of the chain, unless a load is on    *)
(* its way, and the saves of the handlers whose writes are done.           *)
Ready(ch, w, answered) == answered \cup IF Loading(w) THEN Owners(ch) ELSE {}

NextSet(ch, w, text) ==
  IF Loading(w) \/ ch = <<>> THEN {}
  ELSE {Entry("set", LastText(text, <<ch[1]>>), NoName, FALSE, ch[1].owner)}

Saves(js, ready) == {SaveOf(js, i) : i \in ready}

LEMMA SaveType ==
  ASSUME NEW js \in Jobs, NEW i \in DOMAIN js, js[i].name \in Name
  PROVE  LET e == SaveOf(js, i)
         IN /\ e \in Request /\ e.kind = "save" /\ e.name = js[i].name
            /\ e.owner = i /\ e.owner # 0 /\ e.answer = "none"
BY JobType DEF SaveOf, Entry, Request

LEMMA SavesOfFacts ==
  ASSUME NEW js \in Jobs, NEW ready, ready \subseteq DOMAIN js, \A i \in ready : js[i].name \in Name
  PROVE  /\ SavesOf(js, ready) \in Seq(Request)
         /\ \A j, k \in DOMAIN SavesOf(js, ready) :
              SavesOf(js, ready)[j] = SavesOf(js, ready)[k] => j = k
         /\ Saves(js, ready) = {SavesOf(js, ready)[k] : k \in DOMAIN SavesOf(js, ready)}
<1>. DEFINE q == SetToSeq(ready)
            s == SavesOf(js, ready)
<1>1. DOMAIN js = 1..Len(js) /\ Len(js) \in Nat
  BY LenProperties DEF Jobs
<1>2. IsFiniteSet(ready)
  <2>1. IsFiniteSet(1..Len(js))
    BY <1>1, FS_Interval
  <2>. QED BY <1>1, <2>1, FS_Subset
<1>3. /\ q \in Seq(ready)
      /\ \A j, k \in DOMAIN q : q[j] = q[k] => j = k
      /\ \A e \in ready : \E k \in DOMAIN q : q[k] = e
  BY <1>2, SetToSeqFacts
<1>4. DOMAIN q = 1..Len(q) /\ Len(q) \in Nat /\ \A k \in DOMAIN q : q[k] \in ready
  BY <1>3, LenProperties, ElementOfSeq
<1>5. s = [k \in 1..Len(q) |-> SaveOf(js, q[k])]
  BY <1>4 DEF SavesOf
<1>. HIDE DEF q, s
<1>6. ASSUME NEW k \in 1..Len(q)
      PROVE  /\ s[k] = SaveOf(js, q[k]) /\ s[k] \in Request /\ s[k].owner = q[k] /\ q[k] \in ready
  <2>1. q[k] \in ready /\ s[k] = SaveOf(js, q[k])
    BY <1>4, <1>5
  <2>. QED BY <2>1, SaveType
<1>7. DOMAIN s = 1..Len(q)
  BY <1>5
<1>8. s \in Seq(Request)
  <2>1. s = [k \in 1..Len(q) |-> s[k]]
    BY <1>5
  <2>. QED BY <1>4, <1>6, <2>1, SeqDef
<1>9. \A j, k \in DOMAIN s : s[j] = s[k] => j = k
  BY <1>3, <1>4, <1>6, <1>7
<1>10. Saves(js, ready) = {s[k] : k \in DOMAIN s}
  <2>1. ASSUME NEW i \in ready PROVE \E k \in DOMAIN s : s[k] = SaveOf(js, i)
    BY <1>3, <1>4, <1>6, <1>7
  <2>. QED BY <1>6, <1>7, <2>1 DEF Saves
<1>. QED BY <1>8, <1>9, <1>10 DEF s

LEMMA SetType ==
  ASSUME NEW ch \in Seq(Write), NEW w, NEW text \in Draft, NEW e \in NextSet(ch, w, text)
  PROVE  /\ e \in Request /\ e.kind = "set" /\ e.owner = ch[1].owner /\ e.answer = "none"
         /\ e.draft = IF ch[1].draft = Same THEN text ELSE ch[1].draft
         /\ ch # <<>> /\ ~ Loading(w) /\ NextSet(ch, w, text) = {e}
<1>1. ch # <<>> /\ ~ Loading(w)
      /\ e = Entry("set", LastText(text, <<ch[1]>>), NoName, FALSE, ch[1].owner)
      /\ NextSet(ch, w, text) = {e}
  BY DEF NextSet
<1>2. ch[1] \in Write
  BY <1>1, EmptyFacts, MemberType
<1>. DEFINE d == LastText(text, <<ch[1]>>)
<1>3. /\ d \in Draft
      /\ d = IF ch[1].draft = Same THEN text ELSE ch[1].draft
  BY <1>2, LastOfOne, LastTextType
<1>. HIDE DEF d
<1>4. e = Entry("set", d, NoName, FALSE, ch[1].owner)
  BY <1>1 DEF d
<1>5. ch[1].owner \in 0..MaxJobs
  BY <1>2 DEF Write
<1>. QED BY <1>1, <1>3, <1>4, <1>5 DEF Entry, Request

LEMMA OwnerType ==
  ASSUME NEW ch \in Seq(Write)
  PROVE  /\ Owners(ch) \subseteq 1..MaxJobs
         /\ \A k \in DOMAIN ch : ch[k].owner \in 0..MaxJobs /\ ch[k].draft \in Draft \cup {Same}
         /\ \A k \in DOMAIN ch : ch[k].owner # 0 => ch[k].owner \in Owners(ch)
         /\ \A o \in Owners(ch) : \E k \in DOMAIN ch : ch[k].owner = o
<1>1. \A k \in DOMAIN ch : ch[k].owner \in 0..MaxJobs /\ ch[k].draft \in Draft \cup {Same}
  <2>. SUFFICES ASSUME NEW k \in DOMAIN ch
                PROVE  ch[k].owner \in 0..MaxJobs /\ ch[k].draft \in Draft \cup {Same}
    OBVIOUS
  <2>1. ch[k] \in Write
    BY MemberType
  <2>. QED BY <2>1 DEF Write
<1>. QED BY <1>1 DEF Owners

LEMMA Proceeds ==
  ASSUME NEW js \in Jobs, NEW w \in Seq(Request), NEW ch \in Seq(Write), NEW text \in Draft,
         NEW answered, Ready(ch, w, answered) \subseteq DOMAIN js,
         \A i \in Ready(ch, w, answered) : js[i].name \in Name,
         Proceed(ch, w, text, answered, js)
  PROVE  /\ wire' \in Seq(Request) /\ chain' \in Seq(Write) /\ copy' \in Draft
         /\ chain' = IF Loading(w) THEN <<>> ELSE ch
         /\ copy' = IF Loading(w) THEN LastText(text, ch) ELSE text
         /\ Moved(js, jobs', Ready(ch, w, answered), {}, "save")
         /\ \A i \in DOMAIN js : jobs'[i].seen = js[i].seen
         /\ Behind(w, NextSet(ch, w, text) \cup Saves(js, Ready(ch, w, answered)), wire')
<1>. DEFINE ready == Ready(ch, w, answered)
            sent  == IF Loading(w) \/ ch = <<>> THEN <<>>
                     ELSE <<Entry("set", LastText(text, <<Head(ch)>>), NoName, FALSE, Head(ch).owner)>>
<1>1. /\ chain' = IF Loading(w) THEN <<>> ELSE ch
      /\ copy' = IF Loading(w) THEN LastText(text, ch) ELSE text
      /\ wire' = (w \o sent) \o SavesOf(js, ready)
      /\ jobs' = To(js, ready, "save")
  BY DEF Proceed, Ready
<1>2. chain' \in Seq(Write) /\ copy' \in Draft
  BY <1>1, EmptySeq, LastTextType
<1>. HIDE DEF ready
<1>3. ch # <<>> => Head(ch) = ch[1]
  BY TailFacts
<1>4. w \o sent \in Seq(Request) /\ Behind(w, NextSet(ch, w, text), w \o sent)
  <2>1. CASE Loading(w) \/ ch = <<>>
    BY <2>1, ConcatEmptySeq, BehindNothing DEF NextSet
  <2>2. CASE ~ (Loading(w) \/ ch = <<>>)
    <3>. DEFINE e == Entry("set", LastText(text, <<ch[1]>>), NoName, FALSE, ch[1].owner)
    <3>1. NextSet(ch, w, text) = {e} /\ sent = <<e>>
      BY <1>3, <2>2 DEF NextSet
    <3>2. e \in Request
      BY <3>1, SetType
    <3>. HIDE DEF e, sent
    <3>3. <<e>> \in Seq(Request) /\ DOMAIN <<e>> = {1} /\ <<e>>[1] = e
      BY <3>2
    <3>4. w \o <<e>> \in Seq(Request) /\ Behind(w, {<<e>>[k] : k \in DOMAIN <<e>>}, w \o <<e>>)
      BY <3>3, BehindMore
    <3>5. {<<e>>[k] : k \in DOMAIN <<e>>} = {e}
      BY <3>3
    <3>. QED BY <3>1, <3>4, <3>5
  <2>. QED BY <2>1, <2>2
<1>. HIDE DEF sent
<1>5. /\ SavesOf(js, ready) \in Seq(Request)
      /\ \A j, k \in DOMAIN SavesOf(js, ready) :
           SavesOf(js, ready)[j] = SavesOf(js, ready)[k] => j = k
      /\ Saves(js, ready) = {SavesOf(js, ready)[k] : k \in DOMAIN SavesOf(js, ready)}
  BY SavesOfFacts DEF ready
<1>6. wire' \in Seq(Request) /\ Behind(w \o sent, Saves(js, ready), wire')
  <2>. DEFINE q == SavesOf(js, ready)
              v == w \o sent
  <2>1. v \in Seq(Request) /\ q \in Seq(Request) /\ wire' = v \o q
        /\ \A j, k \in DOMAIN q : q[j] = q[k] => j = k
    BY <1>1, <1>4, <1>5
  <2>. HIDE DEF q, v
  <2>2. v \o q \in Seq(Request) /\ Behind(v, {q[k] : k \in DOMAIN q}, v \o q)
    BY <2>1, BehindMore
  <2>3. Saves(js, ready) = {q[k] : k \in DOMAIN q}
    BY <1>5 DEF q
  <2>. QED BY <2>1, <2>2, <2>3 DEF v
<1>7. NextSet(ch, w, text) \cap Saves(js, ready) = {}
  <2>1. \A e \in NextSet(ch, w, text) : e.kind = "set"
    BY SetType
  <2>2. \A e \in Saves(js, ready) : e.kind = "save"
    BY SaveType DEF Saves, ready
  <2>. QED BY <2>1, <2>2
<1>8. Behind(w, NextSet(ch, w, text) \cup Saves(js, ready), wire')
  BY <1>4, <1>6, <1>7, BehindBoth
<1>9. Moved(js, jobs', ready, {}, "save") /\ \A i \in DOMAIN js : jobs'[i].seen = js[i].seen
  BY <1>1, ToFacts DEF Phase
<1>. QED BY <1>1, <1>2, <1>6, <1>8, <1>9 DEF ready

(* Nobody waits for two things, before and after.                          *)
LEMMA OwnedMoved ==
  ASSUME NEW old \in Jobs, NEW new \in Jobs, NEW w \in Seq(Request), NEW ch \in Seq(Write),
         Owned(old, w), Chained(old, ch),
         DOMAIN old \subseteq DOMAIN new,
         \A i \in DOMAIN old :
           (\E k \in DOMAIN w : w[k].owner = i) \/ (\E k \in DOMAIN ch : ch[k].owner = i) =>
             new[i].phase = old[i].phase /\ new[i].kind = old[i].kind /\ new[i].name = old[i].name
  PROVE  Owned(new, w) /\ Chained(new, ch)
BY DEF Owned, Chained, Awaits

LEMMA OwnedSends ==
  ASSUME NEW js \in Jobs, NEW w \in Seq(Request), NEW ch \in Seq(Write), NEW text \in Draft,
         NEW answered, answered \subseteq DOMAIN js,
         Named(js), Owned(js, w), NoSet(w), Chained(js, ch),
         \A i \in answered : /\ js[i].phase = "flush" /\ js[i].kind \in Saving
                             /\ \A k \in DOMAIN ch : ch[k].owner # i,
         Proceed(ch, w, text, answered, js)
  PROVE  /\ Ready(ch, w, answered) \subseteq DOMAIN js
         /\ \A i \in Ready(ch, w, answered) :
              js[i].name \in Name /\ js[i].phase = "flush" /\ js[i].kind \in Saving
         /\ Owned(jobs', wire') /\ Chained(jobs', chain') /\ OneSet(chain', wire')
<1>. DEFINE ready == Ready(ch, w, answered)
            sets == NextSet(ch, w, text)
<1>1. ASSUME NEW i \in ready
      PROVE  /\ i \in DOMAIN js /\ js[i].phase = "flush" /\ js[i].kind \in Saving /\ js[i].name \in Name
             /\ ~ Loading(w) => \A k \in DOMAIN ch : ch[k].owner # i
             /\ \A k \in DOMAIN w : w[k].owner # i
  <2>1. i \in DOMAIN js /\ js[i].phase = "flush" /\ js[i].kind \in Saving
        /\ (~ Loading(w) => \A k \in DOMAIN ch : ch[k].owner # i)
    BY OwnerType DEF Ready, Chained
  <2>2. js[i].name \in Name
    BY <2>1 DEF Named, Saving
  <2>3. ASSUME NEW k \in DOMAIN w, w[k].owner = i PROVE FALSE
    <3>1. w[k].kind # "set" /\ w[k] \in Request /\ i # 0
      BY <2>1, JobType, MemberType DEF NoSet
    <3>2. Awaits(js[i], w[k].kind, w[k].name)
      BY <2>3, <3>1 DEF Owned
    <3>3. w[k].kind \in {"save", "revert", "load"}
      BY <3>1 DEF Request
    <3>. QED BY <2>1, <3>2, <3>3 DEF Awaits
  <2>. QED BY <2>1, <2>2, <2>3
<1>2. /\ wire' \in Seq(Request) /\ chain' \in Seq(Write)
      /\ chain' = IF Loading(w) THEN <<>> ELSE ch
      /\ Moved(js, jobs', ready, {}, "save")
      /\ Behind(w, sets \cup Saves(js, ready), wire')
  BY <1>1, Proceeds
<1>3. \A e \in sets : /\ e.kind = "set" /\ e.owner = ch[1].owner /\ ch # <<>> /\ ~ Loading(w)
                      /\ 1 \in DOMAIN ch /\ sets = {e}
                      /\ ch[1].draft # Same => e.draft = ch[1].draft
  BY SetType, EmptyFacts
<1>4. ~ Loading(w) /\ ch # <<>> => sets # {}
  BY DEF NextSet
<1>5. \A e \in Saves(js, ready) :
        e.kind = "save" /\ e.owner \in ready /\ e.name = js[e.owner].name /\ e = SaveOf(js, e.owner)
        /\ e.owner # 0
  BY <1>1, SaveType DEF Saves
<1>. HIDE DEF ready, sets
<1>6. ASSUME NEW k \in DOMAIN wire', wire'[k].owner # 0
      PROVE  wire'[k].owner \in DOMAIN jobs' /\ Awaits(jobs'[wire'[k].owner], wire'[k].kind, wire'[k].name)
  <2>1. CASE k \in DOMAIN w /\ wire'[k] = w[k]
    <3>1. w[k].owner \in DOMAIN js /\ Awaits(js[w[k].owner], w[k].kind, w[k].name) /\ w[k].owner \notin ready
      BY <1>1, <1>6, <2>1 DEF Owned
    <3>. QED BY <1>2, <2>1, <3>1 DEF Moved, Awaits
  <2>2. CASE wire'[k] \in sets
    <3>1. wire'[k].owner = ch[1].owner /\ wire'[k].kind = "set" /\ 1 \in DOMAIN ch /\ ~ Loading(w)
      BY <1>3, <2>2
    <3>2. ch[1].owner \in DOMAIN js /\ js[ch[1].owner].phase = "flush" /\ js[ch[1].owner].kind \in Saving
      BY <1>6, <3>1 DEF Chained
    <3>3. ch[1].owner \notin ready
      BY <1>1, <3>1
    <3>. QED BY <1>2, <3>1, <3>2, <3>3 DEF Moved, Awaits
  <2>3. CASE wire'[k] \in Saves(js, ready)
    <3>1. wire'[k].owner \in ready /\ wire'[k].kind = "save" /\ wire'[k].name = js[wire'[k].owner].name
      BY <1>5, <2>3
    <3>2. js[wire'[k].owner].kind \in Saving /\ wire'[k].owner \in DOMAIN js
      BY <1>1, <3>1
    <3>. QED BY <1>2, <3>1, <3>2 DEF Moved, Awaits
  <2>. QED BY <1>2, <2>1, <2>2, <2>3 DEF Behind
<1>7. ASSUME NEW j \in DOMAIN wire', NEW k \in DOMAIN wire', j \in DOMAIN w, k \notin DOMAIN w,
             wire'[k].owner # 0, wire'[j].owner = wire'[k].owner
      PROVE  FALSE
  <2>1. wire'[j] = w[j] /\ wire'[k] \in sets \cup Saves(js, ready)
    BY <1>2, <1>7 DEF Behind
  <2>2. CASE wire'[k] \in sets
    <3>1. 1 \in DOMAIN ch /\ wire'[k].owner = ch[1].owner
      BY <1>3, <2>2
    <3>2. js[ch[1].owner].phase = "flush"
      BY <1>7, <3>1 DEF Chained
    <3>3. Awaits(js[ch[1].owner], w[j].kind, w[j].name) /\ w[j].kind # "set" /\ w[j] \in Request
      BY <1>7, <2>1, <3>1, MemberType DEF Owned, NoSet
    <3>4. w[j].kind \in {"save", "revert", "load"}
      BY <3>3 DEF Request
    <3>. QED BY <3>2, <3>3, <3>4 DEF Awaits
  <2>3. CASE wire'[k] \in Saves(js, ready)
    BY <1>1, <1>5, <1>7, <2>1, <2>3
  <2>. QED BY <2>1, <2>2, <2>3
<1>8. ASSUME NEW j \in DOMAIN wire', NEW k \in DOMAIN wire', j \notin DOMAIN w, k \notin DOMAIN w,
             wire'[k].owner # 0, wire'[j].owner = wire'[k].owner
      PROVE  wire'[j] = wire'[k]
  <2>1. wire'[j] \in sets \cup Saves(js, ready) /\ wire'[k] \in sets \cup Saves(js, ready)
    BY <1>2, <1>8 DEF Behind
  <2>2. ASSUME NEW e \in sets, NEW f \in Saves(js, ready) PROVE e.owner # f.owner
    BY <1>1, <1>3, <1>5
  <2>3. CASE wire'[j] \in sets /\ wire'[k] \in sets
    BY <1>3, <2>3
  <2>4. CASE wire'[j] \in Saves(js, ready) /\ wire'[k] \in Saves(js, ready)
    <3>1. wire'[j] = SaveOf(js, wire'[j].owner) /\ wire'[k] = SaveOf(js, wire'[k].owner)
      BY <1>5, <2>4
    <3>. QED BY <1>8, <3>1
  <2>. QED BY <1>8, <2>1, <2>2, <2>3, <2>4
<1>9. Owned(jobs', wire')
  <2>1. ASSUME NEW j \in DOMAIN wire', NEW k \in DOMAIN wire', wire'[j].owner = wire'[k].owner, wire'[j].owner # 0
        PROVE  j = k
    <3>1. CASE j \in DOMAIN w /\ k \in DOMAIN w
      BY <1>2, <2>1, <3>1 DEF Behind, Owned
    <3>2. CASE j \notin DOMAIN w /\ k \notin DOMAIN w
      BY <1>2, <1>8, <2>1, <3>2 DEF Behind
    <3>. QED BY <1>7, <2>1, <3>1, <3>2
  <2>. QED BY <1>6, <2>1 DEF Owned
<1>10. Chained(jobs', chain')
  <2>1. CASE Loading(w)
    BY <1>2, <2>1 DEF Chained
  <2>2. CASE ~ Loading(w)
    <3>1. \A k \in DOMAIN ch : ch[k].owner # 0 => ch[k].owner \notin ready
      BY <1>1, <2>2
    <3>. QED BY <1>2, <2>2, <3>1 DEF Chained, Moved
  <2>. QED BY <2>1, <2>2
<1>11. ASSUME NEW k \in DOMAIN wire', wire'[k].kind = "set"
       PROVE  k \notin DOMAIN w /\ wire'[k] \in sets
  BY <1>2, <1>5, <1>11 DEF Behind, NoSet
<1>12. OneSet(chain', wire')
  <2>1. \A k \in DOMAIN wire' : wire'[k].kind = "set" =>
          /\ chain' # <<>> /\ wire'[k].owner = chain'[1].owner
          /\ chain'[1].draft # Same => wire'[k].draft = chain'[1].draft
    BY <1>2, <1>3, <1>11
  <2>2. ASSUME NEW j \in DOMAIN wire', NEW k \in DOMAIN wire', wire'[j].kind = "set", wire'[k].kind = "set"
        PROVE  j = k
    <3>1. wire'[j] = wire'[k] /\ j \notin DOMAIN w /\ k \notin DOMAIN w
      BY <1>3, <1>11, <2>2
    <3>. QED BY <1>2, <3>1 DEF Behind
  <2>3. ASSUME chain' # <<>> PROVE ~ NoSet(wire')
    <3>1. PICK e \in sets : e.kind = "set"
      BY <1>2, <1>3, <1>4, <2>3
    <3>2. \E k \in DOMAIN wire' : wire'[k] = e
      BY <1>2, <3>1 DEF Behind
    <3>. QED BY <3>1, <3>2 DEF NoSet
  <2>. QED BY <2>1, <2>2, <2>3 DEF OneSet
<1>. QED BY <1>1, <1>9, <1>10, <1>12 DEF ready
-----------------------------------------------------------------------------
(* Types, step by step.                                                    *)

\* What is on the wire after a step was there, or is a write or a save of an image with a name.
Requested(w, line) ==
  \A k \in DOMAIN line :
    \/ \E j \in DOMAIN w : line[k].kind = w[j].kind /\ line[k].name = w[j].name
    \/ line[k].kind = "set"
    \/ line[k].kind = "save" /\ line[k].name \in Name

LEMMA RequestedBehind ==
  ASSUME NEW js \in Jobs, NEW w \in Seq(Request), NEW ch \in Seq(Write), NEW text \in Draft,
         NEW ready, ready \subseteq DOMAIN js, \A i \in ready : js[i].name \in Name, NEW line,
         Behind(w, NextSet(ch, w, text) \cup Saves(js, ready), line)
  PROVE  Requested(w, line)
<1>1. \A e \in NextSet(ch, w, text) : e.kind = "set"
  BY SetType
<1>2. \A e \in Saves(js, ready) : e.kind = "save" /\ e.name \in Name
  BY SaveType DEF Saves
<1>. QED BY <1>1, <1>2 DEF Behind, Requested

LEMMA PresentRequested ==
  ASSUME TypeInv, images' = images, Requested(wire, wire')
  PROVE  Present(wire)'
BY DEF TypeInv, Present, Requested

LEMMA NamedMoved ==
  ASSUME NEW old \in Jobs, NEW new, NEW S, NEW C, NEW phase, Named(old), Moved(old, new, S, C, phase)
  PROVE  Named(new)
BY DEF Named, Moved

LEMMA OwnedTail ==
  ASSUME NEW js, NEW w \in Seq(Request), w # <<>>, Owned(js, w)
  PROVE  /\ Owned(js, Tail(w)) /\ Requested(w, Tail(w))
         /\ Head(w).owner # 0 => \A k \in DOMAIN Tail(w) : Tail(w)[k].owner # Head(w).owner
<1>1. /\ Head(w) = w[1] /\ 1 \in DOMAIN w
      /\ \A k \in DOMAIN Tail(w) :
           k \in Nat \ {0} /\ k + 1 \in DOMAIN w /\ Tail(w)[k] = w[k + 1]
  BY TailFacts
<1>2. \A j, k \in DOMAIN Tail(w) : j + 1 = k + 1 => j = k
  BY <1>1
<1>3. \A k \in DOMAIN Tail(w) : k + 1 # 1
  BY <1>1
<1>. QED BY <1>1, <1>2, <1>3 DEF Owned, Requested

LEMMA SetTail ==
  ASSUME NEW ch, NEW w \in Seq(Request), w # <<>>, OneSet(ch, w)
  PROVE  /\ Head(w).kind = "set" => NoSet(Tail(w))
         /\ Head(w).kind # "set" => OneSet(ch, Tail(w))
<1>1. /\ Head(w) = w[1] /\ 1 \in DOMAIN w
      /\ \A k \in DOMAIN Tail(w) :
           k \in Nat \ {0} /\ k + 1 \in DOMAIN w /\ Tail(w)[k] = w[k + 1]
      /\ \A k \in DOMAIN w : k = 1 \/ (k - 1 \in DOMAIN Tail(w) /\ Tail(w)[k - 1] = w[k])
  BY TailFacts
<1>2. \A j, k \in DOMAIN Tail(w) : j + 1 = k + 1 => j = k
  BY <1>1
<1>3. \A k \in DOMAIN Tail(w) : k + 1 # 1
  BY <1>1
<1>4. ASSUME Head(w).kind # "set", ~ NoSet(w) PROVE ~ NoSet(Tail(w))
  BY <1>1, <1>4 DEF NoSet
<1>. QED BY <1>1, <1>2, <1>3, <1>4 DEF OneSet, NoSet

LEMMA ChainedTail ==
  ASSUME NEW js, NEW ch \in Seq(Write), ch # <<>>, Chained(js, ch)
  PROVE  /\ Chained(js, Tail(ch)) /\ Tail(ch) \in Seq(Write)
         /\ ch[1].owner # 0 => \A k \in DOMAIN Tail(ch) : Tail(ch)[k].owner # ch[1].owner
<1>1. /\ 1 \in DOMAIN ch /\ Tail(ch) \in Seq(Write)
      /\ \A k \in DOMAIN Tail(ch) :
           k \in Nat \ {0} /\ k + 1 \in DOMAIN ch /\ Tail(ch)[k] = ch[k + 1]
  BY TailFacts
<1>2. \A j, k \in DOMAIN Tail(ch) : j + 1 = k + 1 => j = k
  BY <1>1
<1>3. \A k \in DOMAIN Tail(ch) : k + 1 # 1
  BY <1>1
<1>. QED BY <1>1, <1>2, <1>3 DEF Chained

LEMMA ReadyNone ==
  ASSUME NEW ch, NEW w, ~ Loading(w)
  PROVE  Ready(ch, w, {}) = {}
BY DEF Ready

LEMMA LoadingNone == ~ Loading(<<>>) /\ NoSet(<<>>) /\ \A js : Owned(js, <<>>)
BY DEF Loading, NoSet, Owned

(* A write joins the chain.                                                *)
LEMMA PersistOwned ==
  ASSUME NEW js \in Jobs, Named(js), wire \in Seq(Request), chain \in Seq(Write), copy \in Draft,
         Owned(js, wire), Chained(js, chain), OneSet(chain, wire),
         NEW d \in Draft \cup {Same}, NEW owner \in 0..MaxJobs,
         owner # 0 => /\ owner \in DOMAIN js /\ js[owner].phase = "flush" /\ js[owner].kind \in Saving
                      /\ \A k \in DOMAIN chain : chain[k].owner # owner,
         Persist(d, owner, js)
  PROVE  /\ jobs' \in Jobs /\ wire' \in Seq(Request) /\ chain' \in Seq(Write) /\ copy' \in Draft
         /\ Named(jobs') /\ Owned(jobs', wire') /\ Chained(jobs', chain') /\ OneSet(chain', wire')
         /\ Requested(wire, wire')
<1>. DEFINE w == [draft |-> d, owner |-> owner]
<1>1. w \in Write /\ w.owner = owner /\ w.draft = d
  BY DEF Write
<1>. HIDE DEF w
<1>2. CASE chain = <<>>
  <2>. DEFINE ch == <<w>>
  <2>1. Proceed(ch, wire, copy, {}, js)
    BY <1>2 DEF Persist, w
  <2>2. ch \in Seq(Write) /\ DOMAIN ch = {1} /\ ch[1] = w
    BY <1>1
  <2>. HIDE DEF ch
  <2>3. Chained(js, ch)
    BY <1>1, <2>2 DEF Chained
  <2>4. NoSet(wire)
    BY <1>2 DEF OneSet, NoSet
  <2>5. /\ Ready(ch, wire, {}) \subseteq DOMAIN js
        /\ \A i \in Ready(ch, wire, {}) : js[i].name \in Name
        /\ Owned(jobs', wire') /\ Chained(jobs', chain') /\ OneSet(chain', wire')
    BY <2>1, <2>2, <2>3, <2>4, OwnedSends
  <2>6. /\ wire' \in Seq(Request) /\ chain' \in Seq(Write) /\ copy' \in Draft
        /\ Moved(js, jobs', Ready(ch, wire, {}), {}, "save")
        /\ Behind(wire, NextSet(ch, wire, copy) \cup Saves(js, Ready(ch, wire, {})), wire')
    BY <2>1, <2>2, <2>5, Proceeds
  <2>7. Requested(wire, wire')
    BY <2>2, <2>5, <2>6, RequestedBehind
  <2>8. Named(jobs')
    BY <2>6, NamedMoved
  <2>9. jobs' \in Jobs
    BY <2>6 DEF Moved
  <2>. QED BY <2>5, <2>6, <2>7, <2>8, <2>9
<1>3. CASE chain # <<>>
  <2>1. chain' = Append(chain, w) /\ jobs' = js /\ copy' = copy /\ wire' = wire
    BY <1>3 DEF Persist, w
  <2>. DEFINE n == Len(chain) + 1
  <2>2. /\ chain' \in Seq(Write) /\ chain' # <<>> /\ n \in Nat \ {0} /\ DOMAIN chain' = 1..n /\ chain'[n] = w
        /\ \A k \in DOMAIN chain : k \in 1..n /\ k < n /\ chain'[k] = chain[k]
        /\ \A k \in 1..n : k = n \/ k \in DOMAIN chain
    BY <1>1, <2>1, AppendFacts
  <2>3. 1 \in DOMAIN chain
    BY <1>3, EmptyFacts
  <2>. HIDE DEF n
  <2>4. chain'[1] = chain[1]
    BY <2>2, <2>3
  <2>5. OneSet(chain', wire')
    BY <1>3, <2>1, <2>2, <2>4 DEF OneSet
  <2>6. Chained(jobs', chain')
    <3>1. \A k \in DOMAIN chain' : (k \in DOMAIN chain /\ chain'[k] = chain[k]) \/ (k = n /\ chain'[k] = w)
      BY <2>2
    <3>2. \A k \in DOMAIN chain' : chain'[k].owner # 0 =>
            /\ chain'[k].owner \in DOMAIN js /\ js[chain'[k].owner].phase = "flush"
            /\ js[chain'[k].owner].kind \in Saving
      BY <1>1, <3>1 DEF Chained
    <3>3. \A j, k \in DOMAIN chain' : chain'[j].owner = chain'[k].owner /\ chain'[j].owner # 0 => j = k
      BY <1>1, <3>1 DEF Chained
    <3>. QED BY <2>1, <3>2, <3>3 DEF Chained
  <2>7. Requested(wire, wire')
    BY <2>1 DEF Requested
  <2>. QED BY <2>1, <2>2, <2>5, <2>6, <2>7
<1>. QED BY <1>2, <1>3

(* What was on the wire is rejected, and the next write is sent.           *)
Rest == IF chain = <<>> THEN chain ELSE Tail(chain)

LEMMA Rejects ==
  ASSUME TypeInv, NEW js \in Jobs, NEW w \in Seq(Request),
         \A k \in DOMAIN w : \E j \in DOMAIN wire : w[k] = wire[j],
         chain # <<>> => ~ NoSet(w),
         DOMAIN js = DOMAIN jobs,
         \A i \in DOMAIN jobs : js[i].kind = jobs[i].kind /\ js[i].name = jobs[i].name,
         \A i \in DOMAIN jobs : jobs[i].phase = "flush" => js[i].phase = "flush",
         Reject(w, js)
  PROVE  /\ Moved(js, jobs', Lost(w), {}, "failed") /\ (\A i \in DOMAIN js : jobs'[i].seen = js[i].seen)
         /\ Rest \in Seq(Write) /\ chain' = Rest /\ copy' = copy
         /\ wire' \in Seq(Request) /\ Behind(<<>>, NextSet(Rest, <<>>, copy), wire')
         /\ astray' = (astray \/ \E k \in DOMAIN w : w[k].kind = "set")
         /\ Named(jobs') /\ Owned(jobs', wire') /\ Chained(jobs', chain') /\ OneSet(chain', wire')
         /\ Requested(wire, wire')
         /\ \A k \in DOMAIN Rest : Rest[k].owner \notin Lost(w)
<1>. DEFINE js2 == To(js, Lost(w), "failed")
<1>1. Proceed(Rest, <<>>, copy, {}, js2)
      /\ astray' = (astray \/ \E k \in DOMAIN w : w[k].kind = "set")
  BY DEF Reject, Rest
<1>2. Moved(js, js2, Lost(w), {}, "failed") /\ (\A i \in DOMAIN js : js2[i].seen = js[i].seen)
  BY ToFacts DEF Phase, Ended
<1>. HIDE DEF js2
<1>3. js2 \in Jobs
  BY <1>2 DEF Moved
<1>4. /\ jobs \in Jobs /\ wire \in Seq(Request) /\ chain \in Seq(Write) /\ copy \in Draft
      /\ Named(jobs) /\ Owned(jobs, wire) /\ Chained(jobs, chain) /\ OneSet(chain, wire)
  BY OwnTypes DEF TypeInv
<1>5. Rest \in Seq(Write)
  BY <1>4, TailFacts DEF Rest
<1>6. /\ DOMAIN js = DOMAIN jobs
      /\ \A i \in DOMAIN jobs : js[i].kind = jobs[i].kind /\ js[i].name = jobs[i].name
  OBVIOUS
<1>7. Named(js2)
  BY <1>2, <1>4, <1>6 DEF Named, Moved
<1>8. ASSUME NEW k \in DOMAIN Rest, Rest[k].owner # 0
      PROVE  /\ Rest[k].owner \in DOMAIN jobs /\ jobs[Rest[k].owner].phase = "flush"
             /\ jobs[Rest[k].owner].kind \in Saving /\ Rest[k].owner \notin Lost(w)
  <2>1. chain # <<>> /\ Rest = Tail(chain)
    BY <1>8 DEF Rest
  <2>2. Chained(jobs, Rest) /\ Rest[k].owner # chain[1].owner
    BY <1>4, <1>8, <2>1, ChainedTail
  <2>3. Rest[k].owner \in DOMAIN jobs /\ jobs[Rest[k].owner].phase = "flush"
        /\ jobs[Rest[k].owner].kind \in Saving
    BY <1>8, <2>2 DEF Chained
  <2>4. ASSUME NEW l \in DOMAIN w, w[l].owner = Rest[k].owner PROVE FALSE
    <3>1. PICK j \in DOMAIN wire : w[l] = wire[j]
      OBVIOUS
    <3>2. Awaits(jobs[Rest[k].owner], wire[j].kind, wire[j].name) /\ wire[j] \in Request
      BY <1>4, <1>8, <2>4, <3>1, MemberType DEF Owned
    <3>3. wire[j].kind = "set"
      BY <2>3, <3>2 DEF Awaits, Request
    <3>. QED BY <1>4, <2>2, <2>4, <3>1, <3>3 DEF OneSet
  <2>. QED BY <2>3, <2>4 DEF Lost
<1>9. ASSUME NEW k \in DOMAIN Rest PROVE Rest[k].owner \notin Lost(w)
  BY <1>8 DEF Lost
<1>10. Chained(js2, Rest)
  <2>1. \A k \in DOMAIN Rest : Rest[k].owner # 0 =>
          /\ Rest[k].owner \in DOMAIN js2 /\ js2[Rest[k].owner].phase = "flush"
          /\ js2[Rest[k].owner].kind \in Saving
    BY <1>2, <1>6, <1>8 DEF Moved
  <2>2. \A j, k \in DOMAIN Rest : Rest[j].owner = Rest[k].owner /\ Rest[j].owner # 0 => j = k
    BY <1>4, ChainedTail DEF Rest, Chained
  <2>. QED BY <2>1, <2>2 DEF Chained
<1>11. Ready(Rest, <<>>, {}) = {} /\ <<>> \in Seq(Request)
  BY ReadyNone, LoadingNone, EmptySeq
<1>12. Owned(jobs', wire') /\ Chained(jobs', chain') /\ OneSet(chain', wire')
  BY <1>1, <1>3, <1>4, <1>5, <1>7, <1>10, <1>11, LoadingNone, OwnedSends
<1>13. /\ wire' \in Seq(Request) /\ chain' = Rest /\ copy' = copy
       /\ Moved(js2, jobs', {}, {}, "save") /\ (\A i \in DOMAIN js2 : jobs'[i].seen = js2[i].seen)
       /\ Behind(<<>>, NextSet(Rest, <<>>, copy) \cup Saves(js2, {}), wire')
  <2>. DEFINE ready == Ready(Rest, <<>>, {})
  <2>1. ready \subseteq DOMAIN js2 /\ \A i \in ready : js2[i].name \in Name
    BY <1>11
  <2>2. /\ wire' \in Seq(Request)
        /\ chain' = IF Loading(<<>>) THEN <<>> ELSE Rest
        /\ copy' = IF Loading(<<>>) THEN LastText(copy, Rest) ELSE copy
        /\ Moved(js2, jobs', ready, {}, "save") /\ (\A i \in DOMAIN js2 : jobs'[i].seen = js2[i].seen)
        /\ Behind(<<>>, NextSet(Rest, <<>>, copy) \cup Saves(js2, ready), wire')
    BY <1>1, <1>3, <1>4, <1>5, <1>11, <2>1, Proceeds
  <2>. QED BY <1>11, <2>2, LoadingNone
<1>14. Saves(js2, {}) = {}
  BY DEF Saves
<1>15. Behind(<<>>, NextSet(Rest, <<>>, copy), wire')
  BY <1>13, <1>14
<1>16. Requested(wire, wire')
  <2>1. \A e \in NextSet(Rest, <<>>, copy) : e.kind = "set"
    BY <1>4, <1>5, SetType
  <2>. QED BY <1>15, <2>1 DEF Behind, Requested
<1>17. Moved(js, jobs', Lost(w), {}, "failed") /\ (\A i \in DOMAIN js : jobs'[i].seen = js[i].seen)
  BY <1>2, <1>13 DEF Moved
<1>18. Named(jobs')
  BY <1>3, <1>7, <1>13, NamedMoved
<1>. QED BY <1>1, <1>5, <1>9, <1>12, <1>13, <1>15, <1>16, <1>17, <1>18

(* A handler hears of its request; those that read are interrupted.        *)
LEMMA AnsweredFacts ==
  ASSUME jobs \in Jobs, NEW e \in Request
  PROVE  LET new == Answered(e)
         IN /\ new \in Jobs /\ DOMAIN new = DOMAIN jobs
            /\ \A i \in DOMAIN jobs :
                 /\ new[i].kind = jobs[i].kind /\ new[i].name = jobs[i].name
                 /\ new[i].seen = jobs[i].seen /\ new[i].alone = jobs[i].alone
                 /\ i # e.owner => new[i] = jobs[i]
                 /\ i = e.owner =>
                      /\ new[i].clean <=> jobs[i].clean /\ e.answer = "ok"
                      /\ new[i].phase = IF e.kind = "set" THEN jobs[i].phase ELSE Onward(jobs[i].kind)
<1>. DEFINE new == Answered(e)
<1>1. DOMAIN jobs = 1..Len(jobs) /\ Len(jobs) \in Nat /\ Len(jobs) <= MaxJobs
  BY LenProperties DEF Jobs
<1>2. ASSUME NEW i \in DOMAIN jobs
      PROVE  /\ new[i] \in Job
             /\ new[i].kind = jobs[i].kind /\ new[i].name = jobs[i].name
             /\ new[i].seen = jobs[i].seen /\ new[i].alone = jobs[i].alone
             /\ i # e.owner => new[i] = jobs[i]
             /\ i = e.owner =>
                  /\ new[i].clean <=> jobs[i].clean /\ e.answer = "ok"
                  /\ new[i].phase = IF e.kind = "set" THEN jobs[i].phase ELSE Onward(jobs[i].kind)
  <2>1. jobs[i] \in Job
    BY JobType
  <2>2. Onward(jobs[i].kind) \in Phase
    BY DEF Onward, Phase
  <2>3. new[i] = IF i # e.owner THEN jobs[i]
                 ELSE [jobs[i] EXCEPT !.clean = @ /\ e.answer = "ok",
                          !.phase = IF e.kind = "set" THEN @ ELSE Onward(jobs[i].kind)]
    BY DEF Answered
  <2>. HIDE DEF new
  <2>4. jobs[i].clean \in BOOLEAN
    BY <2>1 DEF Job
  <2>5. CASE i = e.owner
    <3>. DEFINE p == IF e.kind = "set" THEN jobs[i].phase ELSE Onward(jobs[i].kind)
                c == jobs[i].clean /\ e.answer = "ok"
    <3>1. new[i] = [jobs[i] EXCEPT !.clean = c, !.phase = p]
      BY <2>3, <2>5
    <3>2. p \in Phase /\ c \in BOOLEAN
      BY <2>1, <2>2, <2>4 DEF Job, Phase
    <3>3. c <=> jobs[i].clean /\ e.answer = "ok"
      OBVIOUS
    <3>. HIDE DEF c
    <3>4. new[i] \in Job /\ new[i].clean = c /\ new[i].phase = p /\ new[i].kind = jobs[i].kind
          /\ new[i].name = jobs[i].name /\ new[i].seen = jobs[i].seen /\ new[i].alone = jobs[i].alone
      <4>. HIDE DEF p
      <4>. QED BY <2>1, <3>1, <3>2 DEF Job, Phase
    <3>. QED BY <2>5, <3>3, <3>4
  <2>6. CASE i # e.owner
    BY <2>1, <2>3, <2>6
  <2>. QED BY <2>5, <2>6
<1>3. DOMAIN new = 1..Len(jobs)
  BY <1>1 DEF Answered
<1>. HIDE DEF new
<1>4. new \in Seq(Job) /\ Len(new) = Len(jobs)
  <2>1. new = [i \in 1..Len(jobs) |-> new[i]]
    BY <1>3 DEF new, Answered
  <2>. QED BY <1>1, <1>2, <2>1, SeqDef
<1>5. new \in Jobs
  BY <1>1, <1>4 DEF Jobs
<1>. QED BY <1>1, <1>2, <1>3, <1>5 DEF new

LEMMA InterruptedFacts ==
  ASSUME NEW js \in Jobs, NEW swallowed, swallowed \subseteq Reading
  PROVE  LET new == Interrupted(js, swallowed)
         IN /\ new \in Jobs /\ DOMAIN new = DOMAIN js
            /\ \A i \in DOMAIN js :
                 /\ new[i].kind = js[i].kind /\ new[i].name = js[i].name
                 /\ new[i].seen = js[i].seen /\ new[i].alone = js[i].alone /\ new[i].clean = js[i].clean
                 /\ new[i].phase = IF i \in swallowed THEN "done"
                                   ELSE IF i \in Reading THEN "failed" ELSE js[i].phase
<1>. DEFINE one == To(js, swallowed, "done")
            two == To(one, Reading \ swallowed, "failed")
<1>1. Moved(js, one, swallowed, {}, "done") /\ \A i \in DOMAIN js : one[i].seen = js[i].seen
  BY ToFacts DEF Phase, Ended
<1>. HIDE DEF one
<1>2. one \in Jobs
  BY <1>1 DEF Moved
<1>3. Moved(one, two, Reading \ swallowed, {}, "failed") /\ \A i \in DOMAIN one : two[i].seen = one[i].seen
  BY <1>2, ToFacts DEF Phase, Ended
<1>4. Interrupted(js, swallowed) = two
  BY DEF Interrupted, one
<1>. HIDE DEF two
<1>. QED BY <1>1, <1>3, <1>4 DEF Moved

(* The handlers, when something is delivered.                              *)
Delivered(e, swallowed) == Interrupted(Answered(e), swallowed)

LEMMA DeliveredFacts ==
  ASSUME TypeInv, NEW e \in Request, NEW swallowed, swallowed \subseteq Reading
  PROVE  LET new == Delivered(e, swallowed)
         IN /\ new \in Jobs /\ DOMAIN new = DOMAIN jobs
            /\ \A i \in DOMAIN jobs :
                 /\ new[i].kind = jobs[i].kind /\ new[i].name = jobs[i].name
                 /\ new[i].seen = jobs[i].seen /\ new[i].alone = jobs[i].alone
                 /\ i # e.owner => new[i].clean = jobs[i].clean
                 /\ i = e.owner => (new[i].clean <=> jobs[i].clean /\ e.answer = "ok")
                 /\ new[i].phase = IF i \in swallowed THEN "done"
                                   ELSE IF i \in Reading THEN "failed"
                                   ELSE IF i = e.owner /\ e.kind # "set" THEN Onward(jobs[i].kind)
                                   ELSE jobs[i].phase
<1>. DEFINE ans == Answered(e)
<1>1. jobs \in Jobs
  BY OwnTypes DEF TypeInv
<1>2. /\ ans \in Jobs /\ DOMAIN ans = DOMAIN jobs
      /\ \A i \in DOMAIN jobs :
           /\ ans[i].kind = jobs[i].kind /\ ans[i].name = jobs[i].name
           /\ ans[i].seen = jobs[i].seen /\ ans[i].alone = jobs[i].alone
           /\ i # e.owner => ans[i] = jobs[i]
           /\ i = e.owner =>
                /\ ans[i].clean <=> jobs[i].clean /\ e.answer = "ok"
                /\ ans[i].phase = IF e.kind = "set" THEN jobs[i].phase ELSE Onward(jobs[i].kind)
  BY <1>1, AnsweredFacts
<1>. HIDE DEF ans
<1>. DEFINE new == Interrupted(ans, swallowed)
<1>3. /\ new \in Jobs /\ DOMAIN new = DOMAIN ans
      /\ \A i \in DOMAIN ans :
           /\ new[i].kind = ans[i].kind /\ new[i].name = ans[i].name
           /\ new[i].seen = ans[i].seen /\ new[i].alone = ans[i].alone /\ new[i].clean = ans[i].clean
           /\ new[i].phase = IF i \in swallowed THEN "done"
                             ELSE IF i \in Reading THEN "failed" ELSE ans[i].phase
  BY <1>2, InterruptedFacts
<1>4. Delivered(e, swallowed) = new
  BY DEF Delivered, ans
<1>. HIDE DEF new
<1>. QED BY <1>2, <1>3, <1>4

\* The other variables keep their types.
Others ==
  /\ window \in {"open", "closed"}
  /\ view \in {"loading", "stuck", "chooser", "create", "shell"}
  /\ exitDialog \in BOOLEAN
  /\ draft \in Draft /\ timer \in BOOLEAN /\ hydrated \in BOOLEAN
  /\ known \in Name \cup {NoName}
  /\ astray \in BOOLEAN
  /\ env \in Draft /\ images \in [Name -> Draft \cup {Absent}] /\ current \in Name \cup {NoName}
  /\ edits \in 0..MaxEdits /\ reloads \in 0..MaxReloads

Queues == jobs \in Jobs /\ wire \in Seq(Request) /\ chain \in Seq(Write) /\ copy \in Draft

Linked == Named(jobs) /\ Owned(jobs, wire) /\ Chained(jobs, chain) /\ OneSet(chain, wire)

LEMMA TypeParts ==
  /\ TypeInv <=> Others /\ Queues /\ Linked /\ Present(wire) /\ (current # NoName => images[current] # Absent)
  /\ TypeInv' <=> /\ Others' /\ Queues' /\ Linked' /\ Present(wire)'
                  /\ (current # NoName => images[current] # Absent)'
BY DEF TypeInv, TypeOK, Others, Queues, Linked, Jobs

(* The head of the wire is delivered: a write of the chain.                *)
ReadyNow(e) == Ready(Tail(chain), Tail(wire), {e.owner} \ {0})

LEMMA WriteDelivered ==
  ASSUME TypeInv, wire # <<>>, NEW e, e = Head(wire), DeliverWrite(e)
  PROVE  /\ e \in Request /\ e = wire[1] /\ 1 \in DOMAIN wire /\ e.kind = "set"
         /\ chain # <<>> /\ e.owner = chain[1].owner /\ 1 \in DOMAIN chain
         /\ NoSet(Tail(wire)) /\ Tail(wire) \in Seq(Request) /\ Tail(chain) \in Seq(Write)
         /\ ReadyNow(e) \subseteq DOMAIN jobs
         /\ \A i \in ReadyNow(e) : jobs[i].phase = "flush" /\ jobs[i].kind \in Saving /\ jobs[i].name \in Name
         /\ chain' = IF Loading(Tail(wire)) THEN <<>> ELSE Tail(chain)
         /\ copy' = IF Loading(Tail(wire)) THEN LastText(e.draft, Tail(chain)) ELSE e.draft
         /\ Moved(jobs, jobs', ReadyNow(e), {e.owner}, "save")
         /\ \A i \in DOMAIN jobs :
              /\ jobs'[i].seen = jobs[i].seen
              /\ i = e.owner => (jobs'[i].clean <=> jobs[i].clean /\ e.answer = "ok")
         /\ Behind(Tail(wire), NextSet(Tail(chain), Tail(wire), e.draft) \cup Saves(jobs, ReadyNow(e)), wire')
         /\ Queues' /\ Linked' /\ Requested(wire, wire')
         /\ e.owner # 0 => e.owner \in ReadyNow(e)
<1>1. Queues /\ Linked
  BY TypeParts
<1>2. e \in Request /\ e = wire[1] /\ 1 \in DOMAIN wire /\ e.kind = "set" /\ Tail(wire) \in Seq(Request)
  BY <1>1, TailFacts DEF Queues, DeliverWrite
<1>3. e.owner \in 0..MaxJobs /\ e.draft \in Draft
  BY <1>2 DEF Request
<1>4. chain # <<>> /\ e.owner = chain[1].owner /\ NoSet(Tail(wire))
  BY <1>1, <1>2, SetTail DEF Linked, Queues, OneSet
<1>. DEFINE js == Answered(e)
            ch == Tail(chain)
            w  == Tail(wire)
            answered == {e.owner} \ {0}
<1>5. /\ js \in Jobs /\ DOMAIN js = DOMAIN jobs
      /\ \A i \in DOMAIN jobs :
           /\ js[i].kind = jobs[i].kind /\ js[i].name = jobs[i].name
           /\ js[i].seen = jobs[i].seen /\ js[i].alone = jobs[i].alone
           /\ js[i].phase = jobs[i].phase
           /\ i # e.owner => js[i].clean = jobs[i].clean
           /\ i = e.owner => (js[i].clean <=> jobs[i].clean /\ e.answer = "ok")
  BY <1>1, <1>2, AnsweredFacts DEF Queues
<1>6. Proceed(ch, w, e.draft, answered, js)
  BY DEF DeliverWrite
<1>. HIDE DEF js
<1>7. Owned(jobs, w) /\ Requested(wire, w)
  BY <1>1, OwnedTail DEF Queues, Linked
<1>8. Chained(jobs, ch) /\ ch \in Seq(Write) /\ 1 \in DOMAIN chain
      /\ (chain[1].owner # 0 => \A k \in DOMAIN ch : ch[k].owner # chain[1].owner)
  BY <1>1, <1>4, ChainedTail, EmptyFacts DEF Queues, Linked
<1>9. Owned(js, w) /\ Chained(js, ch) /\ Named(js)
  <2>1. Owned(js, w) /\ Chained(js, ch)
    <3>. HIDE DEF w, ch
    <3>1. jobs \in Jobs /\ w \in Seq(Request)
      BY <1>1, <1>2 DEF Queues, w
    <3>. QED BY <1>5, <1>7, <1>8, <3>1, OwnedMoved
  <2>. QED BY <1>1, <1>5, <2>1 DEF Linked, Named
<1>10. \A i \in answered : /\ i \in DOMAIN js /\ js[i].phase = "flush" /\ js[i].kind \in Saving
                           /\ \A k \in DOMAIN ch : ch[k].owner # i
  <2>. SUFFICES ASSUME e.owner # 0
                PROVE  /\ e.owner \in DOMAIN js /\ js[e.owner].phase = "flush" /\ js[e.owner].kind \in Saving
                       /\ \A k \in DOMAIN ch : ch[k].owner # e.owner
    OBVIOUS
  <2>1. e.owner \in DOMAIN jobs /\ jobs[e.owner].phase = "flush" /\ jobs[e.owner].kind \in Saving
    BY <1>1, <1>4, <1>8 DEF Linked, Chained
  <2>. QED BY <1>4, <1>5, <1>8, <2>1
<1>. HIDE DEF ch, w, answered
<1>11. /\ Ready(ch, w, answered) \subseteq DOMAIN js
       /\ \A i \in Ready(ch, w, answered) :
            js[i].name \in Name /\ js[i].phase = "flush" /\ js[i].kind \in Saving
       /\ Owned(jobs', wire') /\ Chained(jobs', chain') /\ OneSet(chain', wire')
  <2>1. w \in Seq(Request) /\ answered \subseteq DOMAIN js /\ NoSet(w)
    BY <1>2, <1>4, <1>10 DEF w
  <2>. QED BY <1>3, <1>5, <1>6, <1>8, <1>9, <1>10, <2>1, OwnedSends
<1>12. /\ wire' \in Seq(Request) /\ chain' \in Seq(Write) /\ copy' \in Draft
       /\ chain' = IF Loading(w) THEN <<>> ELSE ch
       /\ copy' = IF Loading(w) THEN LastText(e.draft, ch) ELSE e.draft
       /\ Moved(js, jobs', Ready(ch, w, answered), {}, "save")
       /\ \A i \in DOMAIN js : jobs'[i].seen = js[i].seen
       /\ Behind(w, NextSet(ch, w, e.draft) \cup Saves(js, Ready(ch, w, answered)), wire')
  <2>1. w \in Seq(Request)
    BY <1>2 DEF w
  <2>. QED BY <1>3, <1>5, <1>6, <1>8, <1>11, <2>1, Proceeds
<1>13. ReadyNow(e) = Ready(ch, w, answered)
  BY DEF ReadyNow, ch, w, answered
<1>. DEFINE ready == Ready(ch, w, answered)
<1>14. ready \subseteq DOMAIN jobs
       /\ \A i \in ready : jobs[i].phase = "flush" /\ jobs[i].kind \in Saving /\ jobs[i].name \in Name
  BY <1>5, <1>11
<1>15. Saves(js, ready) = Saves(jobs, ready)
  <2>1. \A i \in ready : SaveOf(js, i) = SaveOf(jobs, i)
    BY <1>5, <1>14 DEF SaveOf
  <2>. QED BY <2>1 DEF Saves
<1>16. Moved(jobs, jobs', ready, {e.owner}, "save")
       /\ \A i \in DOMAIN jobs :
            /\ jobs'[i].seen = jobs[i].seen
            /\ i = e.owner => (jobs'[i].clean <=> jobs[i].clean /\ e.answer = "ok")
  <2>. HIDE DEF ready
  <2>1. Moved(js, jobs', ready, {}, "save")
    BY <1>12 DEF ready
  <2>. QED BY <1>5, <1>12, <2>1 DEF Moved
<1>17. Queues' /\ Linked'
  <2>1. jobs' \in Jobs
    BY <1>16 DEF Moved
  <2>2. Named(jobs')
    <3>. HIDE DEF ready
    <3>1. Named(jobs) /\ jobs \in Jobs
      BY <1>1 DEF Linked, Queues
    <3>. QED BY <1>16, <3>1, NamedMoved
  <2>. QED BY <1>11, <1>12, <2>1, <2>2 DEF Queues, Linked
<1>18. Requested(wire, wire')
  <2>1. Requested(w, wire')
    <3>1. w \in Seq(Request) /\ jobs \in Jobs /\ Behind(w, NextSet(ch, w, e.draft) \cup Saves(jobs, ready), wire')
      BY <1>1, <1>2, <1>12, <1>15 DEF Queues, w
    <3>. HIDE DEF ready
    <3>. QED BY <1>3, <1>8, <1>14, <3>1, RequestedBehind
  <2>2. Requested(wire, w)
    BY <1>7 DEF w
  <2>. QED BY <2>1, <2>2 DEF Requested
<1>19. e.owner # 0 => e.owner \in ready
  BY DEF Ready, answered
<1>20. /\ Behind(Tail(wire), NextSet(Tail(chain), Tail(wire), e.draft) \cup Saves(jobs, ReadyNow(e)), wire')
       /\ chain' = IF Loading(Tail(wire)) THEN <<>> ELSE Tail(chain)
       /\ copy' = IF Loading(Tail(wire)) THEN LastText(e.draft, Tail(chain)) ELSE e.draft
  BY <1>12, <1>13, <1>15 DEF ch, w
<1>21. Tail(chain) \in Seq(Write)
  BY <1>8 DEF ch
<1>. HIDE DEF ready
<1>22. ready = ReadyNow(e)
  BY <1>13 DEF ready
<1>. QED BY <1>2, <1>4, <1>8, <1>14, <1>16, <1>17, <1>18, <1>19, <1>20, <1>21, <1>22

(* The answer to a load or a revert: the rest of the wire is rejected.     *)
LEMMA TransitionDelivered ==
  ASSUME TypeInv, wire # <<>>, NEW e, e = Head(wire), e.kind \in {"load", "revert"},
         NEW swallowed, swallowed \subseteq Reading, Reject(Tail(wire), Delivered(e, swallowed))
  PROVE  /\ e \in Request /\ e = wire[1] /\ 1 \in DOMAIN wire /\ Tail(wire) \in Seq(Request)
         /\ Rest \in Seq(Write) /\ chain' = Rest /\ copy' = copy
         /\ jobs' \in Jobs /\ DOMAIN jobs' = DOMAIN jobs
         /\ \A i \in DOMAIN jobs :
              /\ jobs'[i].kind = jobs[i].kind /\ jobs'[i].name = jobs[i].name
              /\ jobs'[i].seen = jobs[i].seen /\ jobs'[i].alone = jobs[i].alone
              /\ i # e.owner => jobs'[i].clean = jobs[i].clean
              /\ i = e.owner => (jobs'[i].clean <=> jobs[i].clean /\ e.answer = "ok")
              /\ jobs'[i].phase = IF i \in Lost(Tail(wire)) THEN "failed"
                                  ELSE IF i \in swallowed THEN "done"
                                  ELSE IF i \in Reading THEN "failed"
                                  ELSE IF i = e.owner THEN Onward(jobs[i].kind)
                                  ELSE jobs[i].phase
         /\ Behind(<<>>, NextSet(Rest, <<>>, copy), wire')
         /\ astray' = (astray \/ \E k \in DOMAIN Tail(wire) : Tail(wire)[k].kind = "set")
         /\ chain # <<>> => ~ NoSet(Tail(wire))
         /\ Queues' /\ Linked' /\ Requested(wire, wire')
         /\ e.owner \notin Lost(Tail(wire))
<1>. DEFINE js == Delivered(e, swallowed)
            w  == Tail(wire)
<1>1. Queues /\ Linked
  BY TypeParts
<1>2. /\ e \in Request /\ e = wire[1] /\ 1 \in DOMAIN wire /\ w \in Seq(Request)
      /\ \A k \in DOMAIN w : \E j \in DOMAIN wire : w[k] = wire[j]
  BY <1>1, TailFacts DEF Queues
<1>3. chain # <<>> => ~ NoSet(w)
  BY <1>1, SetTail DEF Linked, Queues, OneSet
<1>4. /\ js \in Jobs /\ DOMAIN js = DOMAIN jobs
      /\ \A i \in DOMAIN jobs :
           /\ js[i].kind = jobs[i].kind /\ js[i].name = jobs[i].name
           /\ js[i].seen = jobs[i].seen /\ js[i].alone = jobs[i].alone
           /\ i # e.owner => js[i].clean = jobs[i].clean
           /\ i = e.owner => (js[i].clean <=> jobs[i].clean /\ e.answer = "ok")
           /\ js[i].phase = IF i \in swallowed THEN "done"
                            ELSE IF i \in Reading THEN "failed"
                            ELSE IF i = e.owner /\ e.kind # "set" THEN Onward(jobs[i].kind)
                            ELSE jobs[i].phase
  BY <1>2, DeliveredFacts
<1>5. e.owner # 0 => e.owner \in DOMAIN jobs /\ jobs[e.owner].phase \in {"load", "revert"}
  BY <1>1, <1>2 DEF Linked, Owned, Awaits
<1>6. ASSUME NEW i \in DOMAIN jobs, jobs[i].phase = "flush" PROVE js[i].phase = "flush"
  <2>. HIDE DEF js
  <2>1. i # 0
    BY <1>1, JobType DEF Queues
  <2>2. i # e.owner /\ i \notin Reading /\ i \notin swallowed
    BY <1>5, <1>6, <2>1 DEF Reading
  <2>3. js[i].phase = IF i \in swallowed THEN "done"
                      ELSE IF i \in Reading THEN "failed"
                      ELSE IF i = e.owner /\ e.kind # "set" THEN Onward(jobs[i].kind)
                      ELSE jobs[i].phase
    BY <1>4
  <2>. QED BY <1>6, <2>2, <2>3
<1>. HIDE DEF js
<1>7. /\ Moved(js, jobs', Lost(w), {}, "failed") /\ (\A i \in DOMAIN js : jobs'[i].seen = js[i].seen)
      /\ Rest \in Seq(Write) /\ chain' = Rest /\ copy' = copy
      /\ wire' \in Seq(Request) /\ Behind(<<>>, NextSet(Rest, <<>>, copy), wire')
      /\ astray' = (astray \/ \E k \in DOMAIN w : w[k].kind = "set")
      /\ Named(jobs') /\ Owned(jobs', wire') /\ Chained(jobs', chain') /\ OneSet(chain', wire')
      /\ Requested(wire, wire')
  <2>1. Reject(w, js)
    BY DEF js
  <2>. HIDE DEF w
  <2>. QED BY <1>2, <1>3, <1>4, <1>6, <2>1, Rejects
<1>8. Queues' /\ Linked'
  <2>1. jobs' \in Jobs
    BY <1>7 DEF Moved
  <2>. QED BY <1>1, <1>7, <2>1 DEF Queues, Linked
<1>9. e.owner \notin Lost(w)
  <2>1. wire \in Seq(Request) /\ Owned(jobs, wire)
    BY <1>1 DEF Queues, Linked
  <2>2. e.owner # 0 => \A k \in DOMAIN w : w[k].owner # e.owner
    BY <2>1, OwnedTail
  <2>. QED BY <2>2 DEF Lost
<1>10. /\ jobs' \in Jobs /\ DOMAIN jobs' = DOMAIN js
       /\ \A i \in DOMAIN js :
            /\ jobs'[i].kind = js[i].kind /\ jobs'[i].name = js[i].name /\ jobs'[i].alone = js[i].alone
            /\ jobs'[i].clean = js[i].clean
            /\ jobs'[i].phase = IF i \in Lost(w) THEN "failed" ELSE js[i].phase
  BY <1>7 DEF Moved
<1>11. ASSUME NEW i \in DOMAIN jobs
       PROVE  /\ jobs'[i].kind = jobs[i].kind /\ jobs'[i].name = jobs[i].name
              /\ jobs'[i].seen = jobs[i].seen /\ jobs'[i].alone = jobs[i].alone
              /\ i # e.owner => jobs'[i].clean = jobs[i].clean
              /\ i = e.owner => (jobs'[i].clean <=> jobs[i].clean /\ e.answer = "ok")
              /\ jobs'[i].phase = IF i \in Lost(w) THEN "failed"
                                  ELSE IF i \in swallowed THEN "done"
                                  ELSE IF i \in Reading THEN "failed"
                                  ELSE IF i = e.owner THEN Onward(jobs[i].kind)
                                  ELSE jobs[i].phase
  <2>. HIDE DEF w
  <2>1. e.kind # "set"
    OBVIOUS
  <2>. QED BY <1>4, <1>7, <1>10, <2>1
<1>. QED BY <1>2, <1>3, <1>4, <1>7, <1>8, <1>9, <1>10, <1>11

(* The write child is lost.                                                *)
LEMMA ChildLost ==
  ASSUME TypeInv, LoseChild
  PROVE  /\ Rest \in Seq(Write) /\ chain' = Rest /\ copy' = copy
         /\ Moved(jobs, jobs', Lost(wire), {}, "failed")
         /\ \A i \in DOMAIN jobs : jobs'[i].seen = jobs[i].seen
         /\ Behind(<<>>, NextSet(Rest, <<>>, copy), wire')
         /\ astray' = (astray \/ \E k \in DOMAIN wire : wire[k].kind = "set")
         /\ chain # <<>> => ~ NoSet(wire)
         /\ Queues' /\ Linked' /\ Requested(wire, wire')
<1>1. Queues /\ Linked
  BY TypeParts
<1>2. chain # <<>> => ~ NoSet(wire)
  BY <1>1 DEF Linked, OneSet
<1>3. /\ Moved(jobs, jobs', Lost(wire), {}, "failed") /\ (\A i \in DOMAIN jobs : jobs'[i].seen = jobs[i].seen)
      /\ Rest \in Seq(Write) /\ chain' = Rest /\ copy' = copy
      /\ wire' \in Seq(Request) /\ Behind(<<>>, NextSet(Rest, <<>>, copy), wire')
      /\ astray' = (astray \/ \E k \in DOMAIN wire : wire[k].kind = "set")
      /\ Named(jobs') /\ Owned(jobs', wire') /\ Chained(jobs', chain') /\ OneSet(chain', wire')
      /\ Requested(wire, wire')
  <2>1. Reject(wire, jobs) /\ jobs \in Jobs /\ wire \in Seq(Request)
    BY <1>1 DEF LoseChild, Queues
  <2>. QED BY <1>2, <2>1, Rejects
<1>4. Queues' /\ Linked'
  <2>1. jobs' \in Jobs
    BY <1>3 DEF Moved
  <2>. QED BY <1>1, <1>3, <2>1 DEF Queues, Linked
<1>. QED BY <1>2, <1>3, <1>4

(* The answer to a save: a save that was carried out replaces the read     *)
(* child.                                                                  *)
\* What the answer to a save does to the handlers.
SaveAnswered(new, e, swallowed) ==
  /\ new \in Jobs /\ DOMAIN new = DOMAIN jobs
  /\ \A i \in DOMAIN jobs :
       /\ new[i].kind = jobs[i].kind /\ new[i].name = jobs[i].name
       /\ new[i].seen = jobs[i].seen /\ new[i].alone = jobs[i].alone
       /\ i # e.owner => new[i].clean = jobs[i].clean
       /\ i = e.owner => (new[i].clean <=> jobs[i].clean /\ e.answer = "ok")
       /\ new[i].phase = IF i \in swallowed THEN "done"
                         ELSE IF e.answer = "ok" /\ i \in Reading THEN "failed"
                         ELSE IF i = e.owner THEN Onward(jobs[i].kind)
                         ELSE jobs[i].phase

LEMMA SaveDelivered ==
  ASSUME TypeInv, wire # <<>>, NEW e, e = Head(wire), e.kind = "save",
         NEW swallowed, swallowed \subseteq Reading, e.answer # "ok" => swallowed = {},
         e.answer = "ok" => jobs' = Interrupted(Answered(e), swallowed), e.answer # "ok" => jobs' = Answered(e),
         wire' = Tail(wire), UNCHANGED <<chain, copy>>
  PROVE  /\ e \in Request /\ e = wire[1] /\ 1 \in DOMAIN wire
         /\ SaveAnswered(jobs', e, swallowed)
         /\ Queues' /\ Linked' /\ Requested(wire, wire')
<1>1. Queues /\ Linked
  BY TypeParts
<1>2. e \in Request /\ e = wire[1] /\ 1 \in DOMAIN wire /\ Tail(wire) \in Seq(Request)
  BY <1>1, TailFacts DEF Queues
<1>3. /\ jobs' \in Jobs /\ DOMAIN jobs' = DOMAIN jobs
      /\ \A i \in DOMAIN jobs :
           /\ jobs'[i].kind = jobs[i].kind /\ jobs'[i].name = jobs[i].name
           /\ jobs'[i].seen = jobs[i].seen /\ jobs'[i].alone = jobs[i].alone
           /\ i # e.owner => jobs'[i].clean = jobs[i].clean
           /\ i = e.owner => (jobs'[i].clean <=> jobs[i].clean /\ e.answer = "ok")
           /\ jobs'[i].phase = IF i \in swallowed THEN "done"
                               ELSE IF e.answer = "ok" /\ i \in Reading THEN "failed"
                               ELSE IF i = e.owner THEN Onward(jobs[i].kind)
                               ELSE jobs[i].phase
  <2>1. CASE e.answer = "ok"
    <3>1. jobs' = Delivered(e, swallowed)
      BY <2>1 DEF Delivered
    <3>. QED BY <1>2, <2>1, <3>1, DeliveredFacts
  <2>2. CASE e.answer # "ok"
    <3>1. jobs' = Answered(e) /\ swallowed = {}
      BY <2>2
    <3>. QED BY <1>1, <1>2, <2>2, <3>1, AnsweredFacts DEF Queues
  <2>. QED BY <2>1, <2>2
<1>4. /\ Owned(jobs, Tail(wire)) /\ Requested(wire, Tail(wire))
      /\ e.owner # 0 => \A k \in DOMAIN Tail(wire) : Tail(wire)[k].owner # e.owner
  BY <1>1, OwnedTail DEF Queues, Linked
<1>5. OneSet(chain, Tail(wire))
  BY <1>1, SetTail DEF Queues, Linked
<1>6. e.owner # 0 => e.owner \in DOMAIN jobs /\ jobs[e.owner].phase = "save"
  BY <1>1, <1>2 DEF Linked, Owned, Awaits
<1>7. ASSUME NEW i \in DOMAIN jobs,
             (\E k \in DOMAIN Tail(wire) : Tail(wire)[k].owner = i) \/ (\E k \in DOMAIN chain : chain[k].owner = i)
      PROVE  jobs'[i].phase = jobs[i].phase
  <2>1. i # 0
    BY <1>1, JobType DEF Queues
  <2>2. jobs[i].phase \in {"flush", "save", "load", "revert"} /\ i # e.owner
    <3>1. CASE \E k \in DOMAIN Tail(wire) : Tail(wire)[k].owner = i
      <4>1. PICK k \in DOMAIN Tail(wire) : Tail(wire)[k].owner = i
        BY <3>1
      <4>2. Tail(wire)[k] \in Request /\ Awaits(jobs[i], Tail(wire)[k].kind, Tail(wire)[k].name)
        BY <1>2, <1>4, <2>1, <4>1, MemberType DEF Owned
      <4>. QED BY <1>4, <2>1, <4>1, <4>2 DEF Request, Awaits
    <3>2. CASE \E k \in DOMAIN chain : chain[k].owner = i
      BY <1>1, <1>6, <2>1, <3>2 DEF Linked, Chained
    <3>. QED BY <1>7, <3>1, <3>2
  <2>3. jobs'[i].phase = IF i \in swallowed THEN "done"
                         ELSE IF e.answer = "ok" /\ i \in Reading THEN "failed"
                         ELSE IF i = e.owner THEN Onward(jobs[i].kind)
                         ELSE jobs[i].phase
    BY <1>3
  <2>. QED BY <2>2, <2>3 DEF Reading
<1>8. Owned(jobs', wire') /\ Chained(jobs', chain')
  <2>1. jobs \in Jobs /\ chain \in Seq(Write) /\ Chained(jobs, chain)
    BY <1>1 DEF Queues, Linked
  <2>2. DOMAIN jobs \subseteq DOMAIN jobs'
        /\ \A i \in DOMAIN jobs : jobs'[i].kind = jobs[i].kind /\ jobs'[i].name = jobs[i].name
    BY <1>3
  <2>3. jobs' \in Jobs
    BY <1>3
  <2>. DEFINE new == jobs'
              w == Tail(wire)
  <2>4. /\ new \in Jobs /\ w \in Seq(Request) /\ Owned(jobs, w) /\ DOMAIN jobs \subseteq DOMAIN new
        /\ \A i \in DOMAIN jobs :
             (\E k \in DOMAIN w : w[k].owner = i) \/ (\E k \in DOMAIN chain : chain[k].owner = i) =>
               new[i].phase = jobs[i].phase /\ new[i].kind = jobs[i].kind /\ new[i].name = jobs[i].name
    BY <1>2, <1>4, <1>7, <2>2, <2>3
  <2>. HIDE DEF new, w
  <2>5. Owned(new, w) /\ Chained(new, chain)
    BY <2>1, <2>4, OwnedMoved
  <2>. QED BY <2>5 DEF new, w
<1>9. Named(jobs') /\ SaveAnswered(jobs', e, swallowed)
  BY <1>1, <1>3 DEF Linked, Named, SaveAnswered
<1>10. Queues' /\ Linked'
  BY <1>1, <1>2, <1>3, <1>5, <1>8, <1>9 DEF Queues, Linked
<1>. QED BY <1>2, <1>4, <1>9, <1>10

LEMMA TypeNext ==
  ASSUME Others', Queues', Linked', Present(wire)', (current # NoName => images[current] # Absent)'
  PROVE  TypeInv'
BY DEF TypeInv, TypeOK, Others, Queues, Linked, Jobs

LEMMA AwaitPhase ==
  ASSUME TypeInv
  PROVE  /\ \A k \in DOMAIN wire : wire[k].owner # 0 =>
              wire[k].owner \in DOMAIN jobs /\ jobs[wire[k].owner].phase \in {"flush", "save", "load", "revert"}
         /\ \A k \in DOMAIN chain : chain[k].owner # 0 =>
              chain[k].owner \in DOMAIN jobs /\ jobs[chain[k].owner].phase = "flush"
         /\ \A k \in DOMAIN wire : wire[k] \in Request
         /\ \A i \in DOMAIN jobs : i # 0
<1>1. Queues /\ Linked
  BY TypeParts
<1>2. \A k \in DOMAIN wire : wire[k] \in Request
  BY <1>1, MemberType DEF Queues
<1>3. \A i \in DOMAIN jobs : i # 0
  BY <1>1, JobType DEF Queues
<1>4. \A k \in DOMAIN chain : chain[k].owner # 0 =>
        chain[k].owner \in DOMAIN jobs /\ jobs[chain[k].owner].phase = "flush"
  BY <1>1 DEF Linked, Chained
<1>5. ASSUME NEW k \in DOMAIN wire, wire[k].owner # 0
      PROVE  wire[k].owner \in DOMAIN jobs /\ jobs[wire[k].owner].phase \in {"flush", "save", "load", "revert"}
  <2>1. wire[k].owner \in DOMAIN jobs /\ Awaits(jobs[wire[k].owner], wire[k].kind, wire[k].name)
    BY <1>1, <1>5 DEF Linked, Owned
  <2>2. wire[k].kind \in {"set", "save", "revert", "load"}
    BY <1>2 DEF Request
  <2>. QED BY <2>1, <2>2 DEF Awaits
<1>. QED BY <1>2, <1>3, <1>4, <1>5

(* Handlers that wait for no request move, and the queues stay.            *)
LEMMA QueuesKept ==
  ASSUME TypeInv, NEW S, NEW C, NEW phase, Moved(jobs, jobs', S, C, phase),
         \A i \in S \cap DOMAIN jobs : jobs[i].phase \notin {"flush", "save", "load", "revert"},
         UNCHANGED <<wire, chain, images, current>>, copy' \in Draft
  PROVE  /\ Queues' /\ Linked' /\ Present(wire)'
         /\ (current # NoName => images[current] # Absent)'
<1>1. Queues /\ Linked
  BY TypeParts
<1>2. ASSUME NEW i \in DOMAIN jobs,
             (\E k \in DOMAIN wire : wire[k].owner = i) \/ (\E k \in DOMAIN chain : chain[k].owner = i)
      PROVE  i \notin S
  <2>1. jobs[i].phase \in {"flush", "save", "load", "revert"}
    BY <1>2, AwaitPhase
  <2>. QED BY <2>1
<1>3. Owned(jobs', wire') /\ Chained(jobs', chain')
  <2>. DEFINE new == jobs'
  <2>1. /\ jobs \in Jobs /\ new \in Jobs /\ wire \in Seq(Request) /\ chain \in Seq(Write)
        /\ Owned(jobs, wire) /\ Chained(jobs, chain) /\ DOMAIN jobs \subseteq DOMAIN new
        /\ \A i \in DOMAIN jobs :
             (\E k \in DOMAIN wire : wire[k].owner = i) \/ (\E k \in DOMAIN chain : chain[k].owner = i) =>
               new[i].phase = jobs[i].phase /\ new[i].kind = jobs[i].kind /\ new[i].name = jobs[i].name
    BY <1>1, <1>2 DEF Moved, Queues, Linked
  <2>. HIDE DEF new
  <2>2. Owned(new, wire) /\ Chained(new, chain)
    BY <2>1, OwnedMoved
  <2>. QED BY <2>2 DEF new
<1>4. Named(jobs')
  BY <1>1 DEF Linked, Named, Moved
<1>5. Queues' /\ Linked'
  <2>1. jobs' \in Jobs
    BY DEF Moved
  <2>. QED BY <1>1, <1>3, <1>4, <2>1 DEF Queues, Linked
<1>. QED BY <1>5 DEF TypeInv, Present

LEMMA SameJobs ==
  ASSUME jobs \in Jobs, UNCHANGED jobs
  PROVE  Moved(jobs, jobs', {}, {}, "done")
BY DEF Moved

(* A handler starts with a request that is not a write.                    *)
LEMMA RequestAdded ==
  ASSUME NEW js \in Jobs, NEW w \in Seq(Request), NEW ch, Owned(js, w), OneSet(ch, w),
         NEW e \in Request, e.owner \in DOMAIN js, Awaits(js[e.owner], e.kind, e.name), e.kind # "set",
         \A k \in DOMAIN w : w[k].owner # e.owner
  PROVE  LET new == Append(w, e)
         IN /\ new \in Seq(Request) /\ Owned(js, new) /\ OneSet(ch, new) /\ Behind(w, {e}, new)
<1>. DEFINE new == Append(w, e)
<1>1. new \in Seq(Request) /\ Behind(w, {e}, new)
  BY BehindOne
<1>. HIDE DEF new
<1>2. Owned(js, new)
  <2>1. ASSUME NEW k \in DOMAIN new, new[k].owner # 0
        PROVE  new[k].owner \in DOMAIN js /\ Awaits(js[new[k].owner], new[k].kind, new[k].name)
    BY <1>1, <2>1 DEF Behind, Owned
  <2>2. ASSUME NEW j \in DOMAIN new, NEW k \in DOMAIN new, new[j].owner = new[k].owner, new[j].owner # 0
        PROVE  j = k
    BY <1>1, <2>2 DEF Behind, Owned
  <2>. QED BY <2>1, <2>2 DEF Owned
<1>3. OneSet(ch, new)
  <2>1. \A k \in DOMAIN new : new[k].kind = "set" => k \in DOMAIN w /\ new[k] = w[k]
    BY <1>1 DEF Behind
  <2>2. NoSet(new) => NoSet(w)
    BY <1>1 DEF Behind, NoSet
  <2>. QED BY <2>1, <2>2 DEF OneSet
<1>. QED BY <1>1, <1>2, <1>3 DEF new

LEMMA StartedLinked ==
  ASSUME TypeInv, CanStart, NEW kind \in Startup \cup Exit, NEW phase \in Phase, NEW name \in Name \cup {NoName},
         kind # "discard" => name \in Name
  PROVE  LET js == Started(kind, phase, name)
         IN /\ js \in Jobs /\ Me \in DOMAIN js /\ Me \in 1..MaxJobs /\ Me \in Nat \ {0}
            /\ js[Me].kind = kind /\ js[Me].name = name /\ js[Me].phase = phase
            /\ Named(js) /\ Owned(js, wire) /\ Chained(js, chain)
            /\ \A k \in DOMAIN wire : wire[k].owner # Me
            /\ \A k \in DOMAIN chain : chain[k].owner # Me
<1>. DEFINE js == Started(kind, phase, name)
<1>1. Queues /\ Linked /\ draft \in Draft
  BY TypeParts DEF Others
<1>2. /\ js \in Jobs /\ \A i : i \in DOMAIN js <=> i \in DOMAIN jobs \/ i = Me
      /\ Me \notin DOMAIN jobs /\ Me \in 1..MaxJobs /\ Me \in Nat \ {0}
      /\ \A i \in DOMAIN jobs :
           /\ js[i].kind = jobs[i].kind /\ js[i].name = jobs[i].name
           /\ js[i].phase = jobs[i].phase /\ js[i].seen = jobs[i].seen
           /\ js[i].clean = jobs[i].clean
           /\ js[i].alone <=> jobs[i].alone /\ ~ Active(i)
      /\ js[Me].kind = kind /\ js[Me].name = name /\ js[Me].phase = phase
  <2>1. jobs \in Jobs /\ Len(jobs) < MaxJobs
    BY <1>1 DEF Queues, CanStart
  <2>2. js = Started(kind, phase, name)
    OBVIOUS
  <2>. HIDE DEF js
  <2>. QED BY <1>1, <2>1, <2>2, StartedFacts
<1>. HIDE DEF js
<1>3. Owned(js, wire) /\ Chained(js, chain)
  BY <1>1, <1>2, OwnedMoved DEF Queues, Linked
<1>4. Named(js)
  BY <1>1, <1>2 DEF Linked, Named
<1>5. (\A k \in DOMAIN wire : wire[k].owner # Me) /\ (\A k \in DOMAIN chain : chain[k].owner # Me)
  BY <1>2, AwaitPhase
<1>. QED BY <1>2, <1>3, <1>4, <1>5 DEF js

LEMMA ViewTypes ==
  ASSUME TypeInv, ShowChooser \/ OpenCreateDialog \/ BackToImages \/ RequestQuit \/ Cancel
  PROVE  TypeInv'
<1>1. Others /\ Queues
  BY TypeParts
<1>2. UNCHANGED <<jobs, wire, chain, copy, images, current>>
  BY DEF ShowChooser, OpenCreateDialog, BackToImages, RequestQuit, Cancel, adapter, service
<1>3. Queues' /\ Linked' /\ Present(wire)' /\ (current # NoName => images[current] # Absent)'
  BY <1>1, <1>2, SameJobs, QueuesKept DEF Queues
<1>4. Others'
  BY <1>1 DEF ShowChooser, OpenCreateDialog, BackToImages, RequestQuit, Cancel, adapter, service, counters, Others
<1>. QED BY <1>3, <1>4, TypeNext

(* A handler that starts with a request.                                   *)
LEMMA StartTypes ==
  ASSUME TypeInv, CanStart, NEW kind, NEW phase, NEW name,
         NEW e, e = Entry(phase, Default, name, FALSE, Me),
         \/ kind = "open" /\ phase = "load" /\ name \in Name /\ images[name] # Absent
         \/ kind = "create" /\ phase = "save" /\ name \in Name
         \/ kind = "discard" /\ phase = "revert" /\ name = NoName,
         jobs' = Started(kind, phase, name), wire' = Append(wire, e), UNCHANGED <<chain, copy, images, current>>
  PROVE  /\ Queues' /\ Linked' /\ Present(wire)' /\ (current # NoName => images[current] # Absent)'
         /\ Behind(wire, {e}, wire') /\ e \in Request
<1>1. Queues /\ Linked /\ Others
  BY TypeParts
<1>. DEFINE js == Started(kind, phase, name)
<1>2. kind \in Startup \cup Exit /\ phase \in Phase /\ name \in Name \cup {NoName} /\ (kind # "discard" => name \in Name)
  BY DEF Startup, Exit, Phase
<1>3. /\ js \in Jobs /\ Me \in DOMAIN js /\ Me \in 1..MaxJobs /\ Me \in Nat \ {0}
      /\ js[Me].kind = kind /\ js[Me].name = name /\ js[Me].phase = phase
      /\ Named(js) /\ Owned(js, wire) /\ Chained(js, chain)
      /\ \A k \in DOMAIN wire : wire[k].owner # Me
  BY <1>2, StartedLinked
<1>. HIDE DEF js
<1>4. e \in Request /\ e.kind = phase /\ e.name = name /\ e.owner = Me
  BY <1>3 DEF Entry, Request
<1>5. Awaits(js[e.owner], e.kind, e.name) /\ e.kind # "set"
  BY <1>3, <1>4 DEF Awaits
<1>6. wire' \in Seq(Request) /\ Owned(js, wire') /\ OneSet(chain, wire') /\ Behind(wire, {e}, wire')
  BY <1>1, <1>3, <1>4, <1>5, RequestAdded DEF Queues, Linked
<1>7. jobs' = js
  BY DEF js
<1>8. Present(wire)'
  <2>1. \A k \in DOMAIN wire' : (k \in DOMAIN wire /\ wire'[k] = wire[k]) \/ wire'[k] = e
    BY <1>6 DEF Behind
  <2>2. Present(wire)
    BY TypeParts
  <2>. QED BY <1>4, <2>1, <2>2 DEF Present
<1>9. Queues' /\ Linked'
  BY <1>1, <1>3, <1>6, <1>7 DEF Queues, Linked
<1>. QED BY <1>4, <1>6, <1>8, <1>9 DEF TypeInv

LEMMA OpenTypes ==
  ASSUME TypeInv, NEW n \in Name, OpenImage(n)
  PROVE  TypeInv'
<1>1. Others
  BY TypeParts
<1>2. Queues' /\ Linked' /\ Present(wire)' /\ (current # NoName => images[current] # Absent)'
  <2>1. /\ CanStart /\ images[n] # Absent /\ jobs' = Started("open", "load", n)
        /\ wire' = Append(wire, Entry("load", Default, n, FALSE, Me)) /\ UNCHANGED <<chain, copy, images, current>>
    BY DEF OpenImage, adapter, service
  <2>. QED BY <2>1, StartTypes
<1>3. Others'
  BY <1>1 DEF OpenImage, adapter, service, counters, Others
<1>. QED BY <1>2, <1>3, TypeNext

LEMMA CreateTypes ==
  ASSUME TypeInv, NEW n \in Name, CreateImage(n)
  PROVE  TypeInv'
<1>1. Others
  BY TypeParts
<1>2. Queues' /\ Linked' /\ Present(wire)' /\ (current # NoName => images[current] # Absent)'
  <2>1. /\ CanStart /\ jobs' = Started("create", "save", n)
        /\ wire' = Append(wire, Entry("save", Default, n, FALSE, Me)) /\ UNCHANGED <<chain, copy, images, current>>
    BY DEF CreateImage, adapter, service
  <2>. QED BY <2>1, StartTypes
<1>3. Others'
  BY <1>1 DEF CreateImage, adapter, service, counters, Others
<1>. QED BY <1>2, <1>3, TypeNext

LEMMA DiscardTypes ==
  ASSUME TypeInv, Discard
  PROVE  TypeInv'
<1>1. Others
  BY TypeParts
<1>2. Queues' /\ Linked' /\ Present(wire)' /\ (current # NoName => images[current] # Absent)'
  <2>1. /\ CanStart /\ jobs' = Started("discard", "revert", NoName)
        /\ wire' = Append(wire, Entry("revert", Default, NoName, FALSE, Me)) /\ UNCHANGED <<chain, copy, images, current>>
    BY DEF Discard, adapter, service
  <2>. QED BY <2>1, StartTypes
<1>3. Others'
  BY <1>1 DEF Discard, adapter, service, counters, Others
<1>. QED BY <1>2, <1>3, TypeNext

(* What the steps of a handler that waits for no request do.               *)
LEMMA ReadMoves ==
  ASSUME TypeInv, NEW i, ReadPreferences(i)
  PROVE  /\ Moved(jobs, jobs', {i}, {}, "bootstrap") /\ i \in DOMAIN jobs /\ jobs[i].phase = "read"
         /\ \A j \in DOMAIN jobs : /\ jobs[j].kind \in Saving /\ jobs[j].phase \notin Ended => env \in jobs'[j].seen
                                   /\ jobs[j].phase \in Ended => jobs'[j].seen = jobs[j].seen
<1>1. jobs \in Jobs /\ env \in Draft
  BY TypeParts DEF Queues, Others
<1>. DEFINE js == See(jobs, env)
<1>2. /\ Moved(jobs, js, {}, {}, "done")
      /\ \A j \in DOMAIN jobs : /\ jobs[j].kind \in Saving /\ jobs[j].phase \notin Ended => env \in js[j].seen
                                /\ jobs[j].phase \in Ended => js[j].seen = jobs[j].seen
  BY <1>1, SeeFacts
<1>3. jobs' = To(js, {i}, "bootstrap") /\ i \in DOMAIN jobs /\ jobs[i].phase = "read"
  BY DEF ReadPreferences, In
<1>. HIDE DEF js
<1>4. js \in Jobs
  BY <1>2 DEF Moved
<1>5. Moved(js, jobs', {i}, {}, "bootstrap") /\ \A j \in DOMAIN js : jobs'[j].seen = js[j].seen
  BY <1>3, <1>4, ToFacts DEF Phase
<1>6. DOMAIN js = DOMAIN jobs
  BY <1>2 DEF Moved
<1>7. Moved(jobs, jobs', {i}, {}, "bootstrap")
  BY <1>2, <1>5 DEF Moved
<1>. QED BY <1>2, <1>3, <1>5, <1>6, <1>7

LEMMA EditMoves ==
  ASSUME TypeInv, NEW d \in Draft, Edit(d)
  PROVE  /\ Moved(jobs, jobs', {}, {}, "done")
         /\ \A j \in DOMAIN jobs : /\ jobs[j].kind \in Saving /\ jobs[j].phase \notin Ended => d \in jobs'[j].seen
                                   /\ jobs[j].phase \in Ended => jobs'[j].seen = jobs[j].seen
<1>1. jobs \in Jobs /\ jobs' = See(jobs, d)
  BY TypeParts DEF Queues, Edit
<1>. QED BY <1>1, SeeFacts

LEMMA StepMoves ==
  ASSUME TypeInv, NEW i, ReadFails(i) \/ Registry(i) \/ Quit(i)
  PROVE  \E phase \in {"done", "failed", "quit"} :
           /\ Moved(jobs, jobs', {i}, {}, phase) /\ \A j \in DOMAIN jobs : jobs'[j].seen = jobs[j].seen
           /\ i \in DOMAIN jobs /\ jobs[i].phase \in {"read", "bootstrap", "registry", "quit"}
           /\ ReadFails(i) => jobs[i].phase \in {"read", "bootstrap"} /\ phase # "quit"
           /\ Registry(i) => jobs[i].phase = "registry" /\ phase # "done"
           /\ Quit(i) => jobs[i].phase = "quit" /\ phase = "done"
<1>1. jobs \in Jobs
  BY TypeParts DEF Queues
<1>2. ASSUME NEW phase \in {"done", "failed", "quit"}, jobs' = To(jobs, {i}, phase)
      PROVE  Moved(jobs, jobs', {i}, {}, phase) /\ \A j \in DOMAIN jobs : jobs'[j].seen = jobs[j].seen
  BY <1>1, <1>2, ToFacts DEF Phase, Ended
<1>3. CASE ReadFails(i)
  BY <1>2, <1>3 DEF ReadFails, Registry, Quit, In
<1>4. CASE Registry(i)
  BY <1>2, <1>4 DEF ReadFails, Registry, Quit, In
<1>5. CASE Quit(i)
  BY <1>2, <1>5 DEF ReadFails, Registry, Quit, In
<1>. QED BY <1>3, <1>4, <1>5

LEMMA HandlerTypes ==
  ASSUME TypeInv, NEW i, ReadPreferences(i) \/ ReadFails(i) \/ Registry(i) \/ Quit(i)
  PROVE  TypeInv'
<1>1. Others /\ Queues
  BY TypeParts
<1>2. UNCHANGED <<wire, chain, images, current>> /\ copy' \in Draft
  BY <1>1 DEF ReadPreferences, ReadFails, Registry, Quit, adapter, service, renderer, Others, Queues
<1>3. Queues' /\ Linked' /\ Present(wire)' /\ (current # NoName => images[current] # Absent)'
  <2>1. CASE ReadPreferences(i)
    <3>1. Moved(jobs, jobs', {i}, {}, "bootstrap") /\ jobs[i].phase = "read"
      BY <2>1, ReadMoves
    <3>. QED BY <1>2, <3>1, QueuesKept
  <2>2. CASE ~ ReadPreferences(i)
    <3>1. PICK phase : Moved(jobs, jobs', {i}, {}, phase) /\ jobs[i].phase \in {"read", "bootstrap", "registry", "quit"}
      BY <2>2, StepMoves
    <3>. QED BY <1>2, <3>1, QueuesKept
  <2>. QED BY <2>1, <2>2
<1>4. Others'
  BY <1>1 DEF ReadPreferences, ReadFails, Registry, Quit, adapter, service, renderer, counters, Others
<1>. QED BY <1>3, <1>4, TypeNext

LEMMA EditTypes ==
  ASSUME TypeInv, NEW d \in Draft, Edit(d)
  PROVE  TypeInv'
<1>1. Others /\ Queues
  BY TypeParts
<1>2. UNCHANGED <<wire, chain, copy, images, current>>
  BY DEF Edit, adapter, service
<1>3. Queues' /\ Linked' /\ Present(wire)' /\ (current # NoName => images[current] # Absent)'
  BY <1>1, <1>2, EditMoves, QueuesKept DEF Queues
<1>4. Others'
  BY <1>1 DEF Edit, Armed, adapter, service, Others
<1>. QED BY <1>3, <1>4, TypeNext

(* The steps that write to the chain.                                      *)
LEMMA PersistTypes ==
  ASSUME TypeInv, NEW js \in Jobs, Named(js), Owned(js, wire), Chained(js, chain),
         NEW d \in Draft \cup {Same}, NEW owner \in 0..MaxJobs,
         owner # 0 => /\ owner \in DOMAIN js /\ js[owner].phase = "flush" /\ js[owner].kind \in Saving
                      /\ \A k \in DOMAIN chain : chain[k].owner # owner,
         Persist(d, owner, js), UNCHANGED <<images, current>>
  PROVE  Queues' /\ Linked' /\ Present(wire)' /\ (current # NoName => images[current] # Absent)'
<1>1. Queues /\ Linked
  BY TypeParts
<1>2. /\ jobs' \in Jobs /\ wire' \in Seq(Request) /\ chain' \in Seq(Write) /\ copy' \in Draft
      /\ Named(jobs') /\ Owned(jobs', wire') /\ Chained(jobs', chain') /\ OneSet(chain', wire')
      /\ Requested(wire, wire')
  BY <1>1, PersistOwned DEF Queues, Linked
<1>3. Queues' /\ Linked'
  BY <1>2 DEF Queues, Linked
<1>4. Present(wire)'
  BY <1>2, PresentRequested
<1>. QED BY <1>3, <1>4 DEF TypeInv

LEMMA TimerTypes ==
  ASSUME TypeInv, TimerFires
  PROVE  TypeInv'
<1>1. Others /\ Queues /\ Linked
  BY TypeParts
<1>2. Persist(draft, 0, jobs) /\ draft \in Draft \cup {Same} /\ 0 \in 0..MaxJobs /\ UNCHANGED <<images, current>>
  BY <1>1 DEF TimerFires, Others, service
<1>3. Queues' /\ Linked' /\ Present(wire)' /\ (current # NoName => images[current] # Absent)'
  BY <1>1, <1>2, PersistTypes DEF Queues, Linked
<1>4. Others'
  BY <1>1 DEF TimerFires, service, counters, Others
<1>. QED BY <1>3, <1>4, TypeNext

LEMMA BootstrapTypes ==
  ASSUME TypeInv, NEW i, Bootstrap(i)
  PROVE  TypeInv'
<1>1. Others /\ Queues /\ Linked
  BY TypeParts
<1>. DEFINE js == To(jobs, {i}, "done")
<1>2. Moved(jobs, js, {i}, {}, "done")
  BY <1>1, ToFacts DEF Queues, Phase, Ended
<1>3. Persist(Same, 0, js) /\ i \in DOMAIN jobs /\ jobs[i].phase = "bootstrap" /\ UNCHANGED <<images, current>>
  BY DEF Bootstrap, In, service
<1>. HIDE DEF js
<1>4. js \in Jobs /\ Named(js) /\ Owned(js, wire) /\ Chained(js, chain)
  <2>1. js \in Jobs
    BY <1>2 DEF Moved
  <2>2. Named(js)
    BY <1>1, <1>2, NamedMoved DEF Queues, Linked
  <2>3. ASSUME NEW j \in DOMAIN jobs,
               (\E k \in DOMAIN wire : wire[k].owner = j) \/ (\E k \in DOMAIN chain : chain[k].owner = j)
        PROVE  j # i
    <3>1. jobs[j].phase \in {"flush", "save", "load", "revert"}
      BY <2>3, AwaitPhase
    <3>. QED BY <1>3, <3>1
  <2>4. DOMAIN jobs \subseteq DOMAIN js
        /\ \A j \in DOMAIN jobs :
             (\E k \in DOMAIN wire : wire[k].owner = j) \/ (\E k \in DOMAIN chain : chain[k].owner = j) =>
               js[j].phase = jobs[j].phase /\ js[j].kind = jobs[j].kind /\ js[j].name = jobs[j].name
    BY <1>2, <2>3 DEF Moved
  <2>5. Owned(js, wire) /\ Chained(js, chain)
    BY <1>1, <2>1, <2>4, OwnedMoved DEF Queues, Linked
  <2>. QED BY <2>1, <2>2, <2>5
<1>5. Queues' /\ Linked' /\ Present(wire)' /\ (current # NoName => images[current] # Absent)'
  <2>1. Same \in Draft \cup {Same} /\ 0 \in 0..MaxJobs
    OBVIOUS
  <2>. QED BY <1>3, <1>4, <2>1, PersistTypes
<1>6. Others'
  BY <1>1 DEF Bootstrap, service, counters, Others
<1>. QED BY <1>5, <1>6, TypeNext

LEMMA SaveAndQuitTypes ==
  ASSUME TypeInv, NEW kind \in Saving, NEW n \in Name, SaveAndQuit(kind, n)
  PROVE  TypeInv'
<1>1. Others
  BY TypeParts
<1>. DEFINE js == Started(kind, "flush", n)
<1>2. CanStart /\ Persist(draft, Me, js) /\ UNCHANGED <<images, current>>
  BY DEF SaveAndQuit, FlushThenSave, service
<1>3. /\ js \in Jobs /\ Me \in DOMAIN js /\ Me \in 1..MaxJobs
      /\ js[Me].kind = kind /\ js[Me].phase = "flush"
      /\ Named(js) /\ Owned(js, wire) /\ Chained(js, chain)
      /\ \A k \in DOMAIN chain : chain[k].owner # Me
  <2>1. kind \in Startup \cup Exit /\ "flush" \in Phase /\ n \in Name \cup {NoName} /\ (kind # "discard" => n \in Name)
    BY DEF Saving, Exit, Phase
  <2>. QED BY <1>2, <2>1, StartedLinked
<1>. HIDE DEF js
<1>4. Queues' /\ Linked' /\ Present(wire)' /\ (current # NoName => images[current] # Absent)'
  <2>1. draft \in Draft \cup {Same} /\ Me \in 0..MaxJobs
    BY <1>1, <1>3 DEF Others
  <2>. QED BY <1>2, <1>3, <2>1, PersistTypes
<1>5. Others'
  BY <1>1 DEF SaveAndQuit, service, counters, Others
<1>. QED BY <1>4, <1>5, TypeNext

(* A reload forgets who waits.                                             *)
LEMMA DisownedWire ==
  ASSUME NEW w \in Seq(Request)
  PROVE  /\ Disown(w) \in Seq(Request) /\ DOMAIN Disown(w) = DOMAIN w
         /\ \A k \in DOMAIN w :
              /\ Disown(w)[k].owner = 0 /\ Disown(w)[k].kind = w[k].kind /\ Disown(w)[k].name = w[k].name
              /\ Disown(w)[k].draft = w[k].draft /\ Disown(w)[k].answer = w[k].answer
<1>. DEFINE new == Disown(w)
<1>1. DOMAIN w = 1..Len(w) /\ Len(w) \in Nat
  BY LenProperties
<1>2. DOMAIN new = DOMAIN w /\ \A k \in DOMAIN w : new[k] = [w[k] EXCEPT !.owner = 0]
  BY DEF Disown
<1>3. new = [k \in 1..Len(w) |-> new[k]]
  BY <1>1 DEF Disown
<1>. HIDE DEF new
<1>4. ASSUME NEW k \in DOMAIN w
      PROVE  /\ new[k] \in Request /\ new[k].owner = 0 /\ new[k].kind = w[k].kind /\ new[k].name = w[k].name
             /\ new[k].draft = w[k].draft /\ new[k].answer = w[k].answer
  <2>1. w[k] \in Request /\ 0 \in 0..MaxJobs
    BY MemberType
  <2>. QED BY <1>2, <2>1 DEF Request
<1>5. new \in Seq(Request)
  BY <1>1, <1>3, <1>4, SeqDef
<1>. QED BY <1>2, <1>4, <1>5 DEF new

LEMMA DisownedChain ==
  ASSUME NEW ch \in Seq(Write)
  PROVE  /\ Disown(ch) \in Seq(Write) /\ DOMAIN Disown(ch) = DOMAIN ch /\ (ch = <<>> <=> Disown(ch) = <<>>)
         /\ \A k \in DOMAIN ch : Disown(ch)[k].owner = 0 /\ Disown(ch)[k].draft = ch[k].draft
<1>. DEFINE new == Disown(ch)
<1>1. DOMAIN ch = 1..Len(ch) /\ Len(ch) \in Nat
  BY LenProperties
<1>2. DOMAIN new = DOMAIN ch /\ \A k \in DOMAIN ch : new[k] = [ch[k] EXCEPT !.owner = 0]
  BY DEF Disown
<1>3. new = [k \in 1..Len(ch) |-> new[k]]
  BY <1>1 DEF Disown
<1>. HIDE DEF new
<1>4. ASSUME NEW k \in DOMAIN ch
      PROVE  new[k] \in Write /\ new[k].owner = 0 /\ new[k].draft = ch[k].draft
  <2>1. ch[k] \in Write /\ 0 \in 0..MaxJobs
    BY MemberType
  <2>. QED BY <1>2, <2>1 DEF Write
<1>5. new \in Seq(Write)
  BY <1>1, <1>3, <1>4, SeqDef
<1>6. ch = <<>> <=> new = <<>>
  BY <1>2, <1>5, EmptyFacts
<1>. QED BY <1>2, <1>4, <1>5, <1>6 DEF new

LEMMA ReloadMoves ==
  ASSUME TypeInv, Reload
  PROVE  /\ Moved(jobs, jobs', {i \in DOMAIN jobs : Active(i)}, {}, "dropped")
         /\ \A i \in DOMAIN jobs : jobs'[i].seen = jobs[i].seen
         /\ \A i \in DOMAIN jobs : jobs'[i].phase \in Ended
         /\ wire' = Disown(wire) /\ chain' = Disown(chain)
<1>1. jobs \in Jobs
  BY TypeParts DEF Queues
<1>. DEFINE S == {i \in DOMAIN jobs : Active(i)}
<1>2. \A i \in DOMAIN jobs : i \notin S => jobs[i].phase \in Ended
  BY DEF Active
<1>3. jobs' = To(jobs, S, "dropped") /\ wire' = Disown(wire) /\ chain' = Disown(chain)
  BY DEF Reload
<1>. HIDE DEF S
<1>4. Moved(jobs, jobs', S, {}, "dropped") /\ \A i \in DOMAIN jobs : jobs'[i].seen = jobs[i].seen
  BY <1>1, <1>3, ToFacts DEF Phase, Ended
<1>5. \A i \in DOMAIN jobs : jobs'[i].phase \in Ended
  BY <1>2, <1>4 DEF Moved, Ended
<1>. QED BY <1>3, <1>4, <1>5 DEF S

LEMMA ReloadTypes ==
  ASSUME TypeInv, Reload
  PROVE  TypeInv'
<1>1. Others /\ Queues /\ Linked
  BY TypeParts
<1>2. Moved(jobs, jobs', {i \in DOMAIN jobs : Active(i)}, {}, "dropped")
  BY ReloadMoves
<1>3. /\ wire' \in Seq(Request) /\ DOMAIN wire' = DOMAIN wire
      /\ \A k \in DOMAIN wire :
           /\ wire'[k].owner = 0 /\ wire'[k].kind = wire[k].kind /\ wire'[k].name = wire[k].name
           /\ wire'[k].draft = wire[k].draft
  BY <1>1, ReloadMoves, DisownedWire DEF Queues
<1>4. /\ chain' \in Seq(Write) /\ DOMAIN chain' = DOMAIN chain /\ (chain = <<>> <=> chain' = <<>>)
      /\ \A k \in DOMAIN chain : chain'[k].owner = 0 /\ chain'[k].draft = chain[k].draft
  BY <1>1, ReloadMoves, DisownedChain DEF Queues
<1>5. UNCHANGED <<copy, images, current>>
  BY DEF Reload, service
<1>6. Named(jobs')
  BY <1>1, <1>2, NamedMoved DEF Queues, Linked
<1>7. OneSet(chain', wire')
  <2>1. chain # <<>> => 1 \in DOMAIN chain
    BY <1>1, EmptyFacts DEF Queues
  <2>2. OneSet(chain, wire)
    BY <1>1 DEF Linked
  <2>3. \A k \in DOMAIN wire' : wire'[k].kind = "set" =>
          /\ chain' # <<>> /\ wire'[k].owner = chain'[1].owner
          /\ chain'[1].draft # Same => wire'[k].draft = chain'[1].draft
    BY <1>3, <1>4, <2>1, <2>2 DEF OneSet
  <2>4. \A j, k \in DOMAIN wire' : wire'[j].kind = "set" /\ wire'[k].kind = "set" => j = k
    BY <1>3, <2>2 DEF OneSet
  <2>5. chain' # <<>> => ~ NoSet(wire')
    BY <1>3, <1>4, <2>2 DEF OneSet, NoSet
  <2>. QED BY <2>3, <2>4, <2>5 DEF OneSet
<1>8. Owned(jobs', wire') /\ Chained(jobs', chain')
  BY <1>3, <1>4 DEF Owned, Chained
<1>9. Queues' /\ Linked'
  <2>1. jobs' \in Jobs
    BY <1>2 DEF Moved
  <2>. QED BY <1>1, <1>3, <1>4, <1>5, <1>6, <1>7, <1>8, <2>1 DEF Queues, Linked
<1>10. Present(wire)'
  <2>1. Present(wire)
    BY TypeParts
  <2>. QED BY <1>3, <1>5, <2>1 DEF Present
<1>11. Others'
  <2>1. astray' \in BOOLEAN
    BY DEF Reload
  <2>2. reloads' \in 0..MaxReloads
    BY <1>1 DEF Reload, Others
  <2>. QED BY <1>1, <2>1, <2>2 DEF Reload, service, Others
<1>. QED BY <1>5, <1>9, <1>10, <1>11, TypeNext DEF TypeInv

(* The service answers the first request that has none.                    *)
Answer(k, answer) ==
  /\ k \in DOMAIN wire /\ wire[k].answer = "none" /\ (\A l \in 1..(k - 1) : wire[l].answer # "none")
  /\ wire' = [wire EXCEPT ![k].answer = answer]
  /\ \/ answer = "ok" /\ ~ Refused(wire[k]) /\ Perform(wire[k])
     \/ answer = "error" /\ UNCHANGED service

LEMMA ServeAnswers ==
  ASSUME Serve
  PROVE  /\ \E k \in DOMAIN wire, answer \in {"ok", "error"} : Answer(k, answer)
         /\ UNCHANGED <<window, renderer, jobs, adapter, counters>>
BY DEF Serve, Answer

LEMMA AnswerFacts ==
  ASSUME TypeInv, NEW k, NEW answer \in {"ok", "error"}, Answer(k, answer)
  PROVE  /\ wire' \in Seq(Request) /\ DOMAIN wire' = DOMAIN wire
         /\ \A l \in DOMAIN wire :
              /\ wire'[l].kind = wire[l].kind /\ wire'[l].name = wire[l].name
              /\ wire'[l].owner = wire[l].owner /\ wire'[l].draft = wire[l].draft
              /\ wire'[l].answer = IF l = k THEN answer ELSE wire[l].answer
<1>1. wire \in Seq(Request) /\ k \in DOMAIN wire /\ wire' = [wire EXCEPT ![k].answer = answer]
  BY TypeParts DEF Queues, Answer
<1>2. DOMAIN wire = 1..Len(wire) /\ Len(wire) \in Nat
  BY <1>1, LenProperties
<1>3. DOMAIN wire' = DOMAIN wire /\ wire' = [l \in 1..Len(wire) |-> wire'[l]]
  BY <1>1, <1>2
<1>4. ASSUME NEW l \in DOMAIN wire
      PROVE  /\ wire'[l] \in Request
             /\ wire'[l].kind = wire[l].kind /\ wire'[l].name = wire[l].name
             /\ wire'[l].owner = wire[l].owner /\ wire'[l].draft = wire[l].draft
             /\ wire'[l].answer = IF l = k THEN answer ELSE wire[l].answer
  <2>1. wire[l] \in Request
    BY <1>1, MemberType
  <2>2. wire'[l] = IF l = k THEN [wire[l] EXCEPT !.answer = answer] ELSE wire[l]
    BY <1>1
  <2>. QED BY <2>1, <2>2 DEF Request
<1>5. wire' \in Seq(Request)
  BY <1>2, <1>3, <1>4, SeqDef
<1>. QED BY <1>3, <1>4, <1>5

(* What the service makes of the environment and the images.               *)
LEMMA ServiceTypes ==
  ASSUME TypeInv, NEW k, NEW answer \in {"ok", "error"}, Answer(k, answer)
  PROVE  /\ env' \in Draft /\ images' \in [Name -> Draft \cup {Absent}] /\ current' \in Name \cup {NoName}
         /\ current' # NoName => images'[current'] # Absent
         /\ \A n \in Name : images[n] # Absent => images'[n] # Absent
<1>1. /\ env \in Draft /\ images \in [Name -> Draft \cup {Absent}] /\ current \in Name \cup {NoName}
      /\ current # NoName => images[current] # Absent
  BY TypeParts DEF Others
<1>2. CASE UNCHANGED service
  BY <1>1, <1>2 DEF service
<1>3. CASE ~ Refused(wire[k]) /\ Perform(wire[k])
  <2>. DEFINE e == wire[k]
  <2>1. /\ e \in Request /\ (e.kind \in {"load", "save"} => e.name \in Name)
        /\ e.kind = "load" => images[e.name] # Absent
    <3>1. wire \in Seq(Request) /\ Present(wire) /\ k \in DOMAIN wire
      BY TypeParts DEF Queues, Answer
    <3>. QED BY <3>1, MemberType DEF Present
  <2>2. ~ Refused(e) /\ Perform(e)
    BY <1>3
  <2>. HIDE DEF e
  <2>3. CASE e.kind = "set"
    <3>1. env' = e.draft /\ UNCHANGED <<images, current>>
      BY <2>2, <2>3 DEF Perform
    <3>. QED BY <1>1, <2>1, <3>1 DEF Request
  <2>4. CASE e.kind = "save"
    <3>1. images' = [images EXCEPT ![e.name] = env] /\ current' = e.name /\ env' = env
      BY <2>2, <2>4 DEF Perform
    <3>. QED BY <1>1, <2>1, <2>4, <3>1
  <2>5. CASE e.kind = "revert"
    <3>1. env' = images[current] /\ UNCHANGED <<images, current>> /\ current # NoName
      BY <2>2, <2>5 DEF Perform, Refused
    <3>. QED BY <1>1, <3>1
  <2>6. CASE e.kind = "load"
    <3>1. env' = images[e.name] /\ current' = e.name /\ UNCHANGED images
      BY <2>2, <2>6 DEF Perform
    <3>. QED BY <1>1, <2>1, <2>6, <3>1
  <2>. QED BY <2>1, <2>3, <2>4, <2>5, <2>6 DEF Request
<1>. QED BY <1>2, <1>3 DEF Answer

LEMMA ServeTypes ==
  ASSUME TypeInv, Serve
  PROVE  TypeInv'
<1>1. Others /\ Queues /\ Linked
  BY TypeParts
<1>2. UNCHANGED <<window, renderer, jobs, adapter, counters>>
  BY ServeAnswers
<1>3. PICK k \in DOMAIN wire, answer \in {"ok", "error"} : Answer(k, answer)
  BY ServeAnswers
<1>4. /\ wire' \in Seq(Request) /\ DOMAIN wire' = DOMAIN wire
      /\ \A l \in DOMAIN wire :
           /\ wire'[l].kind = wire[l].kind /\ wire'[l].name = wire[l].name
           /\ wire'[l].owner = wire[l].owner /\ wire'[l].draft = wire[l].draft
  BY <1>3, AnswerFacts
<1>5. /\ env' \in Draft /\ images' \in [Name -> Draft \cup {Absent}] /\ current' \in Name \cup {NoName}
      /\ current' # NoName => images'[current'] # Absent
      /\ \A n \in Name : images[n] # Absent => images'[n] # Absent
  BY <1>3, ServiceTypes
<1>6. Owned(jobs', wire') /\ Chained(jobs', chain')
  BY <1>1, <1>2, <1>4 DEF Linked, Owned, Chained, adapter
<1>7. OneSet(chain', wire')
  BY <1>1, <1>2, <1>4 DEF Linked, OneSet, NoSet, adapter
<1>8. Queues' /\ Linked'
  BY <1>1, <1>2, <1>4, <1>6, <1>7 DEF Queues, Linked, adapter
<1>9. Present(wire)'
  <2>1. Present(wire)
    BY TypeParts
  <2>. QED BY <1>4, <1>5, <2>1 DEF Present
<1>10. Others'
  BY <1>1, <1>2, <1>5 DEF Others, renderer, adapter, counters
<1>. QED BY <1>5, <1>8, <1>9, <1>10, TypeNext

(* Answers arrive, and the child may be lost.                              *)
LEMMA SaveSwallows ==
  ASSUME NEW e, DeliverSave(e)
  PROVE  /\ \E swallowed \in SUBSET Reading :
              /\ e.answer # "ok" => swallowed = {}
              /\ \A i \in swallowed : jobs[i].phase # "registry"
              /\ e.answer = "ok" => jobs' = Interrupted(Answered(e), swallowed)
              /\ e.answer # "ok" => jobs' = Answered(e)
              /\ view' = (IF swallowed = {} THEN view ELSE "shell")
              /\ known' = (IF swallowed = {} THEN known ELSE current)
         /\ e.kind = "save" /\ wire' = Tail(wire) /\ UNCHANGED <<chain, copy, astray>>
         /\ hydrated' = (hydrated /\ ~ Reloads(e))
BY DEF DeliverSave, adapter

LEMMA TransitionSwallows ==
  ASSUME NEW e, DeliverTransition(e)
  PROVE  /\ \E swallowed \in SUBSET Reading :
              /\ Reject(Tail(wire), Delivered(e, swallowed))
              /\ \A i \in swallowed : jobs[i].phase # "registry"
              /\ view' = (IF swallowed = {} THEN view ELSE "shell")
              /\ known' = (IF swallowed = {} THEN known ELSE current)
         /\ e.kind \in {"load", "revert"}
         /\ hydrated' = (hydrated /\ ~ Reloads(e))
BY DEF DeliverTransition, Delivered

LEMMA DeliverTypes ==
  ASSUME TypeInv, Deliver
  PROVE  TypeInv'
<1>1. Others
  BY TypeParts
<1>. DEFINE e == Head(wire)
<1>2. /\ wire # <<>> /\ (DeliverWrite(e) \/ DeliverSave(e) \/ DeliverTransition(e))
      /\ UNCHANGED <<window, exitDialog, draft, timer, env, images, current, edits, reloads>>
  BY DEF Deliver, service, counters
<1>. HIDE DEF e
<1>3. e = Head(wire)
  BY DEF e
<1>4. /\ Queues' /\ Linked' /\ Requested(wire, wire')
      /\ view' \in {"loading", "stuck", "chooser", "create", "shell"} /\ hydrated' \in BOOLEAN
      /\ known' \in Name \cup {NoName} /\ astray' \in BOOLEAN
  <2>1. CASE DeliverWrite(e)
    <3>1. Queues' /\ Linked' /\ Requested(wire, wire')
      BY <1>2, <1>3, <2>1, WriteDelivered
    <3>2. UNCHANGED <<view, hydrated, known, astray>>
      BY <2>1 DEF DeliverWrite
    <3>. QED BY <1>1, <3>1, <3>2 DEF Others
  <2>2. CASE DeliverSave(e)
    <3>1. PICK swallowed \in SUBSET Reading :
             /\ e.answer # "ok" => swallowed = {}
             /\ e.answer = "ok" => jobs' = Interrupted(Answered(e), swallowed)
             /\ e.answer # "ok" => jobs' = Answered(e)
             /\ view' = (IF swallowed = {} THEN view ELSE "shell")
             /\ known' = (IF swallowed = {} THEN known ELSE current)
      BY <2>2, SaveSwallows
    <3>2. /\ e.kind = "save" /\ wire' = Tail(wire) /\ UNCHANGED <<chain, copy, astray>>
          /\ hydrated' = (hydrated /\ ~ Reloads(e))
      BY <2>2, SaveSwallows
    <3>3. Queues' /\ Linked' /\ Requested(wire, wire')
      BY <1>2, <1>3, <3>1, <3>2, SaveDelivered
    <3>4. hydrated' \in BOOLEAN
      BY <3>2
    <3>. QED BY <1>1, <3>1, <3>2, <3>3, <3>4 DEF Others
  <2>3. CASE DeliverTransition(e)
    <3>1. PICK swallowed \in SUBSET Reading :
             /\ Reject(Tail(wire), Delivered(e, swallowed))
             /\ view' = (IF swallowed = {} THEN view ELSE "shell")
             /\ known' = (IF swallowed = {} THEN known ELSE current)
      BY <2>3, TransitionSwallows
    <3>2. e.kind \in {"load", "revert"} /\ hydrated' = (hydrated /\ ~ Reloads(e))
      BY <2>3, TransitionSwallows
    <3>3. /\ Queues' /\ Linked' /\ Requested(wire, wire')
          /\ astray' = (astray \/ \E k \in DOMAIN Tail(wire) : Tail(wire)[k].kind = "set")
      BY <1>2, <1>3, <3>1, <3>2, TransitionDelivered
    <3>4. hydrated' \in BOOLEAN
      BY <3>2
    <3>5. astray' \in BOOLEAN
      BY <3>3
    <3>. QED BY <1>1, <3>1, <3>3, <3>4, <3>5 DEF Others
  <2>. QED BY <1>2, <2>1, <2>2, <2>3
<1>5. Present(wire)'
  BY <1>2, <1>4, PresentRequested
<1>6. Others'
  BY <1>1, <1>2, <1>4 DEF Others
<1>. QED BY <1>2, <1>4, <1>5, <1>6, TypeNext DEF TypeInv

LEMMA LostTypes ==
  ASSUME TypeInv, LoseChild
  PROVE  TypeInv'
<1>1. Others
  BY TypeParts
<1>2. /\ Queues' /\ Linked' /\ Requested(wire, wire')
      /\ astray' = (astray \/ \E k \in DOMAIN wire : wire[k].kind = "set")
  BY ChildLost
<1>3. UNCHANGED <<window, view, exitDialog, draft, timer, hydrated, known, service, counters>>
  BY DEF LoseChild
<1>4. Present(wire)'
  BY <1>2, <1>3, PresentRequested DEF service
<1>5. Others'
  <2>1. astray' \in BOOLEAN
    BY <1>2
  <2>. QED BY <1>1, <1>3, <2>1 DEF Others, service, counters
<1>. QED BY <1>2, <1>3, <1>4, <1>5, TypeNext DEF TypeInv, service
-----------------------------------------------------------------------------
LEMMA TypeInit ==
  ASSUME Init
  PROVE  TypeInv
<1>1. /\ jobs = <<>> /\ wire = <<>> /\ chain = <<>> /\ <<>> \in Seq(Job) /\ <<>> \in Seq(Request)
      /\ <<>> \in Seq(Write) /\ Len(<<>>) = 0 /\ DOMAIN <<>> = {}
  BY EmptySeq DEF Init
<1>2. TypeOK
  <2>1. jobs \in Seq(Job) /\ Len(jobs) <= MaxJobs /\ wire \in Seq(Request) /\ chain \in Seq(Write)
    BY <1>1
  <2>2. /\ env \in Draft /\ images \in [Name -> Draft \cup {Absent}] /\ current \in Name \cup {NoName}
        /\ edits \in 0..MaxEdits /\ reloads \in 0..MaxReloads
    BY DEF Init
  <2>. QED BY <2>1, <2>2 DEF Init, Mounted, TypeOK
<1>3. Named(jobs) /\ Owned(jobs, wire) /\ Chained(jobs, chain) /\ OneSet(chain, wire) /\ Present(wire)
  BY <1>1 DEF Named, Owned, Chained, OneSet, Present
<1>4. current # NoName => images[current] # Absent
  BY DEF Init
<1>. QED BY <1>2, <1>3, <1>4 DEF TypeInv

\* One step of each action.
LEMMA TypeStep ==
  ASSUME TypeInv, [Next]_vars
  PROVE  TypeInv'
<1>1. CASE UNCHANGED vars
  BY <1>1 DEF vars, renderer, adapter, service, counters, TypeInv, TypeOK, Present
<1>2. CASE \/ ShowChooser \/ OpenCreateDialog \/ BackToImages \/ RequestQuit \/ Cancel
  BY <1>2, ViewTypes
<1>3. CASE \E n \in Name : OpenImage(n) \/ CreateImage(n)
  BY <1>3, OpenTypes, CreateTypes
<1>4. CASE \E i \in 1..MaxJobs : ReadPreferences(i) \/ Bootstrap(i) \/ ReadFails(i) \/ Registry(i) \/ Quit(i)
  BY <1>4, HandlerTypes, BootstrapTypes
<1>5. CASE \E d \in Draft : Edit(d)
  BY <1>5, EditTypes
<1>6. CASE TimerFires \/ Discard \/ Reload
  BY <1>6, TimerTypes, DiscardTypes, ReloadTypes
<1>7. CASE \E kind \in Saving, n \in Name : SaveAndQuit(kind, n)
  BY <1>7, SaveAndQuitTypes
<1>8. CASE Serve \/ Deliver \/ LoseChild
  BY <1>8, ServeTypes, DeliverTypes, LostTypes
<1>. QED BY <1>1, <1>2, <1>3, <1>4, <1>5, <1>6, <1>7, <1>8 DEF Next

LEMMA TypesInvariant == Spec => []TypeInv
<1>1. Init => TypeInv
  BY TypeInit
<1>2. TypeInv /\ [Next]_vars => TypeInv'
  BY TypeStep
<1>. QED BY <1>1, <1>2, PTL DEF Spec

(* Every variable keeps its type, whatever the handlers do to each other:  *)
(* in particular nothing is read of an image that is not there, so that    *)
(* the texts of the environment and of the screen are texts.               *)
THEOREM TypeCorrect == Spec => []TypeOK
<1>1. TypeInv => TypeOK
  BY DEF TypeInv
<1>. QED BY <1>1, TypesInvariant, PTL
-----------------------------------------------------------------------------
(* What the steps do, case by case.                                        *)
Live(js, i) == i \in DOMAIN js /\ js[i].phase \notin Ended

\* A step that starts no handler, and brings none back.
Follows(old, new) ==
  /\ DOMAIN new = DOMAIN old
  /\ \A i \in DOMAIN old :
       /\ new[i].kind = old[i].kind /\ new[i].name = old[i].name /\ new[i].alone = old[i].alone
       /\ old[i].seen \subseteq new[i].seen
       /\ new[i].clean => old[i].clean
       /\ old[i].phase \in Ended => new[i].phase = old[i].phase

LEMMA MovedFollows ==
  ASSUME NEW old, NEW new, NEW S, NEW C, NEW phase, Moved(old, new, S, C, phase),
         \A i \in S \cap DOMAIN old : old[i].phase \notin Ended
  PROVE  Follows(old, new)
BY DEF Moved, Follows

\* A step that starts one.
Begins(old, new, kind, phase, name) ==
  /\ new \in Jobs /\ \A i : i \in DOMAIN new <=> i \in DOMAIN old \/ i = Me
  /\ Me \notin DOMAIN old /\ Me \in 1..MaxJobs /\ Me # 0
  /\ \A i \in DOMAIN old :
       /\ new[i].kind = old[i].kind /\ new[i].name = old[i].name
       /\ new[i].phase = old[i].phase /\ new[i].seen = old[i].seen
       /\ new[i].clean = old[i].clean
       /\ new[i].alone <=> old[i].alone /\ ~ Live(old, i)
  /\ new[Me].kind = kind /\ new[Me].name = name /\ new[Me].phase = phase
  /\ new[Me].clean /\ (new[Me].alone <=> \A i \in DOMAIN old : ~ Live(old, i))
  /\ kind \in Saving => \A d : d \in new[Me].seen <=> d = draft

LEMMA StartedBegins ==
  ASSUME TypeInv, CanStart, NEW kind \in Startup \cup Exit, NEW phase \in Phase, NEW name \in Name \cup {NoName}
  PROVE  Begins(jobs, Started(kind, phase, name), kind, phase, name)
<1>. DEFINE js == Started(kind, phase, name)
<1>1. jobs \in Jobs /\ draft \in Draft /\ Len(jobs) < MaxJobs
  BY TypeParts DEF Queues, Others, CanStart
<1>2. js = Started(kind, phase, name)
  OBVIOUS
<1>. HIDE DEF js
<1>3. /\ js \in Jobs /\ \A i : i \in DOMAIN js <=> i \in DOMAIN jobs \/ i = Me
      /\ Me \notin DOMAIN jobs /\ Me \in 1..MaxJobs /\ Me \in Nat \ {0}
      /\ \A i \in DOMAIN jobs :
           /\ js[i].kind = jobs[i].kind /\ js[i].name = jobs[i].name
           /\ js[i].phase = jobs[i].phase /\ js[i].seen = jobs[i].seen
           /\ js[i].clean = jobs[i].clean
           /\ js[i].alone <=> jobs[i].alone /\ ~ Active(i)
      /\ js[Me].kind = kind /\ js[Me].name = name /\ js[Me].phase = phase
      /\ js[Me].clean /\ (js[Me].alone <=> ~ Busy)
      /\ kind \in Saving => \A d : d \in js[Me].seen <=> d = draft
  BY <1>1, <1>2, StartedFacts
<1>4. /\ \A i : Active(i) <=> Live(jobs, i)
      /\ Busy <=> \E i \in DOMAIN jobs : Live(jobs, i)
  BY DEF Active, Live, Busy
<1>5. Begins(jobs, js, kind, phase, name)
  BY <1>3, <1>4 DEF Begins
<1>. QED BY <1>5 DEF js

\* Three ways for a write: behind the others, into the copy alone, or to the service.
Queued(d, owner, js) ==
  /\ chain # <<>> /\ chain' = Append(chain, [draft |-> d, owner |-> owner])
  /\ copy' = copy /\ wire' = wire /\ jobs' = js

Copied(d, owner, js) ==
  /\ chain = <<>> /\ Loading(wire) /\ chain' = <<>>
  /\ copy' = IF d = Same THEN copy ELSE d
  /\ Moved(js, jobs', {owner} \ {0}, {}, "save") /\ \A i \in DOMAIN js : jobs'[i].seen = js[i].seen
  /\ Behind(wire, Saves(js, {owner} \ {0}), wire')

Sent(d, owner, js) ==
  /\ chain = <<>> /\ ~ Loading(wire) /\ chain' = <<[draft |-> d, owner |-> owner]>> /\ copy' = copy
  /\ Moved(js, jobs', {}, {}, "save") /\ \A i \in DOMAIN js : jobs'[i].seen = js[i].seen
  /\ \E e \in Request :
       /\ e.kind = "set" /\ e.owner = owner /\ e.answer = "none"
       /\ e.draft = IF d = Same THEN copy ELSE d
       /\ Behind(wire, {e}, wire')

LEMMA PersistCases ==
  ASSUME TypeInv, NEW js \in Jobs, Named(js),
         NEW d \in Draft \cup {Same}, NEW owner \in 0..MaxJobs,
         owner # 0 => owner \in DOMAIN js /\ js[owner].kind \in Saving,
         Persist(d, owner, js)
  PROVE  Queued(d, owner, js) \/ Copied(d, owner, js) \/ Sent(d, owner, js)
<1>. DEFINE w == [draft |-> d, owner |-> owner]
            ch == <<w>>
<1>1. w \in Write /\ w.owner = owner /\ w.draft = d
  BY DEF Write
<1>2. wire \in Seq(Request) /\ chain \in Seq(Write) /\ copy \in Draft
  BY TypeParts DEF Queues
<1>3. CASE chain # <<>>
  BY <1>3 DEF Persist, Queued
<1>4. CASE chain = <<>>
  <2>1. Proceed(ch, wire, copy, {}, js)
    BY <1>4 DEF Persist
  <2>2. ch \in Seq(Write) /\ ch # <<>> /\ DOMAIN ch = {1} /\ ch[1] = w
        /\ LastText(copy, ch) = IF d = Same THEN copy ELSE d
    <3>. HIDE DEF w
    <3>. QED BY <1>1, LastOfOne
  <2>. HIDE DEF ch, w
  <2>3. Owners(ch) = {owner} \ {0}
    BY <1>1, <2>2 DEF Owners
  <2>. DEFINE ready == Ready(ch, wire, {})
  <2>4. ready = IF Loading(wire) THEN {owner} \ {0} ELSE {}
    BY <2>3 DEF Ready
  <2>5. ready \subseteq DOMAIN js /\ \A i \in ready : js[i].name \in Name
    BY <2>4 DEF Named, Saving
  <2>6. /\ chain' = IF Loading(wire) THEN <<>> ELSE ch
        /\ copy' = IF Loading(wire) THEN LastText(copy, ch) ELSE copy
        /\ Moved(js, jobs', ready, {}, "save")
        /\ \A i \in DOMAIN js : jobs'[i].seen = js[i].seen
        /\ Behind(wire, NextSet(ch, wire, copy) \cup Saves(js, ready), wire')
    BY <1>2, <2>1, <2>2, <2>5, Proceeds
  <2>7. CASE Loading(wire)
    <3>1. NextSet(ch, wire, copy) = {} /\ ready = {owner} \ {0}
      BY <2>4, <2>7 DEF NextSet
    <3>. HIDE DEF ready
    <3>2. Behind(wire, Saves(js, {owner} \ {0}), wire') /\ Moved(js, jobs', {owner} \ {0}, {}, "save")
      BY <2>6, <3>1
    <3>. QED BY <1>4, <2>2, <2>6, <2>7, <3>2 DEF Copied
  <2>8. CASE ~ Loading(wire)
    <3>1. ready = {} /\ Saves(js, {}) = {}
      BY <2>4, <2>8 DEF Saves
    <3>. HIDE DEF ready
    <3>2. Behind(wire, NextSet(ch, wire, copy), wire') /\ Moved(js, jobs', {}, {}, "save")
      BY <2>6, <3>1
    <3>3. PICK e \in NextSet(ch, wire, copy) : TRUE
      BY <2>2, <2>8 DEF NextSet
    <3>4. /\ e \in Request /\ e.kind = "set" /\ e.owner = owner /\ e.answer = "none"
          /\ e.draft = IF d = Same THEN copy ELSE d
          /\ NextSet(ch, wire, copy) = {e}
      BY <1>1, <1>2, <2>2, SetType
    <3>5. Behind(wire, {e}, wire')
      BY <3>2, <3>4
    <3>6. chain' = <<[draft |-> d, owner |-> owner]>> /\ copy' = copy
      BY <2>6, <2>8 DEF ch, w
    <3>. QED BY <1>4, <2>6, <2>8, <3>2, <3>4, <3>5, <3>6 DEF Sent
  <2>. QED BY <2>7, <2>8
<1>. QED BY <1>3, <1>4

(* In each case the text that is written is then the last one.             *)
LEMMA PersistLast ==
  ASSUME TypeInv, NEW js, NEW d \in Draft \cup {Same}, NEW owner \in 0..MaxJobs,
         Queued(d, owner, js) \/ Copied(d, owner, js) \/ Sent(d, owner, js)
  PROVE  LastText(copy', chain') = IF d = Same THEN LastText(copy, chain) ELSE d
<1>. DEFINE w == [draft |-> d, owner |-> owner]
<1>1. w \in Write /\ w.draft = d /\ chain \in Seq(Write)
  BY TypeParts DEF Write, Queues
<1>2. \A text : LastText(text, <<>>) = text
  BY LastNone DEF Texts
<1>3. CASE Queued(d, owner, js)
  <2>1. chain' = Append(chain, w) /\ copy' = copy
    BY <1>3 DEF Queued
  <2>. HIDE DEF w
  <2>. QED BY <1>1, <2>1, LastAppended
<1>4. CASE Copied(d, owner, js)
  BY <1>2, <1>4 DEF Copied
<1>5. CASE Sent(d, owner, js)
  <2>1. chain' = <<w>> /\ copy' = copy /\ chain = <<>>
    BY <1>5 DEF Sent
  <2>. HIDE DEF w
  <2>. QED BY <1>1, <1>2, <2>1, LastOfOne
<1>. QED BY <1>3, <1>4, <1>5

\* The write of a handler that is none, or that of a handler that has just begun.
LEMMA PersistMoves ==
  ASSUME NEW js \in Jobs, NEW d, NEW owner,
         Queued(d, owner, js) \/ Copied(d, owner, js) \/ Sent(d, owner, js)
  PROVE  /\ \E S \in SUBSET ({owner} \ {0}) : Moved(js, jobs', S, {}, "save")
         /\ \A i \in DOMAIN js : jobs'[i].seen = js[i].seen
<1>1. Moved(js, js, {}, {}, "save")
  BY DEF Moved
<1>2. CASE Queued(d, owner, js)
  <2>1. jobs' = js
    BY <1>2 DEF Queued
  <2>2. Moved(js, jobs', {}, {}, "save")
    BY <1>1, <2>1
  <2>. QED BY <2>1, <2>2
<1>3. CASE Copied(d, owner, js)
  BY <1>3 DEF Copied
<1>4. CASE Sent(d, owner, js)
  <2>1. Moved(js, jobs', {}, {}, "save") /\ \A i \in DOMAIN js : jobs'[i].seen = js[i].seen
    BY <1>4 DEF Sent
  <2>. QED BY <2>1
<1>. QED BY <1>2, <1>3, <1>4

LEMMA TimerMoves ==
  ASSUME TypeInv, TimerFires
  PROVE  /\ Queued(draft, 0, jobs) \/ Copied(draft, 0, jobs) \/ Sent(draft, 0, jobs)
         /\ Moved(jobs, jobs', {}, {}, "save") /\ \A i \in DOMAIN jobs : jobs'[i].seen = jobs[i].seen
<1>1. Persist(draft, 0, jobs) /\ draft \in Draft \cup {Same} /\ 0 \in 0..MaxJobs /\ jobs \in Jobs /\ Named(jobs)
  BY TypeParts DEF TimerFires, Others, Queues, Linked
<1>2. Queued(draft, 0, jobs) \/ Copied(draft, 0, jobs) \/ Sent(draft, 0, jobs)
  BY <1>1, PersistCases
<1>3. \E S \in SUBSET ({0} \ {0}) : Moved(jobs, jobs', S, {}, "save")
  BY <1>1, <1>2, PersistMoves
<1>4. SUBSET ({0} \ {0}) = {{}}
  OBVIOUS
<1>5. Moved(jobs, jobs', {}, {}, "save")
  BY <1>3, <1>4
<1>. QED BY <1>1, <1>2, <1>5, PersistMoves

LEMMA BootstrapMoves ==
  ASSUME TypeInv, NEW i, Bootstrap(i)
  PROVE  /\ \E js \in Jobs : Queued(Same, 0, js) \/ Copied(Same, 0, js) \/ Sent(Same, 0, js)
         /\ Moved(jobs, jobs', {i}, {}, "done") /\ (\A j \in DOMAIN jobs : jobs'[j].seen = jobs[j].seen)
         /\ i \in DOMAIN jobs /\ jobs[i].phase = "bootstrap"
<1>. DEFINE js == To(jobs, {i}, "done")
<1>1. jobs \in Jobs /\ Named(jobs)
  BY TypeParts DEF Queues, Linked
<1>2. Moved(jobs, js, {i}, {}, "done") /\ \A j \in DOMAIN jobs : js[j].seen = jobs[j].seen
  BY <1>1, ToFacts DEF Phase, Ended
<1>3. Persist(Same, 0, js) /\ i \in DOMAIN jobs /\ jobs[i].phase = "bootstrap"
  BY DEF Bootstrap, In
<1>. HIDE DEF js
<1>4. js \in Jobs /\ Named(js)
  <2>1. js \in Jobs
    BY <1>2 DEF Moved
  <2>. QED BY <1>1, <1>2, <2>1, NamedMoved
<1>5. Queued(Same, 0, js) \/ Copied(Same, 0, js) \/ Sent(Same, 0, js)
  <2>1. Same \in Draft \cup {Same} /\ 0 \in 0..MaxJobs
    OBVIOUS
  <2>. QED BY <1>3, <1>4, <2>1, PersistCases
<1>6. Moved(js, jobs', {}, {}, "save") /\ \A j \in DOMAIN js : jobs'[j].seen = js[j].seen
  <2>1. \E S \in SUBSET ({0} \ {0}) : Moved(js, jobs', S, {}, "save")
    BY <1>4, <1>5, PersistMoves
  <2>2. SUBSET ({0} \ {0}) = {{}}
    OBVIOUS
  <2>3. Moved(js, jobs', {}, {}, "save")
    BY <2>1, <2>2
  <2>. QED BY <1>4, <1>5, <2>3, PersistMoves
<1>7. Moved(jobs, jobs', {i}, {}, "done")
  BY <1>2, <1>6 DEF Moved
<1>8. DOMAIN js = DOMAIN jobs
  BY <1>2 DEF Moved
<1>. QED BY <1>2, <1>3, <1>4, <1>5, <1>6, <1>7, <1>8

LEMMA SaveAndQuitMoves ==
  ASSUME TypeInv, NEW kind \in Saving, NEW n \in Name, SaveAndQuit(kind, n)
  PROVE  \E js \in Jobs :
           /\ Begins(jobs, js, kind, "flush", n)
           /\ Queued(draft, Me, js) \/ Copied(draft, Me, js) \/ Sent(draft, Me, js)
           /\ \E S \in SUBSET {Me} : Moved(js, jobs', S, {}, "save")
           /\ \A i \in DOMAIN js : jobs'[i].seen = js[i].seen
<1>. DEFINE js == Started(kind, "flush", n)
<1>1. CanStart /\ Persist(draft, Me, js) /\ draft \in Draft
  BY TypeParts DEF SaveAndQuit, FlushThenSave, Others
<1>2. kind \in Startup \cup Exit /\ "flush" \in Phase /\ n \in Name \cup {NoName} /\ (kind # "discard" => n \in Name)
  BY DEF Saving, Exit, Phase
<1>3. Begins(jobs, js, kind, "flush", n)
  BY <1>1, <1>2, StartedBegins
<1>4. Named(js)
  BY <1>1, <1>2, StartedLinked
<1>. HIDE DEF js
<1>5. js \in Jobs /\ Me \in 0..MaxJobs /\ Me \in DOMAIN js /\ js[Me].kind \in Saving
  BY <1>3 DEF Begins
<1>6. Queued(draft, Me, js) \/ Copied(draft, Me, js) \/ Sent(draft, Me, js)
  BY <1>1, <1>4, <1>5, PersistCases
<1>7. \E S \in SUBSET ({Me} \ {0}) : Moved(js, jobs', S, {}, "save")
  BY <1>5, <1>6, PersistMoves
<1>8. \A S \in SUBSET ({Me} \ {0}) : S \in SUBSET {Me}
  OBVIOUS
<1>. QED BY <1>3, <1>5, <1>6, <1>7, <1>8, PersistMoves

\* A handler that starts with a request.
Starts(kind, phase, name) ==
  /\ Begins(jobs, jobs', kind, phase, name)
  /\ \E e \in Request : /\ Behind(wire, {e}, wire')
                        /\ e.kind = phase /\ e.name = name /\ e.owner = Me /\ e.answer = "none"

LEMMA StartMoves ==
  ASSUME TypeInv, (\E n \in Name : OpenImage(n) \/ CreateImage(n)) \/ Discard
  PROVE  /\ window = "open" /\ UNCHANGED <<window, view, draft, hydrated, env, images, current, chain, copy, astray>>
         /\ timer' => timer
         /\ \/ view # "shell" /\ \E n \in Name : Starts("open", "load", n)
            \/ view # "shell" /\ \E n \in Name : Starts("create", "save", n)
            \/ view = "shell" /\ Starts("discard", "revert", NoName)
<1>1. /\ window = "open" /\ UNCHANGED <<window, view, draft, hydrated, env, images, current, chain, copy, astray>>
      /\ timer' => timer
  <2>1. CASE \E n \in Name : OpenImage(n)
    BY <2>1 DEF OpenImage, CanStart, adapter, service
  <2>2. CASE \E n \in Name : CreateImage(n)
    BY <2>2 DEF CreateImage, CanStart, adapter, service
  <2>3. CASE Discard
    BY <2>3 DEF Discard, CanStart, adapter, service
  <2>. QED BY <2>1, <2>2, <2>3
<1>2. ASSUME NEW kind, NEW phase, NEW name, CanStart, jobs' = Started(kind, phase, name),
             wire' = Append(wire, Entry(phase, Default, name, FALSE, Me)),
             \/ kind = "open" /\ phase = "load" /\ name \in Name /\ images[name] # Absent
             \/ kind = "create" /\ phase = "save" /\ name \in Name
             \/ kind = "discard" /\ phase = "revert" /\ name = NoName
      PROVE  Starts(kind, phase, name)
  <2>1. kind \in Startup \cup Exit /\ phase \in Phase /\ name \in Name \cup {NoName}
    BY <1>2 DEF Startup, Exit, Phase
  <2>2. Begins(jobs, jobs', kind, phase, name)
    BY <1>2, <2>1, StartedBegins
  <2>. DEFINE e == Entry(phase, Default, name, FALSE, Me)
  <2>3. Behind(wire, {e}, wire') /\ e \in Request
    <3>. HIDE DEF e
    <3>1. e = Entry(phase, Default, name, FALSE, Me)
      BY DEF e
    <3>2. wire' = Append(wire, e)
      BY <1>2 DEF e
    <3>. QED BY <1>1, <1>2, <3>1, <3>2, StartTypes
  <2>4. e.kind = phase /\ e.name = name /\ e.owner = Me /\ e.answer = "none"
    BY DEF Entry
  <2>. HIDE DEF e
  <2>. QED BY <2>2, <2>3, <2>4 DEF Starts
<1>3. CASE \E n \in Name : OpenImage(n)
  <2>1. PICK n \in Name : OpenImage(n)
    BY <1>3
  <2>2. /\ CanStart /\ view # "shell" /\ images[n] # Absent
        /\ jobs' = Started("open", "load", n) /\ wire' = Append(wire, Entry("load", Default, n, FALSE, Me))
    BY <2>1 DEF OpenImage
  <2>3. Starts("open", "load", n)
    BY <1>2, <2>2
  <2>. QED BY <1>1, <2>2, <2>3
<1>4. CASE \E n \in Name : CreateImage(n)
  <2>1. PICK n \in Name : CreateImage(n)
    BY <1>4
  <2>2. /\ CanStart /\ view # "shell"
        /\ jobs' = Started("create", "save", n) /\ wire' = Append(wire, Entry("save", Default, n, FALSE, Me))
    BY <2>1 DEF CreateImage
  <2>3. Starts("create", "save", n)
    BY <1>2, <2>2
  <2>. QED BY <1>1, <2>2, <2>3
<1>5. CASE Discard
  <2>1. /\ CanStart /\ view = "shell" /\ jobs' = Started("discard", "revert", NoName)
        /\ wire' = Append(wire, Entry("revert", Default, NoName, FALSE, Me))
    BY <1>5 DEF Discard, Asked
  <2>2. Starts("discard", "revert", NoName)
    BY <1>2, <2>1
  <2>. QED BY <1>1, <2>1, <2>2
<1>. QED BY <1>3, <1>4, <1>5
\* What an answer does to the handlers: its owner goes on, those that read may be interrupted.
Heard(new, e, failed, swallowed) ==
  /\ new \in Jobs /\ DOMAIN new = DOMAIN jobs
  /\ swallowed \subseteq Reading /\ \A i \in swallowed : jobs[i].phase # "registry"
  /\ \A i \in failed : jobs[i].phase \notin Ended /\ i # e.owner
  /\ \A i \in DOMAIN jobs :
       /\ new[i].kind = jobs[i].kind /\ new[i].name = jobs[i].name
       /\ new[i].seen = jobs[i].seen /\ new[i].alone = jobs[i].alone
       /\ i # e.owner => new[i].clean = jobs[i].clean
       /\ i = e.owner => (new[i].clean <=> jobs[i].clean /\ e.answer = "ok")
       /\ new[i].phase = IF i \in failed THEN "failed"
                         ELSE IF i \in swallowed THEN "done"
                         ELSE IF i = e.owner THEN Onward(jobs[i].kind)
                         ELSE jobs[i].phase

LEMMA SaveHeard ==
  ASSUME TypeInv, wire # <<>>, NEW e, e = Head(wire), DeliverSave(e)
  PROVE  /\ e \in Request /\ e = wire[1] /\ 1 \in DOMAIN wire /\ e.kind = "save" /\ wire' = Tail(wire)
         /\ UNCHANGED <<chain, copy, astray>> /\ (hydrated' => hydrated)
         /\ \E failed, swallowed :
              Heard(jobs', e, failed, swallowed) /\ view' = (IF swallowed = {} THEN view ELSE "shell")
<1>1. PICK swallowed \in SUBSET Reading :
         /\ e.answer # "ok" => swallowed = {}
         /\ \A i \in swallowed : jobs[i].phase # "registry"
         /\ e.answer = "ok" => jobs' = Interrupted(Answered(e), swallowed)
         /\ e.answer # "ok" => jobs' = Answered(e)
         /\ view' = (IF swallowed = {} THEN view ELSE "shell")
  BY SaveSwallows
<1>2. e.kind = "save" /\ wire' = Tail(wire) /\ UNCHANGED <<chain, copy, astray>> /\ (hydrated' => hydrated)
  BY SaveSwallows
<1>3. /\ e \in Request /\ e = wire[1] /\ 1 \in DOMAIN wire
      /\ SaveAnswered(jobs', e, swallowed)
  <2>1. /\ e.answer # "ok" => swallowed = {}
        /\ e.answer = "ok" => jobs' = Interrupted(Answered(e), swallowed)
        /\ e.answer # "ok" => jobs' = Answered(e)
        /\ e.kind = "save" /\ wire' = Tail(wire) /\ UNCHANGED <<chain, copy>>
        /\ swallowed \subseteq Reading
    BY <1>1, <1>2
  <2>. QED BY <2>1, SaveDelivered
<1>. DEFINE failed == IF e.answer = "ok" THEN Reading \ swallowed ELSE {}
<1>4. failed \subseteq Reading /\ \A i : i \in failed <=> e.answer = "ok" /\ i \in Reading /\ i \notin swallowed
  OBVIOUS
<1>. HIDE DEF failed
<1>5. \A i \in Reading : jobs[i].phase \notin Ended /\ i # e.owner
  <2>1. e.owner # 0 => jobs[e.owner].phase = "save"
    <3>1. Linked
      BY TypeParts
    <3>. QED BY <1>2, <1>3, <3>1 DEF Linked, Owned, Awaits
  <2>2. \A i \in Reading : i # 0
    BY AwaitPhase DEF Reading
  <2>. QED BY <2>1, <2>2 DEF Reading, Ended
<1>6. Heard(jobs', e, failed, swallowed)
  BY <1>1, <1>3, <1>4, <1>5 DEF Heard, SaveAnswered
<1>. QED BY <1>1, <1>2, <1>3, <1>4, <1>6

LEMMA TransitionHeard ==
  ASSUME TypeInv, wire # <<>>, NEW e, e = Head(wire), DeliverTransition(e)
  PROVE  /\ e \in Request /\ e = wire[1] /\ 1 \in DOMAIN wire /\ e.kind \in {"load", "revert"}
         /\ (hydrated' => hydrated) /\ Tail(wire) \in Seq(Request)
         /\ Rest \in Seq(Write) /\ chain' = Rest /\ copy' = copy
         /\ Behind(<<>>, NextSet(Rest, <<>>, copy), wire')
         /\ astray' = (astray \/ \E k \in DOMAIN Tail(wire) : Tail(wire)[k].kind = "set")
         /\ chain # <<>> => ~ NoSet(Tail(wire))
         /\ \E failed, swallowed :
              Heard(jobs', e, failed, swallowed) /\ view' = (IF swallowed = {} THEN view ELSE "shell")
<1>1. PICK swallowed \in SUBSET Reading :
         /\ Reject(Tail(wire), Delivered(e, swallowed))
         /\ \A i \in swallowed : jobs[i].phase # "registry"
         /\ view' = (IF swallowed = {} THEN view ELSE "shell")
  BY TransitionSwallows
<1>2. e.kind \in {"load", "revert"} /\ (hydrated' => hydrated)
  BY TransitionSwallows
<1>3. /\ e \in Request /\ e = wire[1] /\ 1 \in DOMAIN wire /\ Tail(wire) \in Seq(Request)
      /\ Rest \in Seq(Write) /\ chain' = Rest /\ copy' = copy
      /\ jobs' \in Jobs /\ DOMAIN jobs' = DOMAIN jobs
      /\ \A i \in DOMAIN jobs :
           /\ jobs'[i].kind = jobs[i].kind /\ jobs'[i].name = jobs[i].name
           /\ jobs'[i].seen = jobs[i].seen /\ jobs'[i].alone = jobs[i].alone
           /\ i # e.owner => jobs'[i].clean = jobs[i].clean
           /\ i = e.owner => (jobs'[i].clean <=> jobs[i].clean /\ e.answer = "ok")
           /\ jobs'[i].phase = IF i \in Lost(Tail(wire)) THEN "failed"
                               ELSE IF i \in swallowed THEN "done"
                               ELSE IF i \in Reading THEN "failed"
                               ELSE IF i = e.owner THEN Onward(jobs[i].kind)
                               ELSE jobs[i].phase
      /\ Behind(<<>>, NextSet(Rest, <<>>, copy), wire')
      /\ astray' = (astray \/ \E k \in DOMAIN Tail(wire) : Tail(wire)[k].kind = "set")
      /\ chain # <<>> => ~ NoSet(Tail(wire))
      /\ e.owner \notin Lost(Tail(wire))
  BY <1>1, <1>2, TransitionDelivered
<1>4. \A i \in Lost(Tail(wire)) : jobs[i].phase \in {"flush", "save", "load", "revert"}
  <2>1. \A k \in DOMAIN Tail(wire) : \E l \in DOMAIN wire : Tail(wire)[k] = wire[l]
    BY TypeParts, TailFacts DEF Queues
  <2>. QED BY <2>1, AwaitPhase DEF Lost
<1>5. \A i \in Reading : jobs[i].phase \in {"read", "bootstrap", "registry"} /\ i # e.owner
  <2>1. e.owner # 0 => jobs[e.owner].phase \in {"flush", "save", "load", "revert"}
    BY <1>3, AwaitPhase
  <2>2. \A i \in Reading : i # 0
    BY AwaitPhase DEF Reading
  <2>. QED BY <2>1, <2>2 DEF Reading
<1>. DEFINE failed == Lost(Tail(wire)) \cup (Reading \ swallowed)
<1>6. \A i : i \in failed <=> i \in Lost(Tail(wire)) \/ (i \in Reading /\ i \notin swallowed)
  OBVIOUS
<1>. HIDE DEF failed
<1>7. \A i \in failed : jobs[i].phase \notin Ended /\ i # e.owner
  BY <1>3, <1>4, <1>5, <1>6 DEF Ended
<1>8. Heard(jobs', e, failed, swallowed)
  BY <1>1, <1>3, <1>6, <1>7 DEF Heard
<1>. QED BY <1>1, <1>2, <1>3, <1>8
-----------------------------------------------------------------------------
(* Handlers that overlap, and where they run: two that run are both not    *)
(* alone; a handler of the chooser that still runs when the shell is shown *)
(* was not alone; the handlers of the exit dialog run in the shell, and    *)
(* have seen what is on the screen.                                        *)
Readers(js) == \A i \in DOMAIN js : js[i].phase \in {"read", "bootstrap"} => js[i].kind \in Startup

HandlersOf(js, v, d) ==
  /\ Readers(js)
  /\ \A i, j \in DOMAIN js : Live(js, i) /\ Live(js, j) /\ i # j => ~ js[i].alone
  /\ \A i \in DOMAIN js : Live(js, i) /\ js[i].kind \in Startup /\ v = "shell" => ~ js[i].alone
  /\ \A i \in DOMAIN js : Live(js, i) /\ js[i].kind \in Exit => v = "shell"
  /\ \A i \in DOMAIN js : Live(js, i) /\ js[i].kind \in Saving => d \in js[i].seen

HandlersInv ==
  /\ HandlersOf(jobs, view, draft)
  /\ hydrated \/ timer => view = "shell"
  /\ chain # <<>> => view = "shell" \/ astray

LEMMA HandlersFollow ==
  ASSUME NEW old, NEW v, NEW d, HandlersOf(old, v, d), NEW new, NEW v2, NEW d2,
         Follows(old, new), Readers(new),
         v2 = "shell" /\ v # "shell" => \A i \in DOMAIN old : Live(new, i) => ~ old[i].alone,
         v2 # "shell" /\ v = "shell" => \A i \in DOMAIN old : ~ Live(new, i),
         d2 = d \/ \A i \in DOMAIN old : Live(new, i) /\ new[i].kind \in Saving => d2 \in new[i].seen
  PROVE  HandlersOf(new, v2, d2)
<1>1. DOMAIN new = DOMAIN old /\ \A i : Live(new, i) => Live(old, i)
  BY DEF Follows, Live
<1>2. \A i \in DOMAIN old : new[i].kind = old[i].kind /\ new[i].alone = old[i].alone /\ old[i].seen \subseteq new[i].seen
  BY DEF Follows
<1>3. \A i, j \in DOMAIN new : Live(new, i) /\ Live(new, j) /\ i # j => ~ new[i].alone
  BY <1>1, <1>2 DEF HandlersOf
<1>4. \A i \in DOMAIN new : Live(new, i) /\ new[i].kind \in Startup /\ v2 = "shell" => ~ new[i].alone
  BY <1>1, <1>2 DEF HandlersOf
<1>5. \A i \in DOMAIN new : Live(new, i) /\ new[i].kind \in Exit => v2 = "shell"
  BY <1>1, <1>2 DEF HandlersOf
<1>6. \A i \in DOMAIN new : Live(new, i) /\ new[i].kind \in Saving => d2 \in new[i].seen
  BY <1>1, <1>2 DEF HandlersOf
<1>. QED BY <1>3, <1>4, <1>5, <1>6 DEF HandlersOf

LEMMA HandlersBegin ==
  ASSUME HandlersOf(jobs, view, draft), NEW js, NEW kind, NEW phase, NEW name, Begins(jobs, js, kind, phase, name),
         kind \in Startup => view # "shell", kind \in Exit => view = "shell", phase \notin {"read", "bootstrap"}
  PROVE  HandlersOf(js, view, draft)
<1>1. \A i \in DOMAIN js : i \in DOMAIN jobs \/ i = Me
  BY DEF Begins
<1>2. \A i \in DOMAIN jobs : Live(js, i) <=> Live(jobs, i)
  BY DEF Begins, Live
<1>3. Readers(js)
  BY <1>1 DEF Begins, Readers, HandlersOf
<1>4. \A i, j \in DOMAIN js : Live(js, i) /\ Live(js, j) /\ i # j => ~ js[i].alone
  BY <1>1, <1>2 DEF Begins
<1>5. \A i \in DOMAIN js : Live(js, i) /\ js[i].kind \in Startup /\ view = "shell" => ~ js[i].alone
  BY <1>1, <1>2 DEF Begins, HandlersOf
<1>6. \A i \in DOMAIN js : Live(js, i) /\ js[i].kind \in Exit => view = "shell"
  BY <1>1, <1>2 DEF Begins, HandlersOf
<1>7. \A i \in DOMAIN js : Live(js, i) /\ js[i].kind \in Saving => draft \in js[i].seen
  BY <1>1, <1>2 DEF Begins, HandlersOf
<1>. QED BY <1>3, <1>4, <1>5, <1>6, <1>7 DEF HandlersOf

LEMMA MovedReaders ==
  ASSUME NEW old, NEW new, NEW S, NEW C, NEW phase, Readers(old), Moved(old, new, S, C, phase),
         phase \notin {"read", "bootstrap"} \/ \A i \in S : old[i].phase = "read"
  PROVE  Readers(new)
BY DEF Readers, Moved

\* The handlers that another one is alone with.
LEMMA OthersOverlap ==
  ASSUME NEW js, NEW v, NEW d, HandlersOf(js, v, d), NEW i \in DOMAIN js, Live(js, i)
  PROVE  \A j \in DOMAIN js : Live(js, j) /\ j # i => ~ js[j].alone
BY DEF HandlersOf

LEMMA ViewHandlers ==
  ASSUME TypeInv, HandlersInv, ShowChooser \/ OpenCreateDialog \/ BackToImages \/ RequestQuit \/ Cancel
  PROVE  HandlersInv'
<1>1. /\ UNCHANGED <<jobs, draft, hydrated, timer, chain, astray>>
      /\ view' = view \/ (view # "shell" /\ view' # "shell")
  <2>1. CASE ShowChooser
    BY <2>1 DEF ShowChooser, adapter
  <2>2. CASE OpenCreateDialog \/ BackToImages
    BY <2>2 DEF OpenCreateDialog, BackToImages, adapter
  <2>3. CASE RequestQuit
    BY <2>3 DEF RequestQuit, adapter
  <2>4. CASE Cancel
    BY <2>4 DEF Cancel, adapter
  <2>. QED BY <2>1, <2>2, <2>3, <2>4
<1>2. Follows(jobs, jobs')
  BY <1>1 DEF Follows
<1>3. HandlersOf(jobs', view', draft')
  BY <1>1, <1>2, HandlersFollow DEF HandlersInv, HandlersOf
<1>. QED BY <1>1, <1>3 DEF HandlersInv

LEMMA StartHandlers ==
  ASSUME TypeInv, HandlersInv, (\E n \in Name : OpenImage(n) \/ CreateImage(n)) \/ Discard
  PROVE  HandlersInv'
<1>1. UNCHANGED <<view, draft, hydrated, chain, astray>> /\ (timer' => timer)
  BY StartMoves
<1>2. \E kind, phase, name : /\ Begins(jobs, jobs', kind, phase, name) /\ phase \notin {"read", "bootstrap"}
                             /\ kind \in Startup => view # "shell"
                             /\ kind \in Exit => view = "shell"
  <2>1. \/ view # "shell" /\ \E n \in Name : Starts("open", "load", n)
        \/ view # "shell" /\ \E n \in Name : Starts("create", "save", n)
        \/ view = "shell" /\ Starts("discard", "revert", NoName)
    BY StartMoves
  <2>2. CASE view # "shell" /\ \E n \in Name : Starts("open", "load", n)
    BY <2>2 DEF Starts, Exit
  <2>3. CASE view # "shell" /\ \E n \in Name : Starts("create", "save", n)
    BY <2>3 DEF Starts, Exit
  <2>4. CASE view = "shell" /\ Starts("discard", "revert", NoName)
    BY <2>4 DEF Starts, Startup
  <2>. QED BY <2>1, <2>2, <2>3, <2>4
<1>3. HandlersOf(jobs', view, draft)
  BY <1>2, HandlersBegin DEF HandlersInv
<1>. QED BY <1>1, <1>3 DEF HandlersInv

LEMMA ReadHandlers ==
  ASSUME TypeInv, HandlersInv, NEW i, ReadPreferences(i)
  PROVE  HandlersInv'
<1>1. Moved(jobs, jobs', {i}, {}, "bootstrap") /\ i \in DOMAIN jobs /\ jobs[i].phase = "read"
  BY ReadMoves
<1>2. /\ draft' = env /\ timer' = FALSE /\ UNCHANGED <<view, hydrated, chain, astray>>
  BY DEF ReadPreferences
<1>3. Follows(jobs, jobs')
  BY <1>1, MovedFollows DEF Ended
<1>4. Readers(jobs')
  BY <1>1, MovedReaders DEF HandlersInv, HandlersOf
<1>5. ASSUME NEW j \in DOMAIN jobs, Live(jobs', j), jobs'[j].kind \in Saving
      PROVE  env \in jobs'[j].seen
  <2>1. jobs[j].kind \in Saving /\ jobs[j].phase \notin Ended
    BY <1>3, <1>5 DEF Follows, Live
  <2>. QED BY <2>1, ReadMoves
<1>6. HandlersOf(jobs', view, env)
  BY <1>3, <1>4, <1>5, HandlersFollow DEF HandlersInv
<1>. QED BY <1>2, <1>6 DEF HandlersInv

LEMMA EditHandlers ==
  ASSUME TypeInv, HandlersInv, NEW d \in Draft, Edit(d)
  PROVE  HandlersInv'
<1>1. Moved(jobs, jobs', {}, {}, "done")
  BY EditMoves
<1>2. /\ view = "shell" /\ draft' = d /\ UNCHANGED <<view, hydrated, chain, astray>>
  BY DEF Edit, adapter
<1>3. Follows(jobs, jobs')
  BY <1>1, MovedFollows
<1>4. Readers(jobs')
  BY <1>1, MovedReaders DEF HandlersInv, HandlersOf
<1>5. ASSUME NEW j \in DOMAIN jobs, Live(jobs', j), jobs'[j].kind \in Saving
      PROVE  d \in jobs'[j].seen
  <2>1. jobs[j].kind \in Saving /\ jobs[j].phase \notin Ended
    BY <1>3, <1>5 DEF Follows, Live
  <2>. QED BY <2>1, EditMoves
<1>6. HandlersOf(jobs', view, d)
  BY <1>3, <1>4, <1>5, HandlersFollow DEF HandlersInv
<1>. QED BY <1>2, <1>6 DEF HandlersInv

\* The shell is shown by a handler that ends, while no other is alone.
LEMMA ShellHandlers ==
  ASSUME TypeInv, HandlersInv, NEW i, Bootstrap(i) \/ ReadFails(i)
  PROVE  HandlersInv'
<1>1. /\ \E phase \in Ended : Moved(jobs, jobs', {i}, {}, phase)
      /\ i \in DOMAIN jobs /\ jobs[i].phase \in {"read", "bootstrap"}
  <2>1. CASE Bootstrap(i)
    <3>1. Moved(jobs, jobs', {i}, {}, "done") /\ i \in DOMAIN jobs /\ jobs[i].phase = "bootstrap"
      BY <2>1, BootstrapMoves
    <3>. QED BY <3>1 DEF Ended
  <2>2. CASE ReadFails(i)
    <3>1. PICK phase \in {"done", "failed", "quit"} :
             /\ Moved(jobs, jobs', {i}, {}, phase) /\ i \in DOMAIN jobs
             /\ ReadFails(i) => jobs[i].phase \in {"read", "bootstrap"} /\ phase # "quit"
      BY <2>2, StepMoves
    <3>. QED BY <2>2, <3>1 DEF Ended
  <2>. QED BY <2>1, <2>2
<1>2. PICK phase \in Ended : Moved(jobs, jobs', {i}, {}, phase)
  BY <1>1
<1>3. Follows(jobs, jobs')
  BY <1>1, <1>2, MovedFollows DEF Ended
<1>4. Readers(jobs')
  BY <1>2, MovedReaders DEF HandlersInv, HandlersOf, Ended
<1>5. \A j \in DOMAIN jobs : Live(jobs', j) => ~ jobs[j].alone
  <2>1. \A j \in DOMAIN jobs : Live(jobs', j) => Live(jobs, j) /\ j # i
    BY <1>2 DEF Moved, Live
  <2>2. Live(jobs, i)
    BY <1>1 DEF Live, Ended
  <2>. QED BY <1>1, <2>1, <2>2, OthersOverlap DEF HandlersInv
<1>6. /\ UNCHANGED <<draft, timer, astray>>
      /\ view' = "shell" \/ (view' = view /\ UNCHANGED <<hydrated, chain>>)
  <2>1. CASE Bootstrap(i)
    <3>1. view' = "shell" /\ UNCHANGED <<draft, timer, astray>>
      BY <2>1 DEF Bootstrap
    <3>. QED BY <3>1
  <2>2. CASE ReadFails(i)
    BY <2>2 DEF ReadFails, adapter
  <2>. QED BY <2>1, <2>2
<1>7. HandlersOf(jobs', view', draft')
  BY <1>3, <1>4, <1>5, <1>6, HandlersFollow DEF HandlersInv
<1>. QED BY <1>6, <1>7 DEF HandlersInv

\* Steps of the shell.
LEMMA MovedHandlers ==
  ASSUME TypeInv, HandlersInv, NEW S, NEW C, NEW phase, Moved(jobs, jobs', S, C, phase),
         \A i \in S : jobs[i].phase \notin Ended, phase \notin {"read", "bootstrap"},
         UNCHANGED <<view, draft, hydrated>>, timer' => timer,
         chain' # <<>> => chain # <<>> \/ view = "shell", astray => astray'
  PROVE  HandlersInv'
<1>1. Follows(jobs, jobs')
  BY MovedFollows
<1>2. Readers(jobs')
  BY MovedReaders DEF HandlersInv, HandlersOf
<1>3. HandlersOf(jobs', view, draft)
  BY <1>1, <1>2, HandlersFollow DEF HandlersInv
<1>. QED BY <1>3 DEF HandlersInv

LEMMA RegistryHandlers ==
  ASSUME TypeInv, HandlersInv, NEW i, Registry(i) \/ Quit(i)
  PROVE  HandlersInv'
<1>1. PICK phase \in {"done", "failed", "quit"} :
         Moved(jobs, jobs', {i}, {}, phase) /\ jobs[i].phase \in {"read", "bootstrap", "registry", "quit"}
  BY StepMoves
<1>2. UNCHANGED <<view, draft, timer, hydrated, chain, astray>>
  BY DEF Registry, Quit, renderer, adapter
<1>. QED BY <1>1, <1>2, MovedHandlers DEF Ended

LEMMA TimerHandlers ==
  ASSUME TypeInv, HandlersInv, TimerFires
  PROVE  HandlersInv'
<1>1. Moved(jobs, jobs', {}, {}, "save")
  BY TimerMoves
<1>2. UNCHANGED <<view, draft, hydrated, astray>> /\ timer /\ timer' = FALSE
  BY DEF TimerFires
<1>. QED BY <1>1, <1>2, MovedHandlers DEF HandlersInv

LEMMA SaveAndQuitHandlers ==
  ASSUME TypeInv, HandlersInv, NEW kind \in Saving, NEW n \in Name, SaveAndQuit(kind, n)
  PROVE  HandlersInv'
<1>1. UNCHANGED <<view, draft, hydrated, astray>> /\ timer' = FALSE /\ view = "shell"
  BY DEF SaveAndQuit, Asked
<1>2. PICK js \in Jobs :
         Begins(jobs, js, kind, "flush", n) /\ \E S \in SUBSET {Me} : Moved(js, jobs', S, {}, "save")
  BY SaveAndQuitMoves
<1>3. HandlersOf(js, view, draft)
  <2>1. kind \in Exit /\ kind \notin Startup
    BY DEF Saving, Exit, Startup
  <2>. QED BY <1>1, <1>2, <2>1, HandlersBegin DEF HandlersInv
<1>4. PICK S \in SUBSET {Me} : Moved(js, jobs', S, {}, "save")
  BY <1>2
<1>5. \A i \in S : js[i].phase \notin Ended
  BY <1>2, <1>4 DEF Begins, Ended
<1>6. Follows(js, jobs') /\ Readers(jobs')
  BY <1>3, <1>4, <1>5, MovedFollows, MovedReaders DEF HandlersOf
<1>7. HandlersOf(jobs', view, draft)
  BY <1>3, <1>6, HandlersFollow
<1>. QED BY <1>1, <1>7 DEF HandlersInv

LEMMA ReloadHandlers ==
  ASSUME TypeInv, HandlersInv, Reload
  PROVE  HandlersInv'
<1>1. /\ Moved(jobs, jobs', {i \in DOMAIN jobs : Active(i)}, {}, "dropped")
      /\ \A i \in DOMAIN jobs : jobs'[i].phase \in Ended
      /\ chain' = Disown(chain) /\ chain \in Seq(Write)
  BY ReloadMoves, TypeParts DEF Queues
<1>2. DOMAIN jobs' = DOMAIN jobs /\ \A i \in DOMAIN jobs : ~ Live(jobs', i)
  BY <1>1 DEF Moved, Live
<1>3. Readers(jobs')
  BY <1>1, <1>2 DEF Readers, Ended
<1>4. \A v, d : HandlersOf(jobs', v, d)
  BY <1>2, <1>3 DEF HandlersOf
<1>5. ~ hydrated' /\ ~ timer' /\ (chain # <<>> => astray')
  BY DEF Reload
<1>6. chain' # <<>> => chain # <<>>
  BY <1>1, DisownedChain
<1>. QED BY <1>4, <1>5, <1>6 DEF HandlersInv

LEMMA ServeHandlers ==
  ASSUME TypeInv, HandlersInv, Serve
  PROVE  HandlersInv'
<1>1. UNCHANGED <<view, draft, hydrated, timer, jobs, chain, astray>>
  BY ServeAnswers DEF renderer, adapter
<1>. QED BY <1>1 DEF HandlersInv

LEMMA LostHandlers ==
  ASSUME TypeInv, HandlersInv, LoseChild
  PROVE  HandlersInv'
<1>1. /\ Moved(jobs, jobs', Lost(wire), {}, "failed") /\ chain' = Rest
      /\ astray' = (astray \/ \E k \in DOMAIN wire : wire[k].kind = "set")
  BY ChildLost
<1>2. \A i \in Lost(wire) : jobs[i].phase \notin Ended
  BY AwaitPhase DEF Lost, Ended
<1>3. UNCHANGED <<view, draft, hydrated, timer>> /\ (chain' # <<>> => chain # <<>>) /\ (astray => astray')
  BY <1>1 DEF LoseChild, Rest
<1>. QED BY <1>1, <1>2, <1>3, MovedHandlers

\* What a delivery does to the handlers.
LEMMA HeardHandlers ==
  ASSUME TypeInv, HandlersInv, NEW e \in Request, e = wire[1], 1 \in DOMAIN wire,
         NEW new, NEW failed, NEW swallowed, Heard(new, e, failed, swallowed),
         NEW v, v = IF swallowed = {} THEN view ELSE "shell"
  PROVE  HandlersOf(new, v, draft) /\ Follows(jobs, new)
<1>1. e.owner # 0 => e.owner \in DOMAIN jobs /\ jobs[e.owner].phase \notin Ended
  BY AwaitPhase DEF Ended
<1>2. \A i \in DOMAIN jobs : i # 0
  BY AwaitPhase
<1>3. ASSUME NEW i \in DOMAIN jobs
      PROVE  /\ jobs[i].phase \in Ended => new[i].phase = jobs[i].phase
             /\ new[i].phase \in {"read", "bootstrap"} => new[i].kind \in Startup
             /\ new[i].phase \notin Ended => i \notin swallowed /\ jobs[i].phase \notin Ended
  <2>1. new[i].phase = IF i \in failed THEN "failed"
                       ELSE IF i \in swallowed THEN "done"
                       ELSE IF i = e.owner THEN Onward(jobs[i].kind)
                       ELSE jobs[i].phase
    BY DEF Heard
  <2>2. (i \in swallowed => jobs[i].phase \notin Ended) /\ (i \in failed => jobs[i].phase \notin Ended)
    BY DEF Heard, Reading, Ended
  <2>3. Onward(jobs[i].kind) \in {"read", "bootstrap"} => jobs[i].kind \in Startup
    BY DEF Onward, Startup
  <2>4. i = e.owner => jobs[i].phase \notin Ended
    BY <1>1, <1>2
  <2>5. jobs[i].phase \in {"read", "bootstrap"} => jobs[i].kind \in Startup
    BY DEF HandlersInv, HandlersOf, Readers
  <2>6. jobs[i].phase \in Ended => new[i].phase = jobs[i].phase
    BY <2>1, <2>2, <2>4
  <2>7. new[i].phase \in {"read", "bootstrap"} => new[i].kind \in Startup
    BY <2>1, <2>3, <2>5 DEF Heard
  <2>8. new[i].phase \notin Ended => i \notin swallowed
    BY <2>1 DEF Ended
  <2>. QED BY <2>6, <2>7, <2>8
<1>4. Follows(jobs, new) /\ Readers(new)
  BY <1>3 DEF Follows, Readers, Heard
<1>5. ASSUME swallowed # {} PROVE \A i \in DOMAIN jobs : Live(new, i) => ~ jobs[i].alone
  <2>1. PICK j \in swallowed : TRUE
    BY <1>5
  <2>2. j \in DOMAIN jobs /\ Live(jobs, j)
    BY <2>1 DEF Heard, Reading, Live, Ended
  <2>3. \A i \in DOMAIN jobs : Live(new, i) => Live(jobs, i) /\ i # j
    BY <1>3, <2>1 DEF Live
  <2>. QED BY <2>2, <2>3, OthersOverlap DEF HandlersInv
<1>6. HandlersOf(new, v, draft)
  BY <1>4, <1>5, HandlersFollow DEF HandlersInv
<1>. QED BY <1>4, <1>6

LEMMA DeliverHandlers ==
  ASSUME TypeInv, HandlersInv, Deliver
  PROVE  HandlersInv' /\ Follows(jobs, jobs')
<1>. DEFINE e == Head(wire)
<1>1. /\ wire # <<>> /\ (DeliverWrite(e) \/ DeliverSave(e) \/ DeliverTransition(e))
      /\ UNCHANGED <<draft, timer>>
  BY DEF Deliver
<1>. HIDE DEF e
<1>2. e = Head(wire)
  BY DEF e
<1>3. CASE DeliverWrite(e)
  <2>1. /\ Moved(jobs, jobs', ReadyNow(e), {e.owner}, "save")
        /\ \A i \in ReadyNow(e) : jobs[i].phase = "flush"
        /\ chain # <<>>
    BY <1>1, <1>2, <1>3, WriteDelivered
  <2>2. UNCHANGED <<view, hydrated, astray>>
    BY <1>3 DEF DeliverWrite
  <2>3. chain' # <<>> => chain # <<>>
    BY <2>1
  <2>4. \A i \in ReadyNow(e) : jobs[i].phase \notin Ended
    BY <2>1 DEF Ended
  <2>. QED BY <1>1, <2>1, <2>2, <2>3, <2>4, MovedHandlers, MovedFollows
<1>4. CASE DeliverSave(e) \/ DeliverTransition(e)
  <2>1. /\ e \in Request /\ e = wire[1] /\ 1 \in DOMAIN wire
        /\ (hydrated' => hydrated) /\ (chain' # <<>> => chain # <<>>) /\ (astray => astray')
        /\ \E failed, swallowed :
             Heard(jobs', e, failed, swallowed) /\ view' = (IF swallowed = {} THEN view ELSE "shell")
    <3>1. CASE DeliverSave(e)
      BY <1>1, <1>2, <3>1, SaveHeard
    <3>2. CASE DeliverTransition(e)
      BY <1>1, <1>2, <3>2, TransitionHeard DEF Rest
    <3>. QED BY <1>4, <3>1, <3>2
  <2>2. PICK failed, swallowed :
           Heard(jobs', e, failed, swallowed) /\ view' = (IF swallowed = {} THEN view ELSE "shell")
    BY <2>1
  <2>3. HandlersOf(jobs', view', draft) /\ Follows(jobs, jobs')
    BY <2>1, <2>2, HeardHandlers
  <2>4. view = "shell" => view' = "shell"
    BY <2>2
  <2>. QED BY <1>1, <2>1, <2>3, <2>4 DEF HandlersInv
<1>. QED BY <1>1, <1>3, <1>4

LEMMA HandlersInit ==
  ASSUME Init
  PROVE  HandlersInv
BY EmptySeq DEF Init, Mounted, HandlersInv, HandlersOf, Readers

LEMMA HandlersStep ==
  ASSUME TypeInv, HandlersInv, [Next]_vars
  PROVE  HandlersInv'
<1>1. CASE UNCHANGED vars
  BY <1>1 DEF vars, renderer, adapter, HandlersInv
<1>2. CASE \/ ShowChooser \/ OpenCreateDialog \/ BackToImages \/ RequestQuit \/ Cancel
  BY <1>2, ViewHandlers
<1>3. CASE (\E n \in Name : OpenImage(n) \/ CreateImage(n)) \/ Discard
  BY <1>3, StartHandlers
<1>4. CASE \E i \in 1..MaxJobs : ReadPreferences(i) \/ Bootstrap(i) \/ ReadFails(i) \/ Registry(i) \/ Quit(i)
  BY <1>4, ReadHandlers, ShellHandlers, RegistryHandlers
<1>5. CASE \E d \in Draft : Edit(d)
  BY <1>5, EditHandlers
<1>6. CASE TimerFires \/ Reload
  BY <1>6, TimerHandlers, ReloadHandlers
<1>7. CASE \E kind \in Saving, n \in Name : SaveAndQuit(kind, n)
  BY <1>7, SaveAndQuitHandlers
<1>8. CASE Serve \/ Deliver \/ LoseChild
  BY <1>8, ServeHandlers, DeliverHandlers, LostHandlers
<1>. QED BY <1>1, <1>2, <1>3, <1>4, <1>5, <1>6, <1>7, <1>8 DEF Next

LEMMA HandlersInvariant == Spec => []HandlersInv
<1>1. Init => HandlersInv
  BY HandlersInit
<1>2. TypeInv /\ HandlersInv /\ [Next]_vars => HandlersInv'
  BY HandlersStep
<1>. QED BY <1>1, <1>2, TypesInvariant, PTL DEF Spec
-----------------------------------------------------------------------------
(* The text that is typed.  Until the shell is excused, what is written    *)
(* last is the text on the screen unless the timer is armed; what was read *)
(* is the copy; and a write on the wire that changes no text carries the   *)
(* copy.                                                                   *)
ExcusedBy(js) ==
  \E i \in DOMAIN js : js[i].kind = "discard" \/ (js[i].kind \in Startup /\ ~ js[i].alone)

Excused == astray \/ ExcusedBy(jobs)

SentCopy == \A k \in DOMAIN wire : wire[k].kind = "set" /\ chain[1].draft = Same => wire[k].draft = copy

Newest == hydrated /\ ~ timer => LastText(copy, chain) = draft

Booted == \A i \in DOMAIN jobs : jobs[i].phase = "bootstrap" => draft = copy

TextInv == Excused \/ (Newest /\ Booted /\ SentCopy)

LEMMA FollowsExcused ==
  ASSUME NEW old, NEW new, Follows(old, new)
  PROVE  ExcusedBy(old) => ExcusedBy(new)
BY DEF Follows, ExcusedBy

LEMMA BeginsExcused ==
  ASSUME NEW js, NEW kind, NEW phase, NEW name, Begins(jobs, js, kind, phase, name)
  PROVE  ExcusedBy(jobs) \/ kind = "discard" => ExcusedBy(js)
BY DEF Begins, ExcusedBy

\* A handler of the chooser that runs in the shell excuses it.
LEMMA LateExcuses ==
  ASSUME HandlersInv, NEW i \in DOMAIN jobs, jobs[i].phase \in {"read", "bootstrap"}, ~ Excused
  PROVE  view # "shell" /\ ~ hydrated /\ ~ timer /\ chain = <<>>
<1>1. jobs[i].kind \in Startup /\ jobs[i].alone /\ Live(jobs, i)
  BY DEF HandlersInv, HandlersOf, Readers, Live, Ended, Excused, ExcusedBy
<1>2. view # "shell" /\ ~ astray
  BY <1>1 DEF HandlersInv, HandlersOf, Excused
<1>. QED BY <1>2 DEF HandlersInv

LEMMA NoneSent ==
  /\ TypeInv /\ chain = <<>> => NoSet(wire) /\ SentCopy
  /\ TypeInv' /\ chain' = <<>> => NoSet(wire)' /\ SentCopy'
BY DEF TypeInv, OneSet, NoSet, SentCopy

\* A step that leaves the text alone, and lets no handler begin its bootstrap.
LEMMA TextKept ==
  ASSUME TextInv, ExcusedBy(jobs) => ExcusedBy(jobs'), astray => astray',
         UNCHANGED <<draft, copy, chain>>, hydrated' => hydrated, hydrated' /\ timer => timer',
         \A i \in DOMAIN jobs' : jobs'[i].phase = "bootstrap" => i \in DOMAIN jobs /\ jobs[i].phase = "bootstrap",
         SentCopy => SentCopy'
  PROVE  TextInv'
BY DEF TextInv, Excused, Newest, Booted

LEMMA StartText ==
  ASSUME TypeInv, TypeInv', HandlersInv, TextInv, (\E n \in Name : OpenImage(n) \/ CreateImage(n)) \/ Discard
  PROVE  TextInv'
<1>1. UNCHANGED <<draft, hydrated, chain, copy, astray>>
  BY StartMoves
<1>2. CASE view = "shell" /\ Starts("discard", "revert", NoName)
  BY <1>2, BeginsExcused DEF Starts, TextInv, Excused
<1>3. CASE view # "shell" /\ \E n \in Name : Starts("open", "load", n) \/ Starts("create", "save", n)
  <2>1. PICK n \in Name, kind \in {"open", "create"}, phase \in {"load", "save"} : Starts(kind, phase, n)
    BY <1>3
  <2>2. Begins(jobs, jobs', kind, phase, n)
    BY <2>1 DEF Starts
  <2>3. PICK e \in Request : Behind(wire, {e}, wire') /\ e.kind = phase
    BY <2>1 DEF Starts
  <2>4. SentCopy => SentCopy'
    BY <1>1, <2>3 DEF SentCopy, Behind
  <2>5. \A i \in DOMAIN jobs' : jobs'[i].phase = "bootstrap" => i \in DOMAIN jobs /\ jobs[i].phase = "bootstrap"
    BY <2>2 DEF Begins
  <2>6. ~ hydrated
    BY <1>3 DEF HandlersInv
  <2>. QED BY <1>1, <2>2, <2>4, <2>5, <2>6, BeginsExcused, TextKept
<1>. QED BY <1>2, <1>3, StartMoves

LEMMA ViewText ==
  ASSUME TypeInv, TextInv, ShowChooser \/ OpenCreateDialog \/ BackToImages \/ RequestQuit \/ Cancel
  PROVE  TextInv'
<1>1. UNCHANGED <<jobs, draft, hydrated, timer, copy, chain, wire, astray>>
  <2>1. CASE ShowChooser
    BY <2>1 DEF ShowChooser, adapter
  <2>2. CASE OpenCreateDialog
    BY <2>2 DEF OpenCreateDialog, adapter
  <2>3. CASE BackToImages
    BY <2>3 DEF BackToImages, adapter
  <2>4. CASE RequestQuit
    BY <2>4 DEF RequestQuit, adapter
  <2>5. CASE Cancel
    BY <2>5 DEF Cancel, adapter
  <2>. QED BY <2>1, <2>2, <2>3, <2>4, <2>5
<1>. QED BY <1>1 DEF TextInv, Excused, Newest, Booted, SentCopy

LEMMA ReadText ==
  ASSUME TypeInv, TypeInv', HandlersInv, TextInv, NEW i, ReadPreferences(i)
  PROVE  TextInv'
<1>1. Moved(jobs, jobs', {i}, {}, "bootstrap") /\ i \in DOMAIN jobs /\ jobs[i].phase = "read"
  BY ReadMoves
<1>2. draft' = env /\ copy' = env /\ UNCHANGED <<hydrated, chain, astray>>
  BY DEF ReadPreferences
<1>3. Follows(jobs, jobs')
  BY <1>1, MovedFollows DEF Ended
<1>4. CASE Excused
  BY <1>2, <1>3, <1>4, FollowsExcused DEF TextInv, Excused
<1>5. CASE ~ Excused
  <2>1. ~ hydrated /\ chain = <<>>
    BY <1>1, <1>5, LateExcuses
  <2>2. SentCopy'
    BY <1>2, <2>1, NoneSent
  <2>3. Newest' /\ Booted'
    BY <1>2, <2>1 DEF Newest, Booted
  <2>. QED BY <2>2, <2>3 DEF TextInv
<1>. QED BY <1>4, <1>5

\* The write of a text, or of none.
LEMMA PersistSends ==
  ASSUME TypeInv, TypeInv', SentCopy, NEW js, NEW d \in Draft \cup {Same}, NEW owner \in 0..MaxJobs,
         Queued(d, owner, js) \/ Copied(d, owner, js) \/ Sent(d, owner, js)
  PROVE  SentCopy'
<1>1. CASE Queued(d, owner, js)
  <2>. DEFINE w == [draft |-> d, owner |-> owner]
  <2>1. w \in Write /\ chain \in Seq(Write) /\ chain # <<>>
    BY <1>1, TypeParts DEF Queued, Queues, Write
  <2>2. chain' = Append(chain, w) /\ copy' = copy /\ wire' = wire
    BY <1>1 DEF Queued
  <2>. HIDE DEF w
  <2>3. chain'[1] = chain[1]
    BY <2>1, <2>2, AppendFacts, EmptyFacts
  <2>. QED BY <2>2, <2>3 DEF SentCopy
<1>2. CASE Copied(d, owner, js)
  BY <1>2, NoneSent DEF Copied
<1>3. CASE Sent(d, owner, js)
  <2>1. PICK e \in Request : e.draft = (IF d = Same THEN copy ELSE d) /\ Behind(wire, {e}, wire')
    BY <1>3 DEF Sent
  <2>2. chain' = <<[draft |-> d, owner |-> owner]>> /\ copy' = copy /\ NoSet(wire)
    BY <1>3, NoneSent DEF Sent
  <2>3. chain'[1].draft = d
    BY <2>2
  <2>4. \A k \in DOMAIN wire' : wire'[k].kind = "set" => wire'[k] = e
    BY <2>1, <2>2 DEF Behind, NoSet
  <2>. QED BY <2>1, <2>2, <2>3, <2>4 DEF SentCopy
<1>. QED BY <1>1, <1>2, <1>3

LEMMA WriteText ==
  ASSUME TypeInv, TypeInv', HandlersInv, TextInv,
         TimerFires \/ \E kind \in Saving, n \in Name : SaveAndQuit(kind, n)
  PROVE  TextInv'
<1>1. /\ view = "shell" /\ draft \in Draft /\ UNCHANGED <<draft, astray>>
      /\ \E js \in Jobs : \E owner \in 0..MaxJobs : Queued(draft, owner, js) \/ Copied(draft, owner, js) \/ Sent(draft, owner, js)
      /\ ExcusedBy(jobs) => ExcusedBy(jobs')
      /\ \A i \in DOMAIN jobs' : jobs'[i].phase = "bootstrap" => i \in DOMAIN jobs /\ jobs[i].phase = "bootstrap"
  <2>0. draft \in Draft
    BY TypeParts DEF Others
  <2>1. CASE TimerFires
    <3>1. Queued(draft, 0, jobs) \/ Copied(draft, 0, jobs) \/ Sent(draft, 0, jobs)
      BY <2>1, TimerMoves
    <3>2. Moved(jobs, jobs', {}, {}, "save")
      BY <2>1, TimerMoves
    <3>3. Follows(jobs, jobs')
      BY <3>2, MovedFollows
    <3>4. view = "shell" /\ UNCHANGED <<draft, astray>>
      BY <2>1 DEF TimerFires, HandlersInv
    <3>5. jobs \in Jobs /\ 0 \in 0..MaxJobs
      BY TypeParts DEF Queues
    <3>6. \A i \in DOMAIN jobs' : jobs'[i].phase = "bootstrap" => i \in DOMAIN jobs /\ jobs[i].phase = "bootstrap"
      BY <3>2 DEF Moved
    <3>7. ExcusedBy(jobs) => ExcusedBy(jobs')
      BY <3>3, FollowsExcused
    <3>. QED BY <2>0, <3>1, <3>4, <3>5, <3>6, <3>7
  <2>2. CASE \E kind \in Saving, n \in Name : SaveAndQuit(kind, n)
    <3>1. PICK kind \in Saving, n \in Name : SaveAndQuit(kind, n)
      BY <2>2
    <3>2. PICK js \in Jobs :
             /\ Begins(jobs, js, kind, "flush", n)
             /\ Queued(draft, Me, js) \/ Copied(draft, Me, js) \/ Sent(draft, Me, js)
             /\ \E S \in SUBSET {Me} : Moved(js, jobs', S, {}, "save")
      BY <3>1, SaveAndQuitMoves
    <3>3. Me \in 0..MaxJobs
      BY <3>2 DEF Begins
    <3>4. PICK S \in SUBSET {Me} : Moved(js, jobs', S, {}, "save")
      BY <3>2
    <3>5. \A i \in S : js[i].phase \notin Ended
      BY <3>2, <3>4 DEF Begins, Ended
    <3>6. Follows(js, jobs')
      BY <3>4, <3>5, MovedFollows
    <3>7. view = "shell" /\ UNCHANGED <<draft, astray>>
      BY <3>1 DEF SaveAndQuit, Asked
    <3>8. ExcusedBy(jobs) => ExcusedBy(jobs')
      BY <3>2, <3>6, BeginsExcused, FollowsExcused
    <3>9. \A i \in DOMAIN jobs' : jobs'[i].phase = "bootstrap" => i \in DOMAIN jobs /\ jobs[i].phase = "bootstrap"
      BY <3>2, <3>4 DEF Begins, Moved
    <3>. QED BY <2>0, <3>2, <3>3, <3>7, <3>8, <3>9
  <2>. QED BY <2>1, <2>2
<1>2. PICK js \in Jobs, owner \in 0..MaxJobs : Queued(draft, owner, js) \/ Copied(draft, owner, js) \/ Sent(draft, owner, js)
  BY <1>1
<1>3. LastText(copy', chain') = draft
  BY <1>1, <1>2, PersistLast
<1>4. SentCopy => SentCopy'
  BY <1>1, <1>2, PersistSends
<1>5. ASSUME ~ Excused' PROVE \A i \in DOMAIN jobs' : jobs'[i].phase # "bootstrap"
  <2>1. ~ Excused
    BY <1>1, <1>5 DEF Excused
  <2>. QED BY <1>1, <2>1, LateExcuses
<1>. QED BY <1>1, <1>3, <1>4, <1>5 DEF TextInv, Excused, Newest, Booted

LEMMA BootstrapText ==
  ASSUME TypeInv, TypeInv', HandlersInv, TextInv, NEW i, Bootstrap(i)
  PROVE  TextInv'
<1>1. Moved(jobs, jobs', {i}, {}, "done") /\ i \in DOMAIN jobs /\ jobs[i].phase = "bootstrap"
  BY BootstrapMoves
<1>2. Follows(jobs, jobs')
  BY <1>1, MovedFollows DEF Ended
<1>3. UNCHANGED <<draft, astray>>
  BY DEF Bootstrap
<1>4. CASE Excused
  BY <1>2, <1>3, <1>4, FollowsExcused DEF TextInv, Excused
<1>5. CASE ~ Excused
  <2>1. chain = <<>> /\ draft = copy /\ SentCopy
    BY <1>1, <1>5, LateExcuses DEF TextInv, Booted
  <2>2. PICK js \in Jobs : Queued(Same, 0, js) \/ Copied(Same, 0, js) \/ Sent(Same, 0, js)
    BY BootstrapMoves
  <2>3. LastText(copy, chain) = copy
    BY <2>1, LastNone DEF Texts
  <2>4. Same \in Draft \cup {Same} /\ 0 \in 0..MaxJobs
    OBVIOUS
  <2>5. LastText(copy', chain') = draft'
    BY <1>3, <2>1, <2>2, <2>3, <2>4, PersistLast
  <2>6. SentCopy'
    BY <2>1, <2>2, <2>4, PersistSends
  <2>7. ASSUME NEW j \in DOMAIN jobs', jobs'[j].phase = "bootstrap" PROVE FALSE
    <3>1. j \in DOMAIN jobs /\ j # i /\ jobs[j].phase = "bootstrap"
      BY <1>1, <2>7 DEF Moved
    <3>2. Live(jobs, i) /\ Live(jobs, j)
      BY <1>1, <3>1 DEF Live, Ended
    <3>3. jobs[i].kind \in Startup /\ ~ jobs[i].alone
      BY <1>1, <3>1, <3>2 DEF HandlersInv, HandlersOf, Readers
    <3>. QED BY <1>1, <1>5, <3>3 DEF Excused, ExcusedBy
  <2>. QED BY <2>5, <2>6, <2>7 DEF TextInv, Newest, Booted
<1>. QED BY <1>4, <1>5

LEMMA HandlerText ==
  ASSUME TypeInv, TypeInv', HandlersInv, TextInv, NEW i, ReadFails(i) \/ Registry(i) \/ Quit(i)
  PROVE  TextInv'
<1>1. PICK phase \in {"done", "failed", "quit"} :
         Moved(jobs, jobs', {i}, {}, phase) /\ jobs[i].phase \in {"read", "bootstrap", "registry", "quit"}
  BY StepMoves
<1>2. Follows(jobs, jobs')
  BY <1>1, MovedFollows DEF Ended
<1>3. UNCHANGED <<draft, timer, hydrated, copy, chain, wire, astray>>
  <2>1. CASE ReadFails(i)
    BY <2>1 DEF ReadFails, adapter
  <2>2. CASE Registry(i)
    BY <2>2 DEF Registry, adapter
  <2>3. CASE Quit(i)
    BY <2>3 DEF Quit, renderer, adapter
  <2>. QED BY <2>1, <2>2, <2>3
<1>4. \A j \in DOMAIN jobs' : jobs'[j].phase = "bootstrap" => j \in DOMAIN jobs /\ jobs[j].phase = "bootstrap"
  BY <1>1 DEF Moved
<1>5. SentCopy => SentCopy'
  BY <1>3 DEF SentCopy
<1>. QED BY <1>2, <1>3, <1>4, <1>5, FollowsExcused, TextKept

LEMMA EditText ==
  ASSUME TypeInv, TypeInv', HandlersInv, TextInv, NEW d \in Draft, Edit(d)
  PROVE  TextInv'
<1>1. Moved(jobs, jobs', {}, {}, "done")
  BY EditMoves
<1>2. Follows(jobs, jobs')
  BY <1>1, MovedFollows
<1>3. view = "shell" /\ timer' = hydrated /\ UNCHANGED <<hydrated, copy, chain, wire, astray>>
  BY DEF Edit, Armed, adapter
<1>4. ASSUME ~ Excused PROVE \A j \in DOMAIN jobs' : jobs'[j].phase # "bootstrap"
  <2>1. \A j \in DOMAIN jobs : jobs[j].phase # "bootstrap"
    BY <1>3, <1>4, LateExcuses
  <2>. QED BY <1>1, <2>1 DEF Moved
<1>5. Excused => Excused'
  BY <1>2, <1>3, FollowsExcused DEF Excused
<1>6. SentCopy => SentCopy'
  BY <1>3 DEF SentCopy
<1>. QED BY <1>3, <1>4, <1>5, <1>6 DEF TextInv, Newest, Booted

LEMMA ReloadText ==
  ASSUME TypeInv, TypeInv', TextInv, Reload
  PROVE  TextInv'
<1>1. /\ \A i \in DOMAIN jobs : jobs'[i].phase \in Ended
      /\ Moved(jobs, jobs', {i \in DOMAIN jobs : Active(i)}, {}, "dropped")
      /\ chain' = Disown(chain) /\ chain \in Seq(Write)
  BY ReloadMoves, TypeParts DEF Queues
<1>2. ~ hydrated' /\ astray' = (astray \/ chain # <<>>)
  BY DEF Reload
<1>3. \A i \in DOMAIN jobs' : jobs'[i].phase # "bootstrap"
  BY <1>1 DEF Moved, Ended
<1>4. chain = <<>> => SentCopy'
  BY <1>1, DisownedChain, NoneSent
<1>. QED BY <1>2, <1>3, <1>4 DEF TextInv, Newest, Booted, Excused

LEMMA ServeText ==
  ASSUME TypeInv, TextInv, Serve
  PROVE  TextInv'
<1>1. PICK k \in DOMAIN wire, answer \in {"ok", "error"} : Answer(k, answer)
  BY ServeAnswers
<1>2. UNCHANGED <<draft, timer, hydrated, jobs, copy, chain, astray>>
  BY ServeAnswers DEF renderer, adapter
<1>3. SentCopy => SentCopy'
  BY <1>1, <1>2, AnswerFacts DEF SentCopy
<1>. QED BY <1>2, <1>3, TextKept

\* A write that is rejected excuses the shell; without one nothing is written.
LEMMA RejectedText ==
  ASSUME TypeInv, TypeInv', TextInv, ExcusedBy(jobs) => ExcusedBy(jobs'),
         chain' = Rest, copy' = copy, draft' = draft, hydrated' => hydrated, timer' = timer,
         astray => astray', chain # <<>> => astray',
         \A i \in DOMAIN jobs' : jobs'[i].phase = "bootstrap" => i \in DOMAIN jobs /\ jobs[i].phase = "bootstrap"
  PROVE  TextInv'
<1>1. CASE chain # <<>>
  BY <1>1 DEF TextInv, Excused
<1>2. CASE chain = <<>>
  <2>1. chain' = chain /\ SentCopy'
    BY <1>2, NoneSent DEF Rest
  <2>. QED BY <2>1, TextKept
<1>. QED BY <1>1, <1>2

LEMMA LostText ==
  ASSUME TypeInv, TypeInv', HandlersInv, TextInv, LoseChild
  PROVE  TextInv'
<1>1. /\ Moved(jobs, jobs', Lost(wire), {}, "failed") /\ chain' = Rest /\ copy' = copy
      /\ astray' = (astray \/ \E k \in DOMAIN wire : wire[k].kind = "set")
      /\ chain # <<>> => ~ NoSet(wire)
  BY ChildLost
<1>2. \A i \in Lost(wire) : jobs[i].phase \notin Ended
  BY AwaitPhase DEF Lost, Ended
<1>3. Follows(jobs, jobs')
  BY <1>1, <1>2, MovedFollows
<1>4. UNCHANGED <<draft, hydrated, timer>> /\ (astray => astray') /\ (chain # <<>> => astray')
  BY <1>1 DEF LoseChild, NoSet
<1>5. \A i \in DOMAIN jobs' : jobs'[i].phase = "bootstrap" => i \in DOMAIN jobs /\ jobs[i].phase = "bootstrap"
  BY <1>1 DEF Moved
<1>6. ExcusedBy(jobs) => ExcusedBy(jobs')
  BY <1>3, FollowsExcused
<1>. QED BY <1>1, <1>4, <1>5, <1>6, RejectedText

\* An answer lets no handler begin its bootstrap.
LEMMA HeardBootstrap ==
  ASSUME NEW new, NEW e, NEW failed, NEW swallowed, Heard(new, e, failed, swallowed)
  PROVE  \A i \in DOMAIN new : new[i].phase = "bootstrap" => i \in DOMAIN jobs /\ jobs[i].phase = "bootstrap"
<1>1. \A kind : Onward(kind) # "bootstrap"
  BY DEF Onward
<1>. QED BY <1>1 DEF Heard

LEMMA WrittenText ==
  ASSUME TypeInv, TypeInv', HandlersInv, TextInv, wire # <<>>, NEW e, e = Head(wire), DeliverWrite(e),
         UNCHANGED <<draft, timer>>, ExcusedBy(jobs) => ExcusedBy(jobs')
  PROVE  TextInv'
<1>1. /\ e \in Request /\ e = wire[1] /\ 1 \in DOMAIN wire /\ e.kind = "set"
      /\ chain # <<>> /\ NoSet(Tail(wire)) /\ Tail(chain) \in Seq(Write)
      /\ chain' = IF Loading(Tail(wire)) THEN <<>> ELSE Tail(chain)
      /\ copy' = IF Loading(Tail(wire)) THEN LastText(e.draft, Tail(chain)) ELSE e.draft
      /\ Moved(jobs, jobs', ReadyNow(e), {e.owner}, "save")
      /\ Behind(Tail(wire), NextSet(Tail(chain), Tail(wire), e.draft) \cup Saves(jobs, ReadyNow(e)), wire')
      /\ ReadyNow(e) \subseteq DOMAIN jobs /\ \A i \in ReadyNow(e) : jobs[i].name \in Name
  BY WriteDelivered
<1>2. UNCHANGED <<view, hydrated, astray>>
  BY DEF DeliverWrite
<1>3. CASE Excused
  BY <1>2, <1>3 DEF TextInv, Excused
<1>4. CASE ~ Excused
  <2>1. \A i \in DOMAIN jobs : jobs[i].phase # "bootstrap"
    BY <1>1, <1>4, LateExcuses
  <2>2. Booted'
    BY <1>1, <2>1 DEF Booted, Moved
  <2>3. chain \in Seq(Write) /\ e.draft \in Draft
    BY <1>1, TypeParts DEF Queues, Request
  <2>4. e.draft = IF chain[1].draft = Same THEN copy ELSE chain[1].draft
    <3>1. OneSet(chain, wire) /\ SentCopy
      BY <1>4 DEF TypeInv, TextInv
    <3>. QED BY <1>1, <3>1 DEF OneSet, SentCopy
  <2>5. LastText(copy, chain) = LastText(e.draft, Tail(chain))
    BY <1>1, <2>3, <2>4, LastSplit
  <2>6. LastText(copy', chain') = LastText(copy, chain)
    <3>1. \A text : LastText(text, <<>>) = text
      BY LastNone DEF Texts
    <3>. QED BY <1>1, <2>5, <3>1
  <2>7. Newest'
    BY <1>2, <1>4, <2>6 DEF TextInv, Newest
  <2>8. SentCopy'
    <3>1. CASE Loading(Tail(wire))
      BY <1>1, <3>1, NoneSent
    <3>2. CASE ~ Loading(Tail(wire))
      <4>1. chain' = Tail(chain) /\ copy' = e.draft
        BY <1>1, <3>2
      <4>2. \A x \in Saves(jobs, ReadyNow(e)) : x.kind # "set"
        BY <1>1, SaveType, TypeParts DEF Saves, Queues
      <4>3. ASSUME NEW x \in NextSet(Tail(chain), Tail(wire), e.draft)
            PROVE  Tail(chain)[1].draft = Same => x.draft = e.draft
        <5>. DEFINE rest == Tail(chain)
                    left == Tail(wire)
                    text == e.draft
        <5>1. rest \in Seq(Write) /\ text \in Draft /\ x \in NextSet(rest, left, text)
          BY <1>1, <2>3, <4>3
        <5>. HIDE DEF rest, left, text
        <5>2. x.draft = IF rest[1].draft = Same THEN text ELSE rest[1].draft
          BY <5>1, SetType
        <5>. QED BY <5>2 DEF rest, text
      <4>4. \A k \in DOMAIN wire' : wire'[k].kind = "set" =>
              wire'[k] \in NextSet(Tail(chain), Tail(wire), e.draft)
        BY <1>1, <4>2 DEF Behind, NoSet
      <4>. QED BY <4>1, <4>3, <4>4 DEF SentCopy
    <3>. QED BY <3>1, <3>2
  <2>. QED BY <2>2, <2>7, <2>8 DEF TextInv
<1>. QED BY <1>3, <1>4

LEMMA DeliverText ==
  ASSUME TypeInv, TypeInv', HandlersInv, TextInv, Deliver
  PROVE  TextInv'
<1>. DEFINE e == Head(wire)
<1>1. /\ wire # <<>> /\ (DeliverWrite(e) \/ DeliverSave(e) \/ DeliverTransition(e))
      /\ UNCHANGED <<draft, timer>>
  BY DEF Deliver
<1>. HIDE DEF e
<1>2. e = Head(wire)
  BY DEF e
<1>3. ExcusedBy(jobs) => ExcusedBy(jobs')
  BY DeliverHandlers, FollowsExcused
<1>4. CASE DeliverWrite(e)
  BY <1>1, <1>2, <1>3, <1>4, WrittenText
<1>5. CASE DeliverSave(e)
  <2>1. /\ wire' = Tail(wire) /\ UNCHANGED <<chain, copy, astray>> /\ (hydrated' => hydrated)
        /\ \E failed, swallowed :
             Heard(jobs', e, failed, swallowed) /\ view' = (IF swallowed = {} THEN view ELSE "shell")
    BY <1>1, <1>2, <1>5, SaveHeard
  <2>2. \A i \in DOMAIN jobs' : jobs'[i].phase = "bootstrap" => i \in DOMAIN jobs /\ jobs[i].phase = "bootstrap"
    BY <2>1, HeardBootstrap
  <2>3. SentCopy => SentCopy'
    <3>1. \A k \in DOMAIN wire' : \E l \in DOMAIN wire : wire'[k] = wire[l]
      BY <1>1, <2>1, TypeParts, TailFacts DEF Queues
    <3>. QED BY <2>1, <3>1 DEF SentCopy
  <2>. QED BY <1>1, <1>3, <2>1, <2>2, <2>3, TextKept
<1>6. CASE DeliverTransition(e)
  <2>1. /\ (hydrated' => hydrated) /\ chain' = Rest /\ copy' = copy
        /\ astray' = (astray \/ \E k \in DOMAIN Tail(wire) : Tail(wire)[k].kind = "set")
        /\ chain # <<>> => ~ NoSet(Tail(wire))
        /\ \E failed, swallowed :
             Heard(jobs', e, failed, swallowed) /\ view' = (IF swallowed = {} THEN view ELSE "shell")
    BY <1>1, <1>2, <1>6, TransitionHeard
  <2>2. \A i \in DOMAIN jobs' : jobs'[i].phase = "bootstrap" => i \in DOMAIN jobs /\ jobs[i].phase = "bootstrap"
    BY <2>1, HeardBootstrap
  <2>3. (astray => astray') /\ (chain # <<>> => astray')
    BY <2>1 DEF NoSet
  <2>. QED BY <1>1, <1>3, <2>1, <2>2, <2>3, RejectedText
<1>. QED BY <1>1, <1>4, <1>5, <1>6

LEMMA TextInit ==
  ASSUME Init
  PROVE  TextInv
BY EmptySeq DEF Init, Mounted, TextInv, Newest, Booted, SentCopy

LEMMA TextStep ==
  ASSUME TypeInv, TypeInv', HandlersInv, TextInv, [Next]_vars
  PROVE  TextInv'
<1>1. CASE UNCHANGED vars
  BY <1>1 DEF vars, renderer, adapter, TextInv, Excused, Newest, Booted, SentCopy
<1>2. CASE \/ ShowChooser \/ OpenCreateDialog \/ BackToImages \/ RequestQuit \/ Cancel
  BY <1>2, ViewText
<1>3. CASE (\E n \in Name : OpenImage(n) \/ CreateImage(n)) \/ Discard
  BY <1>3, StartText
<1>4. CASE \E i \in 1..MaxJobs : ReadPreferences(i) \/ Bootstrap(i) \/ ReadFails(i) \/ Registry(i) \/ Quit(i)
  BY <1>4, ReadText, BootstrapText, HandlerText
<1>5. CASE \E d \in Draft : Edit(d)
  BY <1>5, EditText
<1>6. CASE TimerFires \/ \E kind \in Saving, n \in Name : SaveAndQuit(kind, n)
  BY <1>6, WriteText
<1>7. CASE Reload
  BY <1>7, ReloadText
<1>8. CASE Serve \/ Deliver \/ LoseChild
  BY <1>8, ServeText, DeliverText, LostText
<1>. QED BY <1>1, <1>2, <1>3, <1>4, <1>5, <1>6, <1>7, <1>8 DEF Next

LEMMA TextInvariant == Spec => []TextInv
<1>1. Init => TextInv
  BY TextInit
<1>2. TypeInv /\ TypeInv' /\ HandlersInv /\ TextInv /\ [Next]_vars => TextInv'
  BY TextStep
<1>. QED BY <1>1, <1>2, TypesInvariant, HandlersInvariant, PTL DEF Spec

(* A text that was typed is on its way to the environment until it has     *)
(* been given to the adapter: the chain of setDesktopPreferences loses     *)
(* none, whatever order the edits, the timer, the handlers and the         *)
(* answers come in.                                                        *)
THEOREM TypedTextKept == Spec => []TypedTextIsOnItsWay
<1>1. TypeInv /\ TextInv => TypedTextIsOnItsWay
  <2>. SUFFICES ASSUME TypeInv, TextInv, hydrated, ~ timer, ~ Excused
                PROVE  copy = draft \/ \E k \in DOMAIN chain : chain[k].draft = draft
    BY DEF TypedTextIsOnItsWay, Excused, ExcusedBy
  <2>1. LastText(copy, chain) = draft /\ chain \in Seq(Write)
    BY TypeParts DEF TextInv, Newest, Queues
  <2>2. CASE Texts(chain) = {}
    BY <2>1, <2>2, LastNone
  <2>3. CASE Texts(chain) # {}
    <3>1. PICK k \in Texts(chain) : \A l \in Texts(chain) : l <= k
      BY <2>1, <2>3, HasLast
    <3>2. LastText(copy, chain) = chain[k].draft
      BY <2>1, <3>1, LastIs
    <3>. QED BY <2>1, <3>1, <3>2 DEF Texts
  <2>. QED BY <2>2, <2>3
<1>. QED BY <1>1, TypesInvariant, TextInvariant, PTL
-----------------------------------------------------------------------------
(* The order of the requests: they are answered in the order they were     *)
(* sent, those of a page that was loaded again come first, and none of     *)
(* them is left when a handler has read what its image holds, or when the  *)
(* shell is shown.                                                         *)
Foreign(e) == e.owner = 0 /\ e.kind # "set"

Native(w) == \A k \in DOMAIN w : ~ Foreign(w[k])

InLine(w) ==
  /\ \A j, k \in DOMAIN w : j < k /\ w[k].answer # "none" => w[j].answer # "none"
  /\ \A j, k \in DOMAIN w : w[j].owner # 0 /\ Foreign(w[k]) => k < j

Reader(js) == \E i \in DOMAIN js : js[i].phase \in {"read", "bootstrap"}

OrderInv == InLine(wire) /\ (view = "shell" \/ Reader(jobs) => Native(wire))

\* Requests that are no strangers join the line.
LEMMA LineBehind ==
  ASSUME NEW w \in Seq(Request), NEW line \in Seq(Request), NEW new, Behind(w, new, line), InLine(w),
         \A e \in new : e.answer = "none" /\ ~ Foreign(e)
  PROVE  InLine(line) /\ (Native(w) => Native(line))
<1>1. /\ \A k \in DOMAIN w : k \in DOMAIN line /\ line[k] = w[k]
      /\ \A k \in DOMAIN line : \/ k \in DOMAIN w /\ line[k] = w[k]
                                \/ k \notin DOMAIN w /\ line[k] \in new /\ \A j \in DOMAIN w : j < k
  BY DEF Behind
<1>2. \A j, k \in DOMAIN line : j < k /\ line[k].answer # "none" => line[j].answer # "none"
  <2>. SUFFICES ASSUME NEW j \in DOMAIN line, NEW k \in DOMAIN line, j < k, line[k].answer # "none"
                PROVE  line[j].answer # "none"
    OBVIOUS
  <2>1. k \in DOMAIN w /\ k \in Nat /\ j \in Nat
    BY <1>1, LenProperties
  <2>2. j \in DOMAIN w
    BY <2>1, LenProperties
  <2>. QED BY <1>1, <2>1, <2>2 DEF InLine
<1>3. \A j, k \in DOMAIN line : line[j].owner # 0 /\ Foreign(line[k]) => k < j
  BY <1>1 DEF InLine
<1>. QED BY <1>1, <1>2, <1>3 DEF InLine, Native

LEMMA LineTail ==
  ASSUME NEW w \in Seq(Request), w # <<>>, InLine(w)
  PROVE  /\ InLine(Tail(w)) /\ (Native(w) => Native(Tail(w)))
         /\ w[1].owner # 0 => Native(w)
<1>1. /\ Tail(w) \in Seq(Request) /\ 1 \in DOMAIN w /\ DOMAIN w \subseteq Nat \ {0}
      /\ \A k \in DOMAIN Tail(w) : k \in Nat \ {0} /\ k + 1 \in DOMAIN w /\ Tail(w)[k] = w[k + 1]
  BY TailFacts, LenProperties
<1>2. \A j, k \in DOMAIN Tail(w) : j < k /\ Tail(w)[k].answer # "none" => Tail(w)[j].answer # "none"
  BY <1>1 DEF InLine
<1>3. \A j, k \in DOMAIN Tail(w) : Tail(w)[j].owner # 0 /\ Foreign(Tail(w)[k]) => k < j
  BY <1>1 DEF InLine
<1>. QED BY <1>1, <1>2, <1>3 DEF InLine, Native

LEMMA LineNone ==
  InLine(<<>>) /\ Native(<<>>) /\ (<<>> \in Seq(Request))
BY DEF InLine, Native

\* What a step may put on the wire.
LEMMA NewRequests ==
  ASSUME NEW js \in Jobs, NEW ready, ready \subseteq DOMAIN js, \A i \in ready : js[i].name \in Name
  PROVE  \A e \in Saves(js, ready) : e.answer = "none" /\ ~ Foreign(e)
BY SaveType DEF Saves, Foreign

LEMMA NewSets ==
  ASSUME NEW ch \in Seq(Write), NEW w, NEW text \in Draft
  PROVE  \A e \in NextSet(ch, w, text) : e.answer = "none" /\ e.kind = "set" /\ ~ Foreign(e)
BY SetType DEF Foreign

\* The line after a step that sends, or rejects.
LEMMA PersistOrder ==
  ASSUME NEW w, w = wire, w \in Seq(Request), InLine(w), wire' \in Seq(Request),
         NEW js \in Jobs, NEW d, NEW owner \in 0..MaxJobs,
         owner # 0 => owner \in DOMAIN js /\ js[owner].name \in Name,
         Queued(d, owner, js) \/ Copied(d, owner, js) \/ Sent(d, owner, js)
  PROVE  InLine(wire)' /\ (Native(w) => Native(wire)')
<1>. DEFINE line == wire'
<1>1. CASE Queued(d, owner, js)
  BY <1>1 DEF Queued
<1>2. CASE Copied(d, owner, js)
  <2>1. Behind(w, Saves(js, {owner} \ {0}), line)
    BY <1>2 DEF Copied
  <2>2. \A e \in Saves(js, {owner} \ {0}) : e.answer = "none" /\ ~ Foreign(e)
    BY NewRequests
  <2>3. line \in Seq(Request)
    OBVIOUS
  <2>. HIDE DEF line
  <2>4. InLine(line) /\ (Native(w) => Native(line))
    BY <2>1, <2>2, <2>3, LineBehind
  <2>. QED BY <2>4 DEF line
<1>3. CASE Sent(d, owner, js)
  <2>1. PICK e \in Request : e.kind = "set" /\ e.answer = "none" /\ Behind(w, {e}, line)
    BY <1>3 DEF Sent
  <2>2. \A x \in {e} : x.answer = "none" /\ ~ Foreign(x)
    BY <2>1 DEF Foreign
  <2>3. line \in Seq(Request)
    OBVIOUS
  <2>. HIDE DEF line
  <2>4. InLine(line) /\ (Native(w) => Native(line))
    BY <2>1, <2>2, <2>3, LineBehind
  <2>. QED BY <2>4 DEF line
<1>. QED BY <1>1, <1>2, <1>3

LEMMA RejectedOrder ==
  ASSUME NEW ch \in Seq(Write), NEW text \in Draft, wire' \in Seq(Request),
         Behind(<<>>, NextSet(ch, <<>>, text), wire')
  PROVE  /\ InLine(wire)' /\ Native(wire)'
         /\ \A k \in DOMAIN wire' : wire'[k].kind = "set" /\ wire'[k].answer = "none"
<1>. DEFINE line == wire'
<1>1. line \in Seq(Request) /\ Behind(<<>>, NextSet(ch, <<>>, text), line)
  OBVIOUS
<1>2. \A e \in NextSet(ch, <<>>, text) : e.answer = "none" /\ e.kind = "set" /\ ~ Foreign(e)
  BY NewSets
<1>. HIDE DEF line
<1>3. InLine(line) /\ Native(line)
  BY <1>1, <1>2, LineBehind, LineNone
<1>4. \A k \in DOMAIN line : line[k] \in NextSet(ch, <<>>, text)
  BY <1>1, EmptyFacts DEF Behind
<1>. QED BY <1>2, <1>3, <1>4 DEF line

\* Who reads after a step read before it.
Reads(old, new) ==
  \A i \in DOMAIN new : new[i].phase \in {"read", "bootstrap"} =>
    i \in DOMAIN old /\ old[i].phase \in {"read", "bootstrap"}

LEMMA MovedReads ==
  ASSUME NEW old, NEW new, NEW S, NEW C, NEW phase, Moved(old, new, S, C, phase),
         phase \notin {"read", "bootstrap"} \/ \A i \in S : old[i].phase = "read"
  PROVE  Reads(old, new)
BY DEF Moved, Reads

LEMMA BeginsReads ==
  ASSUME NEW new, NEW kind, NEW phase, NEW name, Begins(jobs, new, kind, phase, name),
         phase \notin {"read", "bootstrap"}
  PROVE  Reads(jobs, new)
BY DEF Begins, Reads

LEMMA ReadsReader ==
  ASSUME NEW old, NEW new, Reads(old, new)
  PROVE  Reader(new) => Reader(old)
BY DEF Reads, Reader

\* A step that brings nobody to the shell, and nothing foreign to the line.
LEMMA OrderKept ==
  ASSUME OrderInv, InLine(wire)', Native(wire) => Native(wire)', Reads(jobs, jobs'),
         view' = "shell" => view = "shell" \/ Reader(jobs)
  PROVE  OrderInv'
BY ReadsReader DEF OrderInv

LEMMA ViewOrder ==
  ASSUME TypeInv, OrderInv, ShowChooser \/ OpenCreateDialog \/ BackToImages \/ RequestQuit \/ Cancel
  PROVE  OrderInv'
<1>1. UNCHANGED <<jobs, wire>> /\ (view' = "shell" => view = "shell")
  <2>1. CASE ShowChooser
    BY <2>1 DEF ShowChooser
  <2>2. CASE OpenCreateDialog
    BY <2>2 DEF OpenCreateDialog
  <2>3. CASE BackToImages
    BY <2>3 DEF BackToImages
  <2>4. CASE RequestQuit
    BY <2>4 DEF RequestQuit
  <2>5. CASE Cancel
    BY <2>5 DEF Cancel
  <2>. QED BY <2>1, <2>2, <2>3, <2>4, <2>5
<1>. QED BY <1>1 DEF OrderInv

LEMMA StartOrder ==
  ASSUME TypeInv, TypeInv', OrderInv, (\E n \in Name : OpenImage(n) \/ CreateImage(n)) \/ Discard
  PROVE  OrderInv'
<1>1. \E kind, phase, name : phase \in {"load", "save", "revert"} /\ Starts(kind, phase, name)
  BY StartMoves
<1>2. PICK kind, phase, name : phase \in {"load", "save", "revert"} /\ Starts(kind, phase, name)
  BY <1>1
<1>3. Begins(jobs, jobs', kind, phase, name)
  BY <1>2 DEF Starts
<1>4. PICK e \in Request : Behind(wire, {e}, wire') /\ e.owner = Me /\ e.answer = "none"
  BY <1>2 DEF Starts
<1>5. Reads(jobs, jobs')
  BY <1>2, <1>3, BeginsReads
<1>6. \A x \in {e} : x.answer = "none" /\ ~ Foreign(x)
  BY <1>3, <1>4 DEF Begins, Foreign
<1>7. InLine(wire') /\ (Native(wire) => Native(wire'))
  <2>. DEFINE line == wire'
  <2>1. wire \in Seq(Request) /\ line \in Seq(Request) /\ Behind(wire, {e}, line)
    BY <1>4, TypeParts DEF Queues
  <2>2. InLine(wire)
    BY DEF OrderInv
  <2>. HIDE DEF line
  <2>3. InLine(line) /\ (Native(wire) => Native(line))
    BY <1>6, <2>1, <2>2, LineBehind
  <2>. QED BY <2>3 DEF line
<1>8. view' = view
  BY StartMoves
<1>. QED BY <1>5, <1>7, <1>8, OrderKept DEF InLine, Native

LEMMA HandlerOrder ==
  ASSUME TypeInv, OrderInv, NEW i, ReadPreferences(i) \/ ReadFails(i) \/ Registry(i) \/ Quit(i)
  PROVE  OrderInv'
<1>1. wire' = wire
  <2>1. CASE ReadPreferences(i)
    BY <2>1 DEF ReadPreferences
  <2>2. CASE ReadFails(i)
    BY <2>2 DEF ReadFails
  <2>3. CASE Registry(i)
    BY <2>3 DEF Registry
  <2>4. CASE Quit(i)
    BY <2>4 DEF Quit
  <2>. QED BY <2>1, <2>2, <2>3, <2>4
<1>2. CASE ReadPreferences(i)
  <2>1. Moved(jobs, jobs', {i}, {}, "bootstrap") /\ jobs[i].phase = "read"
    BY <1>2, ReadMoves
  <2>2. view' = view /\ Reads(jobs, jobs')
    BY <1>2, <2>1, MovedReads DEF ReadPreferences
  <2>. QED BY <1>1, <2>2, OrderKept DEF OrderInv
<1>3. CASE ReadFails(i) \/ Registry(i) \/ Quit(i)
  <2>1. PICK phase \in {"done", "failed", "quit"} :
           /\ Moved(jobs, jobs', {i}, {}, phase) /\ i \in DOMAIN jobs
           /\ ReadFails(i) => jobs[i].phase \in {"read", "bootstrap"}
    BY <1>3, StepMoves
  <2>2. Reads(jobs, jobs')
    BY <2>1, MovedReads
  <2>3. view' = "shell" => view = "shell" \/ Reader(jobs)
    BY <1>3, <2>1 DEF Registry, Quit, renderer, Reader
  <2>. QED BY <1>1, <2>2, <2>3, OrderKept DEF OrderInv
<1>. QED BY <1>2, <1>3

LEMMA EditOrder ==
  ASSUME TypeInv, OrderInv, NEW d \in Draft, Edit(d)
  PROVE  OrderInv'
<1>1. Moved(jobs, jobs', {}, {}, "done")
  BY EditMoves
<1>2. Reads(jobs, jobs') /\ UNCHANGED <<view, wire>>
  BY <1>1, MovedReads DEF Edit
<1>. QED BY <1>2, OrderKept DEF OrderInv

LEMMA PersistedOrder ==
  ASSUME TypeInv, TypeInv', OrderInv,
         TimerFires \/ (\E i : Bootstrap(i)) \/ \E kind \in Saving, n \in Name : SaveAndQuit(kind, n)
  PROVE  OrderInv'
<1>1. /\ view' = "shell" => view = "shell" \/ Reader(jobs)
      /\ Reads(jobs, jobs')
      /\ \E js \in Jobs : \E d : \E owner \in 0..MaxJobs :
           /\ owner # 0 => owner \in DOMAIN js /\ js[owner].name \in Name
           /\ Queued(d, owner, js) \/ Copied(d, owner, js) \/ Sent(d, owner, js)
  <2>1. CASE TimerFires
    <3>1. Queued(draft, 0, jobs) \/ Copied(draft, 0, jobs) \/ Sent(draft, 0, jobs)
      BY <2>1, TimerMoves
    <3>2. Moved(jobs, jobs', {}, {}, "save")
      BY <2>1, TimerMoves
    <3>3. view' = view /\ Reads(jobs, jobs') /\ jobs \in Jobs
      BY <2>1, <3>2, MovedReads, TypeParts DEF TimerFires, Queues
    <3>. QED BY <3>1, <3>3
  <2>2. CASE \E i : Bootstrap(i)
    <3>1. PICK i : Bootstrap(i)
      BY <2>2
    <3>2. PICK js \in Jobs : Queued(Same, 0, js) \/ Copied(Same, 0, js) \/ Sent(Same, 0, js)
      BY <3>1, BootstrapMoves
    <3>3. Moved(jobs, jobs', {i}, {}, "done") /\ i \in DOMAIN jobs /\ jobs[i].phase = "bootstrap"
      BY <3>1, BootstrapMoves
    <3>4. Reads(jobs, jobs') /\ Reader(jobs)
      BY <3>3, MovedReads DEF Reader
    <3>. QED BY <3>2, <3>4
  <2>3. CASE \E kind \in Saving, n \in Name : SaveAndQuit(kind, n)
    <3>1. PICK kind \in Saving, n \in Name : SaveAndQuit(kind, n)
      BY <2>3
    <3>2. PICK js \in Jobs :
             /\ Begins(jobs, js, kind, "flush", n)
             /\ Queued(draft, Me, js) \/ Copied(draft, Me, js) \/ Sent(draft, Me, js)
             /\ \E S \in SUBSET {Me} : Moved(js, jobs', S, {}, "save")
      BY <3>1, SaveAndQuitMoves
    <3>3. Me \in 0..MaxJobs /\ Me \in DOMAIN js /\ js[Me].name \in Name
      BY <3>2 DEF Begins
    <3>4. PICK S \in SUBSET {Me} : Moved(js, jobs', S, {}, "save")
      BY <3>2
    <3>5. Reads(jobs, js) /\ Reads(js, jobs')
      BY <3>2, <3>4, BeginsReads, MovedReads
    <3>6. Reads(jobs, jobs')
      BY <3>5 DEF Reads
    <3>7. view' = view
      BY <3>1 DEF SaveAndQuit
    <3>. QED BY <3>2, <3>3, <3>6, <3>7
  <2>. QED BY <2>1, <2>2, <2>3
<1>2. PICK js \in Jobs : \E d : \E owner \in 0..MaxJobs :
           /\ owner # 0 => owner \in DOMAIN js /\ js[owner].name \in Name
           /\ Queued(d, owner, js) \/ Copied(d, owner, js) \/ Sent(d, owner, js)
  BY <1>1
<1>3. PICK d : \E owner \in 0..MaxJobs :
           /\ owner # 0 => owner \in DOMAIN js /\ js[owner].name \in Name
           /\ Queued(d, owner, js) \/ Copied(d, owner, js) \/ Sent(d, owner, js)
  BY <1>2
<1>4. PICK owner \in 0..MaxJobs :
           /\ owner # 0 => owner \in DOMAIN js /\ js[owner].name \in Name
           /\ Queued(d, owner, js) \/ Copied(d, owner, js) \/ Sent(d, owner, js)
  BY <1>3
<1>5. wire \in Seq(Request) /\ wire' \in Seq(Request) /\ InLine(wire)
  BY TypeParts DEF Queues, OrderInv
<1>6. InLine(wire)' /\ (Native(wire) => Native(wire)')
  BY <1>4, <1>5, PersistOrder
<1>. QED BY <1>1, <1>6, OrderKept

LEMMA ReloadOrder ==
  ASSUME TypeInv, OrderInv, Reload
  PROVE  OrderInv'
<1>1. /\ \A i \in DOMAIN jobs : jobs'[i].phase \in Ended
      /\ Moved(jobs, jobs', {i \in DOMAIN jobs : Active(i)}, {}, "dropped")
      /\ wire' = Disown(wire) /\ wire \in Seq(Request)
  BY ReloadMoves, TypeParts DEF Queues
<1>2. view' = "loading" /\ ~ Reader(jobs')
  BY <1>1 DEF Reload, Reader, Moved, Ended
<1>3. /\ DOMAIN wire' = DOMAIN wire
      /\ \A k \in DOMAIN wire : wire'[k].owner = 0 /\ wire'[k].answer = wire[k].answer
  BY <1>1, DisownedWire
<1>. QED BY <1>2, <1>3 DEF OrderInv, InLine, Reader

LEMMA ServeOrder ==
  ASSUME TypeInv, OrderInv, Serve
  PROVE  OrderInv'
<1>1. PICK k \in DOMAIN wire, answer \in {"ok", "error"} : Answer(k, answer)
  BY ServeAnswers
<1>2. UNCHANGED <<view, jobs>>
  BY ServeAnswers DEF renderer
<1>3. /\ DOMAIN wire' = DOMAIN wire
      /\ \A l \in DOMAIN wire :
           /\ wire'[l].kind = wire[l].kind /\ wire'[l].owner = wire[l].owner
           /\ wire'[l].answer = IF l = k THEN answer ELSE wire[l].answer
  BY <1>1, AnswerFacts
<1>4. \A l \in DOMAIN wire : l < k => wire[l].answer # "none"
  <2>1. wire \in Seq(Request)
    BY TypeParts DEF Queues
  <2>2. \A l \in DOMAIN wire : l < k => l \in 1..(k - 1)
    BY <2>1, LenProperties
  <2>. QED BY <1>1, <2>2 DEF Answer
<1>5. \A j, l \in DOMAIN wire' : j < l /\ wire'[l].answer # "none" => wire'[j].answer # "none"
  BY <1>3, <1>4 DEF OrderInv, InLine
<1>6. \A l \in DOMAIN wire' : Foreign(wire'[l]) <=> Foreign(wire[l])
  BY <1>3 DEF Foreign
<1>. QED BY <1>2, <1>3, <1>5, <1>6 DEF OrderInv, InLine, Native

LEMMA LostOrder ==
  ASSUME TypeInv, OrderInv, LoseChild
  PROVE  OrderInv'
<1>1. /\ Rest \in Seq(Write) /\ Moved(jobs, jobs', Lost(wire), {}, "failed")
      /\ Behind(<<>>, NextSet(Rest, <<>>, copy), wire') /\ wire' \in Seq(Request) /\ copy \in Draft
  BY ChildLost, TypeParts DEF Queues
<1>2. InLine(wire)' /\ Native(wire)'
  BY <1>1, RejectedOrder
<1>3. Reads(jobs, jobs') /\ view' = view
  BY <1>1, MovedReads DEF LoseChild
<1>. QED BY <1>2, <1>3, OrderKept

\* An answer that is heard by somebody who then reads: it was first, so nothing foreign is left.
LEMMA HeardReads ==
  ASSUME NEW new, NEW e, NEW failed, NEW swallowed, Heard(new, e, failed, swallowed),
         e.owner = 0 \/ (e.owner \in DOMAIN jobs /\ jobs[e.owner].kind \notin Startup),
         \A i \in DOMAIN jobs : i # 0
  PROVE  Reads(jobs, new)
<1>1. ASSUME NEW i \in DOMAIN new, new[i].phase \in {"read", "bootstrap"}
      PROVE  i \in DOMAIN jobs /\ jobs[i].phase \in {"read", "bootstrap"}
  <2>1. i \in DOMAIN jobs /\ i \notin failed /\ i \notin swallowed
    BY <1>1 DEF Heard
  <2>2. i # e.owner
    <3>1. ASSUME i = e.owner PROVE new[i].phase = Onward(jobs[i].kind) /\ jobs[i].kind \notin Startup
      BY <2>1, <3>1 DEF Heard
    <3>. QED BY <1>1, <3>1 DEF Onward, Startup
  <2>. QED BY <1>1, <2>1, <2>2 DEF Heard
<1>. QED BY <1>1 DEF Reads

LEMMA DeliverOrder ==
  ASSUME TypeInv, TypeInv', OrderInv, Deliver
  PROVE  OrderInv'
<1>. DEFINE e == Head(wire)
<1>1. wire # <<>> /\ (DeliverWrite(e) \/ DeliverSave(e) \/ DeliverTransition(e))
  BY DEF Deliver
<1>. HIDE DEF e
<1>2. e = Head(wire) /\ wire \in Seq(Request) /\ wire' \in Seq(Request) /\ copy \in Draft
  BY TypeParts DEF e, Queues
<1>3. /\ InLine(Tail(wire)) /\ (Native(wire) => Native(Tail(wire)))
      /\ wire[1].owner # 0 => Native(wire)
  BY <1>1, <1>2, LineTail DEF OrderInv
<1>4. CASE DeliverWrite(e)
  <2>1. /\ Tail(wire) \in Seq(Request) /\ Tail(chain) \in Seq(Write) /\ e \in Request
        /\ ReadyNow(e) \subseteq DOMAIN jobs /\ \A i \in ReadyNow(e) : jobs[i].name \in Name
        /\ Moved(jobs, jobs', ReadyNow(e), {e.owner}, "save")
        /\ Behind(Tail(wire), NextSet(Tail(chain), Tail(wire), e.draft) \cup Saves(jobs, ReadyNow(e)), wire')
    BY <1>1, <1>2, <1>4, WriteDelivered
  <2>. DEFINE line == wire'
              left == Tail(wire)
              new == NextSet(Tail(chain), Tail(wire), e.draft) \cup Saves(jobs, ReadyNow(e))
  <2>2. line \in Seq(Request) /\ left \in Seq(Request) /\ Behind(left, new, line) /\ InLine(left)
    BY <1>2, <1>3, <2>1
  <2>3. \A x \in new : x.answer = "none" /\ ~ Foreign(x)
    <3>1. jobs \in Jobs /\ e.draft \in Draft
      BY <2>1, TypeParts DEF Queues, Request
    <3>2. \A x \in NextSet(Tail(chain), Tail(wire), e.draft) : x.answer = "none" /\ ~ Foreign(x)
      <4>. DEFINE rest == Tail(chain)
                  text == e.draft
      <4>1. rest \in Seq(Write) /\ text \in Draft
        BY <2>1, <3>1
      <4>. HIDE DEF rest, text
      <4>2. \A x \in NextSet(rest, left, text) : x.answer = "none" /\ ~ Foreign(x)
        BY <4>1, NewSets
      <4>. QED BY <4>2 DEF rest, text
    <3>3. \A x \in Saves(jobs, ReadyNow(e)) : x.answer = "none" /\ ~ Foreign(x)
      BY <2>1, <3>1, NewRequests
    <3>. QED BY <3>2, <3>3
  <2>. HIDE DEF line, left, new
  <2>4. InLine(line) /\ (Native(left) => Native(line))
    BY <2>2, <2>3, LineBehind
  <2>5. InLine(wire)' /\ (Native(wire) => Native(wire)')
    BY <1>3, <2>4 DEF line, left
  <2>6. Reads(jobs, jobs') /\ view' = view
    BY <1>4, <2>1, MovedReads DEF DeliverWrite
  <2>. QED BY <2>5, <2>6, OrderKept
<1>5. CASE DeliverSave(e) \/ DeliverTransition(e)
  <2>1. /\ e \in Request /\ e = wire[1] /\ 1 \in DOMAIN wire
        /\ InLine(wire)' /\ (Native(wire) => Native(wire)')
        /\ \E failed, swallowed :
             Heard(jobs', e, failed, swallowed) /\ view' = (IF swallowed = {} THEN view ELSE "shell")
    <3>1. CASE DeliverSave(e)
      <4>1. wire' = Tail(wire)
        BY <1>1, <1>2, <3>1, SaveHeard
      <4>2. InLine(wire)' /\ (Native(wire) => Native(wire)')
        BY <1>3, <4>1
      <4>. QED BY <1>1, <1>2, <3>1, <4>2, SaveHeard
    <3>2. CASE DeliverTransition(e)
      <4>1. Rest \in Seq(Write) /\ Behind(<<>>, NextSet(Rest, <<>>, copy), wire')
        BY <1>1, <1>2, <3>2, TransitionHeard
      <4>2. InLine(wire)' /\ Native(wire)'
        BY <1>2, <4>1, RejectedOrder
      <4>. QED BY <1>1, <1>2, <3>2, <4>2, TransitionHeard
    <3>. QED BY <1>5, <3>1, <3>2
  <2>2. PICK failed, swallowed :
           Heard(jobs', e, failed, swallowed) /\ view' = (IF swallowed = {} THEN view ELSE "shell")
    BY <2>1
  <2>3. view' = "shell" => view = "shell" \/ Reader(jobs)
    BY <2>2 DEF Heard, Reading, Reader
  <2>4. CASE e.owner # 0
    BY <1>3, <2>1, <2>4 DEF OrderInv
  <2>5. CASE e.owner = 0
    <3>1. Reads(jobs, jobs')
      BY <2>2, <2>5, HeardReads, AwaitPhase
    <3>. QED BY <2>1, <2>3, <3>1, OrderKept
  <2>. QED BY <2>4, <2>5
<1>. QED BY <1>1, <1>4, <1>5

LEMMA OrderInit ==
  ASSUME Init
  PROVE  OrderInv
BY EmptySeq DEF Init, Mounted, OrderInv, InLine, Native, Reader

LEMMA OrderStep ==
  ASSUME TypeInv, TypeInv', OrderInv, [Next]_vars
  PROVE  OrderInv'
<1>1. CASE UNCHANGED vars
  BY <1>1 DEF vars, renderer, OrderInv
<1>2. CASE \/ ShowChooser \/ OpenCreateDialog \/ BackToImages \/ RequestQuit \/ Cancel
  BY <1>2, ViewOrder
<1>3. CASE (\E n \in Name : OpenImage(n) \/ CreateImage(n)) \/ Discard
  BY <1>3, StartOrder
<1>4. CASE \E i \in 1..MaxJobs : ReadPreferences(i) \/ Bootstrap(i) \/ ReadFails(i) \/ Registry(i) \/ Quit(i)
  BY <1>4, HandlerOrder, PersistedOrder
<1>5. CASE \E d \in Draft : Edit(d)
  BY <1>5, EditOrder
<1>6. CASE TimerFires \/ \E kind \in Saving, n \in Name : SaveAndQuit(kind, n)
  BY <1>6, PersistedOrder
<1>7. CASE Reload
  BY <1>7, ReloadOrder
<1>8. CASE Serve \/ Deliver \/ LoseChild
  BY <1>8, ServeOrder, DeliverOrder, LostOrder
<1>. QED BY <1>1, <1>2, <1>3, <1>4, <1>5, <1>6, <1>7, <1>8 DEF Next

LEMMA OrderInvariant == Spec => []OrderInv
<1>1. Init => OrderInv
  BY OrderInit
<1>2. TypeInv /\ TypeInv' /\ OrderInv /\ [Next]_vars => OrderInv'
  BY OrderStep
<1>. QED BY <1>1, <1>2, TypesInvariant, PTL DEF Spec
-----------------------------------------------------------------------------
(* The image that is opened.  While one handler opens an image, and no     *)
(* other runs, nothing is sent behind its load; what the load left in the  *)
(* environment is what the image holds, and nothing is on the wire until   *)
(* it has been read.                                                       *)
LoadsLast ==
  \A k \in DOMAIN wire : wire[k].kind = "load" /\ wire[k].owner # 0 /\ jobs[wire[k].owner].alone =>
    /\ \A l \in DOMAIN wire : l <= k
    /\ wire[k].answer = "ok" => env = images[wire[k].name]

Opening ==
  \A i \in DOMAIN jobs : jobs[i].kind = "open" /\ jobs[i].alone =>
    /\ jobs[i].phase \in {"read", "bootstrap"} => wire = <<>>
    /\ jobs[i].phase = "read" /\ jobs[i].clean => env = images[jobs[i].name]
    /\ jobs[i].phase = "bootstrap" /\ jobs[i].clean => draft = images[jobs[i].name]

OpenInv == LoadsLast /\ Opening

\* No handler that is alone waits for a load, or reads what it has loaded.
NoLoads(js, w) ==
  \A k \in DOMAIN w : w[k].kind = "load" /\ w[k].owner # 0 => w[k].owner \in DOMAIN js /\ ~ js[w[k].owner].alone

NoOpens(js) ==
  \A i \in DOMAIN js : js[i].kind = "open" /\ js[i].alone => js[i].phase \notin {"read", "bootstrap"}

LEMMA NothingOpens ==
  /\ NoLoads(jobs', wire') => LoadsLast'
  /\ NoOpens(jobs') => Opening'
BY DEF NoLoads, LoadsLast, NoOpens, Opening

LEMMA AloneLoad ==
  ASSUME TypeInv, HandlersInv,
         NEW k \in DOMAIN wire, wire[k].kind = "load", wire[k].owner # 0, jobs[wire[k].owner].alone
  PROVE  /\ wire[k].owner \in DOMAIN jobs /\ jobs[wire[k].owner].phase = "load"
         /\ jobs[wire[k].owner].kind = "open" /\ jobs[wire[k].owner].name = wire[k].name
         /\ \A j : Live(jobs, j) => j = wire[k].owner
         /\ view # "shell"
<1>1. /\ wire[k].owner \in DOMAIN jobs /\ jobs[wire[k].owner].phase = "load"
      /\ jobs[wire[k].owner].kind = "open" /\ jobs[wire[k].owner].name = wire[k].name
  BY TypeParts DEF Linked, Owned, Awaits
<1>2. Live(jobs, wire[k].owner)
  BY <1>1 DEF Live, Ended
<1>3. \A j : Live(jobs, j) => j \in DOMAIN jobs
  BY DEF Live
<1>. QED BY <1>1, <1>2, <1>3 DEF HandlersInv, HandlersOf, Startup

LEMMA AloneReader ==
  ASSUME TypeInv, HandlersInv,
         NEW i \in DOMAIN jobs, jobs[i].kind = "open", jobs[i].alone, jobs[i].phase \in {"read", "bootstrap"}
  PROVE  view # "shell" /\ \A j : Live(jobs, j) => j = i
<1>1. Live(jobs, i) /\ \A j : Live(jobs, j) => j \in DOMAIN jobs
  BY DEF Live, Ended
<1>. QED BY <1>1 DEF HandlersInv, HandlersOf, Startup

LEMMA ShellOpens ==
  ASSUME TypeInv, HandlersInv, view = "shell"
  PROVE  NoOpens(jobs) /\ NoLoads(jobs, wire)
BY AloneLoad, AloneReader, AwaitPhase DEF NoOpens, NoLoads

LEMMA BusyOpens ==
  ASSUME Opening, wire # <<>>
  PROVE  NoOpens(jobs)
BY DEF Opening, NoOpens

LEMMA OpensFollow ==
  ASSUME NEW old, NEW new, Follows(old, new), Reads(old, new)
  PROVE  NoOpens(old) => NoOpens(new)
BY DEF Follows, Reads, NoOpens

\* A handler that begins overlaps with those that open.
LEMMA OpensBegin ==
  ASSUME TypeInv, NEW js, NEW kind, NEW phase, NEW name, Begins(jobs, js, kind, phase, name),
         phase \notin {"read", "bootstrap"}
  PROVE  NoOpens(js) /\ NoLoads(js, wire)
<1>1. \A i \in DOMAIN js : i \in DOMAIN jobs \/ i = Me
  BY DEF Begins
<1>2. NoOpens(js)
  BY <1>1 DEF NoOpens, Begins, Live, Ended
<1>3. \A k \in DOMAIN wire : wire[k].owner # 0 => wire[k].owner \in DOMAIN jobs /\ Live(jobs, wire[k].owner)
  BY AwaitPhase DEF Live, Ended
<1>4. NoLoads(js, wire)
  BY <1>3 DEF NoLoads, Begins
<1>. QED BY <1>2, <1>4

\* Loads that were on the wire before.
OldLoads(w, line) ==
  \A k \in DOMAIN line : line[k].kind = "load" => k \in DOMAIN w /\ line[k] = w[k]

LEMMA PersistLoads ==
  ASSUME NEW js \in Jobs, NEW d, NEW owner, owner # 0 => owner \in DOMAIN js /\ js[owner].name \in Name,
         Queued(d, owner, js) \/ Copied(d, owner, js) \/ Sent(d, owner, js)
  PROVE  OldLoads(wire, wire')
<1>1. CASE Queued(d, owner, js)
  BY <1>1 DEF Queued, OldLoads
<1>2. CASE Copied(d, owner, js)
  <2>1. \A e \in Saves(js, {owner} \ {0}) : e.kind = "save"
    BY SaveType DEF Saves
  <2>2. Behind(wire, Saves(js, {owner} \ {0}), wire')
    BY <1>2 DEF Copied
  <2>. QED BY <2>1, <2>2 DEF Behind, OldLoads
<1>3. CASE Sent(d, owner, js)
  <2>1. PICK e \in Request : e.kind = "set" /\ Behind(wire, {e}, wire')
    BY <1>3 DEF Sent
  <2>. QED BY <2>1 DEF Behind, OldLoads
<1>. QED BY <1>1, <1>2, <1>3

LEMMA LoadsFollow ==
  ASSUME NEW old, NEW new, Follows(old, new), NEW w, NEW line, OldLoads(w, line)
  PROVE  NoLoads(old, w) => NoLoads(new, line)
BY DEF Follows, OldLoads, NoLoads

\* A step that leaves the requests, the environment and the images alone.
LEMMA OpenKept ==
  ASSUME LoadsLast, Follows(jobs, jobs'), UNCHANGED <<wire, env, images>>,
         \A k \in DOMAIN wire : wire[k].owner # 0 => wire[k].owner \in DOMAIN jobs
  PROVE  LoadsLast'
BY DEF LoadsLast, Follows

LEMMA ViewOpen ==
  ASSUME TypeInv, OpenInv, ShowChooser \/ OpenCreateDialog \/ BackToImages \/ RequestQuit \/ Cancel
  PROVE  OpenInv'
<1>1. UNCHANGED <<jobs, wire, draft, env, images>>
  <2>1. CASE ShowChooser
    BY <2>1 DEF ShowChooser, service
  <2>2. CASE OpenCreateDialog
    BY <2>2 DEF OpenCreateDialog, service
  <2>3. CASE BackToImages
    BY <2>3 DEF BackToImages, service
  <2>4. CASE RequestQuit
    BY <2>4 DEF RequestQuit, service
  <2>5. CASE Cancel
    BY <2>5 DEF Cancel, service
  <2>. QED BY <2>1, <2>2, <2>3, <2>4, <2>5
<1>. QED BY <1>1 DEF OpenInv, LoadsLast, Opening

LEMMA StartOpen ==
  ASSUME TypeInv, TypeInv', OpenInv, (\E n \in Name : OpenImage(n) \/ CreateImage(n)) \/ Discard
  PROVE  OpenInv'
<1>1. \E kind, phase, name : phase \in {"load", "save", "revert"} /\ Starts(kind, phase, name)
  BY StartMoves
<1>2. PICK kind, phase, name : phase \in {"load", "save", "revert"} /\ Starts(kind, phase, name)
  BY <1>1
<1>3. Begins(jobs, jobs', kind, phase, name)
  BY <1>2 DEF Starts
<1>4. PICK e \in Request : Behind(wire, {e}, wire') /\ e.answer = "none"
  BY <1>2 DEF Starts
<1>5. NoOpens(jobs') /\ NoLoads(jobs', wire)
  BY <1>2, <1>3, OpensBegin
<1>6. ASSUME NEW k \in DOMAIN wire', wire'[k].kind = "load", wire'[k].owner # 0, jobs'[wire'[k].owner].alone
      PROVE  wire'[k].answer = "none" /\ \A l \in DOMAIN wire' : l <= k
  <2>1. k \notin DOMAIN wire
    BY <1>4, <1>5, <1>6 DEF Behind, NoLoads
  <2>2. wire'[k] = e /\ \A l \in DOMAIN wire : l < k
    BY <1>4, <2>1 DEF Behind
  <2>3. DOMAIN wire' \subseteq Nat
    BY TypeParts, LenProperties DEF Queues
  <2>4. ASSUME NEW l \in DOMAIN wire' PROVE l <= k
    <3>1. CASE l \in DOMAIN wire
      BY <2>2, <2>3, <2>4, <3>1
    <3>2. CASE l \notin DOMAIN wire
      <4>1. wire'[l] = e
        BY <1>4, <2>4, <3>2 DEF Behind
      <4>2. l = k
        BY <1>4, <2>1, <2>2, <2>4, <3>2, <4>1 DEF Behind
      <4>. QED BY <2>3, <4>2
    <3>. QED BY <3>1, <3>2
  <2>. QED BY <1>4, <2>2, <2>4
<1>7. LoadsLast'
  BY <1>6 DEF LoadsLast
<1>. QED BY <1>5, <1>7, NothingOpens DEF OpenInv

LEMMA ReadOpen ==
  ASSUME TypeInv, HandlersInv, OpenInv, NEW i, ReadPreferences(i)
  PROVE  OpenInv'
<1>1. Moved(jobs, jobs', {i}, {}, "bootstrap") /\ i \in DOMAIN jobs /\ jobs[i].phase = "read"
  BY ReadMoves
<1>2. draft' = env /\ UNCHANGED <<wire, env, images>>
  BY DEF ReadPreferences, service
<1>3. Follows(jobs, jobs')
  BY <1>1, MovedFollows DEF Ended
<1>4. LoadsLast'
  BY <1>2, <1>3, OpenKept, AwaitPhase DEF OpenInv
<1>5. ASSUME NEW j \in DOMAIN jobs', jobs'[j].kind = "open", jobs'[j].alone
      PROVE  /\ jobs'[j].phase \in {"read", "bootstrap"} => wire' = <<>>
             /\ jobs'[j].phase = "read" /\ jobs'[j].clean => env' = images'[jobs'[j].name]
             /\ jobs'[j].phase = "bootstrap" /\ jobs'[j].clean => draft' = images'[jobs'[j].name]
  <2>1. /\ j \in DOMAIN jobs /\ jobs[j].kind = "open" /\ jobs[j].alone /\ jobs'[j].name = jobs[j].name
        /\ jobs'[j].clean => jobs[j].clean
        /\ jobs'[j].phase = IF j = i THEN "bootstrap" ELSE jobs[j].phase
    BY <1>1, <1>5 DEF Moved
  <2>2. CASE j = i
    BY <1>1, <1>2, <2>1, <2>2 DEF OpenInv, Opening
  <2>3. CASE j # i
    <3>1. jobs[j].phase \notin {"read", "bootstrap"}
      <4>1. Live(jobs, i)
        BY <1>1 DEF Live, Ended
      <4>. QED BY <2>1, <2>3, <4>1, AloneReader
    <3>. QED BY <2>1, <2>3, <3>1
  <2>. QED BY <2>2, <2>3
<1>. QED BY <1>4, <1>5 DEF OpenInv, Opening

LEMMA HandlerOpen ==
  ASSUME TypeInv, HandlersInv, OpenInv, NEW i, ReadFails(i) \/ Registry(i) \/ Quit(i)
  PROVE  OpenInv'
<1>1. PICK phase \in {"done", "failed", "quit"} :
         Moved(jobs, jobs', {i}, {}, phase) /\ jobs[i].phase \in {"read", "bootstrap", "registry", "quit"}
  BY StepMoves
<1>2. UNCHANGED <<wire, draft, env, images>>
  <2>1. CASE ReadFails(i)
    BY <2>1 DEF ReadFails, service
  <2>2. CASE Registry(i)
    BY <2>2 DEF Registry, service
  <2>3. CASE Quit(i)
    BY <2>3 DEF Quit, renderer, service
  <2>. QED BY <2>1, <2>2, <2>3
<1>3. Follows(jobs, jobs')
  BY <1>1, MovedFollows DEF Ended
<1>4. LoadsLast'
  BY <1>2, <1>3, OpenKept, AwaitPhase DEF OpenInv
<1>5. Opening'
  BY <1>1, <1>2 DEF OpenInv, Opening, Moved
<1>. QED BY <1>4, <1>5 DEF OpenInv

LEMMA EditOpen ==
  ASSUME TypeInv, HandlersInv, OpenInv, NEW d \in Draft, Edit(d)
  PROVE  OpenInv'
<1>1. Moved(jobs, jobs', {}, {}, "done")
  BY EditMoves
<1>2. view = "shell" /\ UNCHANGED <<wire, env, images>>
  BY DEF Edit, service
<1>3. Follows(jobs, jobs') /\ Reads(jobs, jobs')
  BY <1>1, MovedFollows, MovedReads
<1>4. NoOpens(jobs')
  BY <1>2, <1>3, ShellOpens, OpensFollow
<1>5. LoadsLast'
  BY <1>2, <1>3, OpenKept, AwaitPhase DEF OpenInv
<1>. QED BY <1>4, <1>5, NothingOpens DEF OpenInv

LEMMA BootstrapOpen ==
  ASSUME TypeInv, HandlersInv, OpenInv, NEW i, Bootstrap(i)
  PROVE  OpenInv'
<1>1. Moved(jobs, jobs', {i}, {}, "done") /\ i \in DOMAIN jobs /\ jobs[i].phase = "bootstrap"
  BY BootstrapMoves
<1>2. Follows(jobs, jobs') /\ Live(jobs, i)
  BY <1>1, MovedFollows DEF Ended, Live
<1>3. PICK js \in Jobs : Queued(Same, 0, js) \/ Copied(Same, 0, js) \/ Sent(Same, 0, js)
  BY BootstrapMoves
<1>4. OldLoads(wire, wire')
  BY <1>3, PersistLoads
<1>5. NoLoads(jobs, wire)
  BY <1>1, <1>2, AloneLoad, AwaitPhase DEF NoLoads
<1>6. NoLoads(jobs', wire')
  BY <1>2, <1>4, <1>5, LoadsFollow
<1>7. NoOpens(jobs')
  <2>1. \A j \in DOMAIN jobs : j # i /\ jobs[j].kind = "open" /\ jobs[j].alone => jobs[j].phase \notin {"read", "bootstrap"}
    BY <1>2, AloneReader
  <2>. QED BY <1>1, <2>1 DEF Moved, NoOpens
<1>. QED BY <1>6, <1>7, NothingOpens DEF OpenInv

LEMMA TimerOpen ==
  ASSUME TypeInv, HandlersInv, OpenInv, TimerFires
  PROVE  OpenInv'
<1>1. Queued(draft, 0, jobs) \/ Copied(draft, 0, jobs) \/ Sent(draft, 0, jobs)
  BY TimerMoves
<1>2. Moved(jobs, jobs', {}, {}, "save")
  BY TimerMoves
<1>3. view = "shell" /\ jobs \in Jobs
  BY TypeParts DEF TimerFires, HandlersInv, Queues
<1>4. Follows(jobs, jobs') /\ Reads(jobs, jobs')
  BY <1>2, MovedFollows, MovedReads
<1>5. OldLoads(wire, wire')
  BY <1>1, <1>3, PersistLoads
<1>. QED BY <1>3, <1>4, <1>5, ShellOpens, LoadsFollow, OpensFollow, NothingOpens DEF OpenInv

LEMMA SaveAndQuitOpen ==
  ASSUME TypeInv, HandlersInv, OpenInv, NEW kind \in Saving, NEW n \in Name, SaveAndQuit(kind, n)
  PROVE  OpenInv'
<1>1. PICK js \in Jobs :
         /\ Begins(jobs, js, kind, "flush", n)
         /\ Queued(draft, Me, js) \/ Copied(draft, Me, js) \/ Sent(draft, Me, js)
         /\ \E S \in SUBSET {Me} : Moved(js, jobs', S, {}, "save")
  BY SaveAndQuitMoves
<1>2. PICK S \in SUBSET {Me} : Moved(js, jobs', S, {}, "save")
  BY <1>1
<1>3. Follows(js, jobs') /\ Reads(js, jobs')
  <2>1. \A i \in S : js[i].phase \notin Ended
    BY <1>1, <1>2 DEF Begins, Ended
  <2>. QED BY <1>2, <2>1, MovedFollows, MovedReads
<1>4. NoOpens(js) /\ NoLoads(js, wire)
  BY <1>1, OpensBegin
<1>5. OldLoads(wire, wire')
  <2>1. Me \in DOMAIN js /\ js[Me].name \in Name
    BY <1>1 DEF Begins
  <2>. QED BY <1>1, <2>1, PersistLoads
<1>. QED BY <1>3, <1>4, <1>5, LoadsFollow, OpensFollow, NothingOpens DEF OpenInv

LEMMA ReloadOpen ==
  ASSUME TypeInv, OpenInv, Reload
  PROVE  OpenInv'
<1>1. /\ \A i \in DOMAIN jobs : jobs'[i].phase \in Ended
      /\ Moved(jobs, jobs', {i \in DOMAIN jobs : Active(i)}, {}, "dropped")
      /\ wire' = Disown(wire) /\ wire \in Seq(Request)
  BY ReloadMoves, TypeParts DEF Queues
<1>2. NoOpens(jobs')
  BY <1>1 DEF NoOpens, Moved, Ended
<1>3. DOMAIN wire' = DOMAIN wire /\ \A k \in DOMAIN wire : wire'[k].owner = 0
  BY <1>1, DisownedWire
<1>4. NoLoads(jobs', wire')
  BY <1>3 DEF NoLoads
<1>. QED BY <1>2, <1>4, NothingOpens DEF OpenInv

LEMMA ServeOpen ==
  ASSUME TypeInv, OrderInv, OpenInv, Serve
  PROVE  OpenInv'
<1>1. PICK k \in DOMAIN wire, answer \in {"ok", "error"} : Answer(k, answer)
  BY ServeAnswers
<1>2. jobs' = jobs
  BY ServeAnswers
<1>3. /\ DOMAIN wire' = DOMAIN wire /\ wire \in Seq(Request)
      /\ \A l \in DOMAIN wire :
           /\ wire'[l].kind = wire[l].kind /\ wire'[l].name = wire[l].name /\ wire'[l].owner = wire[l].owner
           /\ wire'[l].answer = IF l = k THEN answer ELSE wire[l].answer
  BY <1>1, AnswerFacts, TypeParts DEF Queues
<1>4. NoOpens(jobs')
  BY <1>2, <1>3, BusyOpens, EmptyFacts DEF OpenInv
<1>5. ASSUME NEW m \in DOMAIN wire', wire'[m].kind = "load", wire'[m].owner # 0, jobs'[wire'[m].owner].alone
      PROVE  (\A l \in DOMAIN wire' : l <= m) /\ (wire'[m].answer = "ok" => env' = images'[wire'[m].name])
  <2>1. /\ m \in DOMAIN wire /\ wire[m].kind = "load" /\ wire'[m].name = wire[m].name
        /\ \A l \in DOMAIN wire' : l <= m
    BY <1>2, <1>3, <1>5 DEF OpenInv, LoadsLast
  <2>2. CASE m = k
    <3>1. wire'[m].answer = answer
      BY <1>3, <2>1, <2>2
    <3>2. answer = "ok" => env' = images[wire[m].name] /\ images' = images
      BY <1>1, <2>1, <2>2 DEF Answer, Perform
    <3>. QED BY <2>1, <3>1, <3>2
  <2>3. CASE m # k
    <3>1. k < m
      BY <1>3, <2>1, <2>3, LenProperties
    <3>2. wire[k].answer = "none"
      BY <1>1 DEF Answer
    <3>3. wire'[m].answer = "none"
      BY <1>3, <2>1, <2>3, <3>1, <3>2 DEF OrderInv, InLine
    <3>. QED BY <2>1, <3>3
  <2>. QED BY <2>2, <2>3
<1>6. LoadsLast'
  BY <1>5 DEF LoadsLast
<1>. QED BY <1>4, <1>6, NothingOpens DEF OpenInv

\* The load of a handler that is alone moves up, with nothing behind it.
LEMMA LoadsUp ==
  ASSUME TypeInv, OpenInv, wire # <<>>, Follows(jobs, jobs'), UNCHANGED <<env, images>>,
         OldLoads(Tail(wire), wire'),
         (\E k \in DOMAIN Tail(wire) : /\ Tail(wire)[k].kind = "load" /\ Tail(wire)[k].owner # 0
                                       /\ jobs[Tail(wire)[k].owner].alone)
           => DOMAIN wire' \subseteq DOMAIN Tail(wire)
  PROVE  LoadsLast'
<1>1. /\ DOMAIN Tail(wire) \subseteq Nat
      /\ \A k \in DOMAIN Tail(wire) : k + 1 \in DOMAIN wire /\ Tail(wire)[k] = wire[k + 1]
  BY TypeParts, TailFacts, LenProperties DEF Queues
<1>2. ASSUME NEW m \in DOMAIN wire', wire'[m].kind = "load", wire'[m].owner # 0, jobs'[wire'[m].owner].alone
      PROVE  (\A l \in DOMAIN wire' : l <= m) /\ (wire'[m].answer = "ok" => env' = images'[wire'[m].name])
  <2>1. m \in DOMAIN Tail(wire) /\ wire'[m] = Tail(wire)[m] /\ wire'[m] = wire[m + 1] /\ m + 1 \in DOMAIN wire
    BY <1>1, <1>2 DEF OldLoads
  <2>2. wire'[m].owner \in DOMAIN jobs
    BY <1>2, <2>1, AwaitPhase
  <2>3. jobs[wire'[m].owner].alone
    BY <1>2, <2>2 DEF Follows
  <2>4. (\A l \in DOMAIN wire : l <= m + 1) /\ (wire[m + 1].answer = "ok" => env = images[wire[m + 1].name])
    BY <1>2, <2>1, <2>3 DEF OpenInv, LoadsLast
  <2>5. DOMAIN wire' \subseteq DOMAIN Tail(wire)
    BY <1>2, <2>1, <2>3
  <2>6. \A l \in DOMAIN wire' : l <= m
    BY <1>1, <2>1, <2>4, <2>5
  <2>. QED BY <2>1, <2>4, <2>6
<1>. QED BY <1>2 DEF LoadsLast

LEMMA WrittenOpen ==
  ASSUME TypeInv, HandlersInv, OpenInv, wire # <<>>, NEW e, e = Head(wire), DeliverWrite(e),
         UNCHANGED <<env, images>>
  PROVE  OpenInv'
<1>1. /\ e \in Request /\ Tail(wire) \in Seq(Request) /\ Tail(chain) \in Seq(Write)
      /\ ReadyNow(e) \subseteq DOMAIN jobs
      /\ \A i \in ReadyNow(e) : jobs[i].phase = "flush" /\ jobs[i].name \in Name
      /\ Moved(jobs, jobs', ReadyNow(e), {e.owner}, "save")
      /\ Behind(Tail(wire), NextSet(Tail(chain), Tail(wire), e.draft) \cup Saves(jobs, ReadyNow(e)), wire')
  BY WriteDelivered
<1>2. Follows(jobs, jobs') /\ Reads(jobs, jobs')
  <2>1. \A i \in ReadyNow(e) : jobs[i].phase \notin Ended
    BY <1>1 DEF Ended
  <2>. QED BY <1>1, <2>1, MovedFollows, MovedReads
<1>3. NoOpens(jobs')
  BY <1>2, BusyOpens, OpensFollow DEF OpenInv
<1>4. \A x \in Saves(jobs, ReadyNow(e)) : x.kind = "save"
  BY <1>1, SaveType, TypeParts DEF Saves, Queues
<1>5. \A x \in NextSet(Tail(chain), Tail(wire), e.draft) : x.kind = "set"
  BY DEF NextSet, Entry
<1>6. OldLoads(Tail(wire), wire')
  BY <1>1, <1>4, <1>5 DEF OldLoads, Behind
<1>7. ASSUME NEW k \in DOMAIN Tail(wire), Tail(wire)[k].kind = "load", Tail(wire)[k].owner # 0,
             jobs[Tail(wire)[k].owner].alone
      PROVE  DOMAIN wire' \subseteq DOMAIN Tail(wire)
  <2>1. NextSet(Tail(chain), Tail(wire), e.draft) = {}
    BY <1>7 DEF NextSet, Loading
  <2>2. k + 1 \in DOMAIN wire /\ Tail(wire)[k] = wire[k + 1]
    BY TypeParts, TailFacts DEF Queues
  <2>3. ReadyNow(e) = {}
    <3>1. jobs[wire[k + 1].owner].phase = "load" /\ \A j : Live(jobs, j) => j = wire[k + 1].owner
      BY <1>7, <2>2, AloneLoad
    <3>2. \A i \in ReadyNow(e) : Live(jobs, i) /\ jobs[i].phase = "flush"
      BY <1>1 DEF Live, Ended
    <3>. QED BY <3>1, <3>2
  <2>4. Saves(jobs, ReadyNow(e)) = {}
    BY <2>3 DEF Saves
  <2>. QED BY <1>1, <2>1, <2>4 DEF Behind
<1>8. LoadsLast'
  BY <1>2, <1>6, <1>7, LoadsUp
<1>. QED BY <1>3, <1>8, NothingOpens DEF OpenInv

LEMMA SavedOpen ==
  ASSUME TypeInv, HandlersInv, OpenInv, wire # <<>>, NEW e, e = Head(wire), DeliverSave(e),
         UNCHANGED <<env, images>>, Follows(jobs, jobs')
  PROVE  OpenInv'
<1>1. /\ e \in Request /\ e = wire[1] /\ 1 \in DOMAIN wire /\ e.kind = "save" /\ wire' = Tail(wire)
      /\ \E failed, swallowed : Heard(jobs', e, failed, swallowed)
  BY SaveHeard
<1>2. OldLoads(Tail(wire), wire') /\ DOMAIN wire' \subseteq DOMAIN Tail(wire)
  BY <1>1 DEF OldLoads
<1>3. LoadsLast'
  BY <1>2, LoadsUp
<1>4. PICK failed, swallowed : Heard(jobs', e, failed, swallowed)
  BY <1>1
<1>5. e.owner # 0 => jobs[e.owner].kind # "open"
  BY <1>1, TypeParts DEF Linked, Owned, Awaits, Saving
<1>6. \A i \in DOMAIN jobs : i # 0
  BY AwaitPhase
<1>7. ASSUME NEW i \in DOMAIN jobs', jobs'[i].kind = "open", jobs'[i].alone
      PROVE  jobs'[i].phase \notin {"read", "bootstrap"}
  <2>1. i \in DOMAIN jobs /\ jobs[i].kind = "open" /\ jobs[i].alone /\ i # e.owner
    BY <1>4, <1>5, <1>6, <1>7 DEF Heard
  <2>2. jobs[i].phase \notin {"read", "bootstrap"}
    BY <2>1, BusyOpens DEF OpenInv, NoOpens
  <2>. QED BY <1>4, <2>1, <2>2 DEF Heard
<1>8. NoOpens(jobs')
  BY <1>7 DEF NoOpens
<1>. QED BY <1>3, <1>8, NothingOpens DEF OpenInv

LEMMA TransitionOpen ==
  ASSUME TypeInv, TypeInv', HandlersInv, OpenInv, wire # <<>>, NEW e, e = Head(wire), DeliverTransition(e),
         UNCHANGED <<env, images>>
  PROVE  OpenInv'
<1>1. /\ e \in Request /\ e = wire[1] /\ 1 \in DOMAIN wire /\ e.kind \in {"load", "revert"}
      /\ Rest \in Seq(Write) /\ Tail(wire) \in Seq(Request)
      /\ Behind(<<>>, NextSet(Rest, <<>>, copy), wire')
      /\ chain # <<>> => ~ NoSet(Tail(wire))
      /\ \E failed, swallowed : Heard(jobs', e, failed, swallowed)
  BY TransitionHeard
<1>2. wire' \in Seq(Request) /\ copy \in Draft /\ wire \in Seq(Request)
  BY TypeParts DEF Queues
<1>3. \A k \in DOMAIN wire' : wire'[k].kind = "set"
  BY <1>1, <1>2, RejectedOrder
<1>4. LoadsLast'
  BY <1>3 DEF LoadsLast
<1>5. PICK failed, swallowed : Heard(jobs', e, failed, swallowed)
  BY <1>1
<1>6. ASSUME NEW i \in DOMAIN jobs', jobs'[i].kind = "open", jobs'[i].alone, jobs'[i].phase \in {"read", "bootstrap"}
      PROVE  wire' = <<>> /\ jobs'[i].phase = "read" /\ (jobs'[i].clean => env' = images'[jobs'[i].name])
  <2>1. i \in DOMAIN jobs /\ jobs[i].kind = "open" /\ jobs[i].alone /\ jobs'[i].name = jobs[i].name
    BY <1>5, <1>6 DEF Heard
  <2>2. i = e.owner
    <3>1. jobs[i].phase \notin {"read", "bootstrap"}
      BY <2>1, BusyOpens DEF OpenInv, NoOpens
    <3>. QED BY <1>5, <1>6, <2>1, <3>1 DEF Heard
  <2>3. e.owner # 0 /\ e.kind = "load" /\ jobs[i].name = e.name
    <3>1. i # 0
      BY <2>1, AwaitPhase
    <3>. QED BY <1>1, <2>1, <2>2, <3>1, TypeParts DEF Linked, Owned, Awaits
  <2>4. (\A l \in DOMAIN wire : l <= 1) /\ (e.answer = "ok" => env = images[e.name])
    BY <1>1, <2>1, <2>2, <2>3 DEF OpenInv, LoadsLast
  <2>5. DOMAIN Tail(wire) = {}
    BY <1>2, <2>4, TailFacts
  <2>6. Rest = <<>>
    BY <1>1, <2>5 DEF NoSet, Rest
  <2>7. NextSet(Rest, <<>>, copy) = {}
    BY <2>6 DEF NextSet
  <2>8. wire' = <<>>
    <3>1. DOMAIN wire' = {}
      BY <1>1, <2>7, EmptyFacts DEF Behind
    <3>. QED BY <1>2, <3>1, EmptyFacts
  <2>9. jobs'[i].phase = "read"
    <3>1. jobs'[i].phase = IF i \in failed THEN "failed" ELSE IF i \in swallowed THEN "done" ELSE Onward("open")
      BY <1>5, <2>1, <2>2 DEF Heard
    <3>. QED BY <1>6, <3>1 DEF Onward
  <2>10. jobs'[i].clean => e.answer = "ok"
    BY <1>5, <2>1, <2>2 DEF Heard
  <2>. QED BY <2>1, <2>3, <2>4, <2>8, <2>9, <2>10
<1>7. Opening'
  BY <1>6 DEF Opening
<1>. QED BY <1>4, <1>7 DEF OpenInv

LEMMA DeliverOpen ==
  ASSUME TypeInv, TypeInv', HandlersInv, OpenInv, Deliver
  PROVE  OpenInv'
<1>. DEFINE e == Head(wire)
<1>1. /\ wire # <<>> /\ (DeliverWrite(e) \/ DeliverSave(e) \/ DeliverTransition(e))
      /\ UNCHANGED <<env, images>>
  BY DEF Deliver, service
<1>. HIDE DEF e
<1>2. e = Head(wire)
  BY DEF e
<1>3. Follows(jobs, jobs')
  BY DeliverHandlers
<1>. QED BY <1>1, <1>2, <1>3, WrittenOpen, SavedOpen, TransitionOpen

LEMMA LostOpen ==
  ASSUME TypeInv, TypeInv', HandlersInv, OpenInv, LoseChild
  PROVE  OpenInv'
<1>1. /\ Rest \in Seq(Write) /\ Moved(jobs, jobs', Lost(wire), {}, "failed")
      /\ Behind(<<>>, NextSet(Rest, <<>>, copy), wire') /\ wire' \in Seq(Request) /\ copy \in Draft
  BY ChildLost, TypeParts DEF Queues
<1>2. \A k \in DOMAIN wire' : wire'[k].kind = "set"
  BY <1>1, RejectedOrder
<1>3. LoadsLast'
  BY <1>2 DEF LoadsLast
<1>4. \A i \in Lost(wire) : jobs[i].phase \notin Ended
  BY AwaitPhase DEF Lost, Ended
<1>5. Follows(jobs, jobs') /\ Reads(jobs, jobs')
  BY <1>1, <1>4, MovedFollows, MovedReads
<1>6. NoOpens(jobs')
  BY <1>5, BusyOpens, OpensFollow DEF OpenInv, LoseChild
<1>. QED BY <1>3, <1>6, NothingOpens DEF OpenInv

LEMMA OpenInit ==
  ASSUME Init
  PROVE  OpenInv
BY EmptySeq DEF Init, Mounted, OpenInv, LoadsLast, Opening

LEMMA OpenStep ==
  ASSUME TypeInv, TypeInv', HandlersInv, OrderInv, OpenInv, [Next]_vars
  PROVE  OpenInv'
<1>1. CASE UNCHANGED vars
  BY <1>1 DEF vars, renderer, service, OpenInv, LoadsLast, Opening
<1>2. CASE \/ ShowChooser \/ OpenCreateDialog \/ BackToImages \/ RequestQuit \/ Cancel
  BY <1>2, ViewOpen
<1>3. CASE (\E n \in Name : OpenImage(n) \/ CreateImage(n)) \/ Discard
  BY <1>3, StartOpen
<1>4. CASE \E i \in 1..MaxJobs : ReadPreferences(i) \/ Bootstrap(i) \/ ReadFails(i) \/ Registry(i) \/ Quit(i)
  BY <1>4, ReadOpen, BootstrapOpen, HandlerOpen
<1>5. CASE \E d \in Draft : Edit(d)
  BY <1>5, EditOpen
<1>6. CASE TimerFires \/ \E kind \in Saving, n \in Name : SaveAndQuit(kind, n)
  BY <1>6, TimerOpen, SaveAndQuitOpen
<1>7. CASE Reload
  BY <1>7, ReloadOpen
<1>8. CASE Serve \/ Deliver \/ LoseChild
  BY <1>8, ServeOpen, DeliverOpen, LostOpen
<1>. QED BY <1>1, <1>2, <1>3, <1>4, <1>5, <1>6, <1>7, <1>8 DEF Next

LEMMA OpenInvariant == Spec => []OpenInv
<1>1. Init => OpenInv
  BY OpenInit
<1>2. TypeInv /\ TypeInv' /\ HandlersInv /\ OrderInv /\ OpenInv /\ [Next]_vars => OpenInv'
  BY OpenStep
<1>. QED BY <1>1, <1>2, TypesInvariant, HandlersInvariant, OrderInvariant, PTL DEF Spec

(* What is on the screen after an image was opened is what the image       *)
(* holds, whatever an earlier page of the renderer had sent before it was  *)
(* loaded again: the load is the last request, and its answer rejects      *)
(* those that were waiting.                                                *)
THEOREM OpenedFaithfully == Spec => []OpenedAsSaved
<1>1. OpenInv => OpenedAsSaved
  BY DEF OpenInv, Opening, OpenedAsSaved, In
<1>. QED BY <1>1, OpenInvariant, PTL
-----------------------------------------------------------------------------
(* The image that is saved.  While one handler saves, and no other runs,   *)
(* the write it waits for and those behind it are of texts it has seen;    *)
(* when its save is on the wire, so is all that the service has or may     *)
(* still be sent; and once it has been answered, nothing is saved again.   *)
FlushSafe(i) ==
  \A k \in DOMAIN chain : chain[k].owner = i =>
    /\ \A l \in DOMAIN chain : k <= l => chain[l].draft \in jobs[i].seen
    /\ \A l \in DOMAIN wire : k = 1 /\ wire[l].kind = "set" /\ wire[l].answer = "ok" => env \in jobs[i].seen

SaveSafe(i) ==
  /\ copy \in jobs[i].seen /\ (jobs[i].clean => env \in jobs[i].seen)
  /\ \A k \in DOMAIN chain : chain[k].draft \in jobs[i].seen
  /\ \A k \in DOMAIN wire :
       /\ wire[k].kind = "set" => wire[k].draft \in jobs[i].seen
       /\ wire[k].kind = "save" /\ wire[k].answer = "ok" /\ jobs[i].clean =>
            images[jobs[i].name] \in jobs[i].seen

KeptSafe(i) ==
  /\ jobs[i].clean => images[jobs[i].name] \in jobs[i].seen
  /\ jobs[i].phase = "done" => window = "closed" /\ \A k \in DOMAIN wire : wire[k].kind # "save"

Safe(i) ==
  /\ jobs[i].phase = "flush" => FlushSafe(i)
  /\ jobs[i].phase = "save" => SaveSafe(i)
  /\ jobs[i].phase \in {"registry", "quit", "done"} => KeptSafe(i)

SaveInv == \A i \in DOMAIN jobs : jobs[i].kind \in Saving /\ jobs[i].alone => Safe(i)

\* A handler that saves, is alone and runs: the wire is its own.
Sole(i) == i \in DOMAIN jobs /\ jobs[i].kind \in Saving /\ jobs[i].alone /\ jobs[i].phase \notin Ended

LEMMA SoleFacts ==
  ASSUME TypeInv, HandlersInv, OrderInv, NEW i, Sole(i)
  PROVE  /\ i \in DOMAIN jobs /\ i # 0 /\ view = "shell" /\ draft \in jobs[i].seen
         /\ jobs[i].seen \subseteq Draft /\ jobs[i].name \in Name
         /\ \A j \in DOMAIN jobs : jobs[j].phase \notin Ended => j = i
         /\ \A k \in DOMAIN wire :
              \/ wire[k].kind = "set"
              \/ /\ wire[k].kind = "save" /\ wire[k].owner = i /\ jobs[i].phase = "save"
                 /\ wire[k].name = jobs[i].name
         /\ ~ Loading(wire)
<1>1. i \in DOMAIN jobs /\ i # 0 /\ jobs[i].seen \subseteq Draft /\ jobs[i].name \in Name
  <2>1. jobs \in Jobs /\ Named(jobs)
    BY TypeParts DEF Queues, Linked
  <2>2. i \in DOMAIN jobs /\ jobs[i].kind # "discard"
    BY DEF Sole, Saving
  <2>3. jobs[i] \in Job
    BY <2>1, <2>2, JobType
  <2>4. jobs[i].seen \subseteq Draft
    BY <2>3 DEF Job
  <2>. QED BY <2>1, <2>2, <2>4, AwaitPhase DEF Named
<1>2. view = "shell" /\ draft \in jobs[i].seen /\ \A j \in DOMAIN jobs : jobs[j].phase \notin Ended => j = i
  BY DEF Sole, HandlersInv, HandlersOf, Live, Saving, Exit
<1>3. ASSUME NEW k \in DOMAIN wire, wire[k].kind # "set"
      PROVE  /\ wire[k].kind = "save" /\ wire[k].owner = i /\ jobs[i].phase = "save"
             /\ wire[k].name = jobs[i].name
  <2>1. wire[k].owner # 0
    BY <1>2, <1>3 DEF OrderInv, Native, Foreign
  <2>2. wire[k].owner = i
    BY <1>2, <2>1, AwaitPhase DEF Ended
  <2>3. Awaits(jobs[i], wire[k].kind, wire[k].name) /\ wire[k] \in Request
    BY <2>1, <2>2, TypeParts, AwaitPhase DEF Linked, Owned
  <2>. QED BY <1>3, <2>2, <2>3 DEF Awaits, Request, Sole, Saving
<1>4. ~ Loading(wire)
  BY <1>3 DEF Loading
<1>. QED BY <1>1, <1>2, <1>3, <1>4

\* A step while the window is open: the handlers that have ended do not matter.
LEMMA SoleStep ==
  ASSUME SaveInv, window = "open", Follows(jobs, jobs'), \A i : Sole(i) => Safe(i)'
  PROVE  SaveInv'
<1>. SUFFICES ASSUME NEW i \in DOMAIN jobs', jobs'[i].kind \in Saving, jobs'[i].alone
              PROVE  Safe(i)'
  BY DEF SaveInv
<1>1. i \in DOMAIN jobs /\ jobs[i].kind \in Saving /\ jobs[i].alone
  BY DEF Follows
<1>2. CASE jobs[i].phase \notin Ended
  BY <1>1, <1>2 DEF Sole
<1>3. CASE jobs[i].phase \in Ended
  <2>1. jobs[i].phase # "done"
    BY <1>1, <1>3 DEF SaveInv, Safe, KeptSafe
  <2>2. jobs'[i].phase = jobs[i].phase
    BY <1>1, <1>3 DEF Follows
  <2>. QED BY <1>3, <2>1, <2>2 DEF Safe, Ended
<1>. QED BY <1>2, <1>3

\* A step of another handler that runs: nobody is alone.
LEMMA OtherStep ==
  ASSUME TypeInv, HandlersInv, OrderInv, SaveInv, window = "open", Follows(jobs, jobs'),
         NEW j \in DOMAIN jobs, jobs[j].phase \notin Ended, jobs[j].kind \notin Saving
  PROVE  SaveInv'
<1>1. \A i : ~ Sole(i)
  BY SoleFacts DEF Sole
<1>. QED BY <1>1, SoleStep

LEMMA ViewSave ==
  ASSUME SaveInv, ShowChooser \/ OpenCreateDialog \/ BackToImages \/ RequestQuit \/ Cancel
  PROVE  SaveInv'
<1>1. UNCHANGED <<window, jobs, chain, copy, wire, env, images>>
  <2>1. CASE ShowChooser
    BY <2>1 DEF ShowChooser, adapter, service
  <2>2. CASE OpenCreateDialog
    BY <2>2 DEF OpenCreateDialog, adapter, service
  <2>3. CASE BackToImages
    BY <2>3 DEF BackToImages, adapter, service
  <2>4. CASE RequestQuit
    BY <2>4 DEF RequestQuit, adapter, service
  <2>5. CASE Cancel
    BY <2>5 DEF Cancel, adapter, service
  <2>. QED BY <2>1, <2>2, <2>3, <2>4, <2>5
<1>. QED BY <1>1 DEF SaveInv, Safe, FlushSafe, SaveSafe, KeptSafe

LEMMA BeginsSave ==
  ASSUME TypeInv, SaveInv, window = "open",
         NEW js, NEW kind, NEW phase, NEW name, Begins(jobs, js, kind, phase, name),
         NEW i \in DOMAIN js, i # Me, js[i].alone, js[i].kind \in Saving
  PROVE  i \in DOMAIN jobs /\ js[i].phase \in Ended \ {"done"}
<1>1. i \in DOMAIN jobs /\ jobs[i].alone /\ jobs[i].kind \in Saving /\ ~ Live(jobs, i) /\ js[i].phase = jobs[i].phase
  BY DEF Begins
<1>2. jobs[i].phase \in Ended
  BY <1>1 DEF Live
<1>3. jobs[i].phase # "done"
  BY <1>1 DEF SaveInv, Safe, KeptSafe
<1>. QED BY <1>1, <1>2, <1>3

LEMMA StartSave ==
  ASSUME TypeInv, SaveInv, (\E n \in Name : OpenImage(n) \/ CreateImage(n)) \/ Discard
  PROVE  SaveInv'
<1>1. window = "open" /\ \E kind \in {"open", "create", "discard"} : \E phase, name : Begins(jobs, jobs', kind, phase, name)
  BY StartMoves DEF Starts
<1>2. PICK kind \in {"open", "create", "discard"} : \E phase, name : Begins(jobs, jobs', kind, phase, name)
  BY <1>1
<1>3. PICK phase, name : Begins(jobs, jobs', kind, phase, name)
  BY <1>2
<1>4. ASSUME NEW i \in DOMAIN jobs', jobs'[i].kind \in Saving, jobs'[i].alone
      PROVE  Safe(i)'
  <2>1. i # Me
    BY <1>3, <1>4 DEF Begins, Saving
  <2>2. jobs'[i].phase \in Ended \ {"done"}
    BY <1>1, <1>3, <1>4, <2>1, BeginsSave
  <2>. QED BY <2>2 DEF Safe, Ended
<1>. QED BY <1>4 DEF SaveInv

LEMMA ReadSave ==
  ASSUME TypeInv, HandlersInv, OrderInv, SaveInv, NEW j, ReadPreferences(j) \/ Bootstrap(j) \/ ReadFails(j)
  PROVE  SaveInv'
<1>1. \E S, phase : /\ Moved(jobs, jobs', S, {}, phase) /\ S = {j}
                    /\ j \in DOMAIN jobs /\ jobs[j].phase \in {"read", "bootstrap"}
  <2>1. CASE ReadPreferences(j)
    BY <2>1, ReadMoves
  <2>2. CASE Bootstrap(j)
    BY <2>2, BootstrapMoves
  <2>3. CASE ReadFails(j)
    BY <2>3, StepMoves
  <2>. QED BY <2>1, <2>2, <2>3
<1>2. Follows(jobs, jobs')
  BY <1>1, MovedFollows DEF Ended
<1>3. window = "open"
  BY DEF ReadPreferences, Bootstrap, ReadFails
<1>4. jobs[j].kind \notin Saving
  BY <1>1 DEF HandlersInv, HandlersOf, Readers, Startup, Saving
<1>. QED BY <1>1, <1>2, <1>3, <1>4, OtherStep DEF Ended

\* A step after the save, of the only handler there is.
LEMMA RegistrySave ==
  ASSUME TypeInv, HandlersInv, OrderInv, SaveInv, NEW j, Registry(j) \/ Quit(j)
  PROVE  SaveInv'
<1>1. PICK phase \in {"done", "failed", "quit"} :
         /\ Moved(jobs, jobs', {j}, {}, phase) /\ \A i \in DOMAIN jobs : jobs'[i].seen = jobs[i].seen
         /\ j \in DOMAIN jobs /\ jobs[j].phase \in {"read", "bootstrap", "registry", "quit"}
         /\ Registry(j) => jobs[j].phase = "registry" /\ phase # "done"
         /\ Quit(j) => jobs[j].phase = "quit" /\ phase = "done"
  BY StepMoves
<1>2. Follows(jobs, jobs')
  BY <1>1, MovedFollows DEF Ended
<1>3. window = "open" /\ UNCHANGED <<wire, images>> /\ (Quit(j) => window' = "closed")
  <2>1. CASE Registry(j)
    BY <1>1, <2>1 DEF Registry, Quit, In, service
  <2>2. CASE Quit(j)
    BY <2>2 DEF Quit, service
  <2>. QED BY <2>1, <2>2
<1>4. ASSUME NEW i, Sole(i) PROVE Safe(i)'
  <2>1. i \in DOMAIN jobs /\ i = j
    BY <1>1, <1>4, SoleFacts DEF Ended
  <2>2. jobs[i].phase \in {"registry", "quit"}
    BY <1>1, <2>1
  <2>3. \A k \in DOMAIN wire : wire[k].kind = "set"
    BY <1>4, <2>2, SoleFacts
  <2>4. jobs'[i].phase = phase /\ jobs'[i].name = jobs[i].name /\ jobs'[i].clean = jobs[i].clean
    BY <1>1, <2>1 DEF Moved
  <2>5. KeptSafe(i)
    BY <1>4, <2>1, <2>2 DEF SaveInv, Safe, Sole
  <2>6. KeptSafe(i)'
    BY <1>1, <1>3, <2>1, <2>3, <2>4, <2>5 DEF KeptSafe
  <2>. QED BY <2>4, <2>6 DEF Safe
<1>. QED BY <1>2, <1>3, <1>4, SoleStep

LEMMA EditSave ==
  ASSUME TypeInv, SaveInv, NEW d \in Draft, Edit(d)
  PROVE  SaveInv'
<1>1. Moved(jobs, jobs', {}, {}, "done")
  BY EditMoves
<1>2. Follows(jobs, jobs')
  BY <1>1, MovedFollows
<1>3. window = "open" /\ UNCHANGED <<chain, copy, wire, env, images, window>>
  BY DEF Edit, adapter, service
<1>4. ASSUME NEW i, Sole(i) PROVE Safe(i)'
  <2>1. i \in DOMAIN jobs /\ Safe(i)
    BY <1>4 DEF Sole, SaveInv
  <2>2. /\ jobs'[i].phase = jobs[i].phase /\ jobs'[i].name = jobs[i].name /\ jobs'[i].clean = jobs[i].clean
        /\ jobs[i].seen \subseteq jobs'[i].seen
    BY <1>1, <2>1 DEF Moved
  <2>3. FlushSafe(i) => FlushSafe(i)'
    BY <1>3, <2>2 DEF FlushSafe
  <2>4. SaveSafe(i) => SaveSafe(i)'
    BY <1>3, <2>2 DEF SaveSafe
  <2>5. KeptSafe(i) => KeptSafe(i)'
    BY <1>3, <2>2 DEF KeptSafe
  <2>. QED BY <2>1, <2>2, <2>3, <2>4, <2>5 DEF Safe
<1>. QED BY <1>2, <1>3, <1>4, SoleStep

LEMMA ReloadSave ==
  ASSUME TypeInv, SaveInv, Reload
  PROVE  SaveInv'
<1>1. Moved(jobs, jobs', {i \in DOMAIN jobs : Active(i)}, {}, "dropped")
  BY ReloadMoves
<1>2. \A i \in {i \in DOMAIN jobs : Active(i)} \cap DOMAIN jobs : jobs[i].phase \notin Ended
  BY DEF Active
<1>3. Follows(jobs, jobs')
  BY <1>1, <1>2, MovedFollows
<1>4. ASSUME NEW i, Sole(i) PROVE Safe(i)'
  <2>1. i \in {j \in DOMAIN jobs : Active(j)}
    BY <1>4 DEF Sole, Active
  <2>2. jobs'[i].phase = "dropped"
    BY <1>1, <2>1 DEF Moved
  <2>. QED BY <2>2 DEF Safe
<1>5. window = "open"
  BY DEF Reload
<1>. QED BY <1>3, <1>4, <1>5, SoleStep

LEMMA TimerSave ==
  ASSUME TypeInv, HandlersInv, OrderInv, SaveInv, TimerFires
  PROVE  SaveInv'
<1>1. Queued(draft, 0, jobs) \/ Copied(draft, 0, jobs) \/ Sent(draft, 0, jobs)
  BY TimerMoves
<1>2. Moved(jobs, jobs', {}, {}, "save")
  BY TimerMoves
<1>3. \A i \in DOMAIN jobs : jobs'[i].seen = jobs[i].seen
  BY TimerMoves
<1>4. Follows(jobs, jobs')
  BY <1>2, MovedFollows
<1>5. window = "open" /\ UNCHANGED <<env, images, window>>
  BY DEF TimerFires, service
<1>6. ASSUME NEW i, Sole(i) PROVE Safe(i)'
  <2>1. /\ i \in DOMAIN jobs /\ i # 0 /\ draft \in jobs[i].seen /\ draft # Same /\ ~ Loading(wire)
        /\ Safe(i)
    BY <1>6, SoleFacts DEF SaveInv, Sole
  <2>2. /\ jobs'[i].phase = jobs[i].phase /\ jobs'[i].name = jobs[i].name /\ jobs'[i].clean = jobs[i].clean
        /\ jobs'[i].seen = jobs[i].seen
    BY <1>2, <1>3, <2>1 DEF Moved
  <2>3. \/ /\ chain # <<>> /\ chain' = Append(chain, [draft |-> draft, owner |-> 0])
           /\ copy' = copy /\ wire' = wire
        \/ chain = <<>> /\ chain' = <<[draft |-> draft, owner |-> 0]>> /\ copy' = copy
    BY <1>1, <2>1 DEF Queued, Copied, Sent
  <2>4. FlushSafe(i) => FlushSafe(i)'
    <3>1. CASE chain = <<>>
      <4>1. DOMAIN chain' = {1} /\ chain'[1].owner = 0
        BY <2>3, <3>1
      <4>. QED BY <2>1, <4>1 DEF FlushSafe
    <3>2. CASE chain # <<>>
      <4>. DEFINE w == [draft |-> draft, owner |-> 0]
      <4>1. w \in Write /\ w.draft = draft /\ w.owner = 0 /\ chain \in Seq(Write)
        BY TypeParts DEF Write, Queues, Others
      <4>2. chain' = Append(chain, w) /\ wire' = wire
        BY <2>3, <3>2
      <4>. HIDE DEF w
      <4>3. Behind(chain, {w}, chain')
        BY <4>1, <4>2, BehindOne
      <4>4. \A k \in DOMAIN chain' : chain'[k].owner = i => k \in DOMAIN chain /\ chain'[k] = chain[k]
        BY <2>1, <4>1, <4>3 DEF Behind
      <4>5. \A k \in DOMAIN chain' : \/ k \in DOMAIN chain /\ chain'[k] = chain[k]
                                     \/ chain'[k].draft = draft
        BY <4>1, <4>3 DEF Behind
      <4>. QED BY <1>5, <2>1, <2>2, <4>2, <4>4, <4>5 DEF FlushSafe
    <3>. QED BY <3>1, <3>2
  <2>5. SaveSafe(i) => SaveSafe(i)'
    <3>1. copy' = copy
      BY <2>3
    <3>2. \A k \in DOMAIN chain' : \/ k \in DOMAIN chain /\ chain'[k] = chain[k]
                                   \/ chain'[k].draft = draft
      <4>1. CASE chain = <<>>
        <5>1. DOMAIN chain' = {1} /\ chain'[1].draft = draft
          BY <2>3, <4>1
        <5>. QED BY <5>1
      <4>2. CASE chain # <<>>
        <5>. DEFINE w == [draft |-> draft, owner |-> 0]
        <5>1. w \in Write /\ w.draft = draft /\ chain \in Seq(Write)
          BY TypeParts DEF Write, Queues, Others
        <5>2. chain' = Append(chain, w)
          BY <2>3, <4>2
        <5>. HIDE DEF w
        <5>3. Behind(chain, {w}, chain')
          BY <5>1, <5>2, BehindOne
        <5>. QED BY <5>1, <5>3 DEF Behind
      <4>. QED BY <4>1, <4>2
    <3>3. \A k \in DOMAIN wire' : \/ k \in DOMAIN wire /\ wire'[k] = wire[k]
                                  \/ wire'[k].kind = "set" /\ wire'[k].draft = draft
      <4>1. CASE Queued(draft, 0, jobs)
        BY <4>1 DEF Queued
      <4>2. CASE Sent(draft, 0, jobs)
        <5>1. PICK e \in Request : /\ e.kind = "set" /\ e.draft = (IF draft = Same THEN copy ELSE draft)
                                   /\ Behind(wire, {e}, wire')
          BY <4>2 DEF Sent
        <5>. QED BY <2>1, <5>1 DEF Behind
      <4>. QED BY <1>1, <2>1, <4>1, <4>2 DEF Copied
    <3>. QED BY <1>5, <2>1, <2>2, <3>1, <3>2, <3>3 DEF SaveSafe
  <2>6. KeptSafe(i) /\ jobs[i].phase # "done" => KeptSafe(i)'
    BY <1>5, <2>2 DEF KeptSafe
  <2>. QED BY <1>6, <2>1, <2>2, <2>4, <2>5, <2>6 DEF Safe, Sole, Ended
<1>. QED BY <1>4, <1>5, <1>6, SoleStep

LEMMA SaveAndQuitSave ==
  ASSUME TypeInv, TypeInv', HandlersInv, OrderInv, SaveInv, NEW kind \in Saving, NEW n \in Name, SaveAndQuit(kind, n)
  PROVE  SaveInv'
<1>1. PICK js \in Jobs :
         /\ Begins(jobs, js, kind, "flush", n)
         /\ Queued(draft, Me, js) \/ Copied(draft, Me, js) \/ Sent(draft, Me, js)
         /\ \E S \in SUBSET {Me} : Moved(js, jobs', S, {}, "save")
         /\ \A i \in DOMAIN js : jobs'[i].seen = js[i].seen
  BY SaveAndQuitMoves
<1>2. PICK S \in SUBSET {Me} : Moved(js, jobs', S, {}, "save")
  BY <1>1
<1>3. window = "open" /\ view = "shell"
  BY DEF SaveAndQuit, CanStart, Asked
<1>4. ASSUME NEW i \in DOMAIN jobs', jobs'[i].kind \in Saving, jobs'[i].alone, i # Me
      PROVE  Safe(i)'
  <2>1. i \in DOMAIN js /\ js[i].kind \in Saving /\ js[i].alone /\ jobs'[i].phase = js[i].phase
    BY <1>2, <1>4 DEF Moved
  <2>2. jobs'[i].phase \in Ended \ {"done"}
    BY <1>1, <1>3, <1>4, <2>1, BeginsSave
  <2>. QED BY <2>2 DEF Safe, Ended
<1>5. ASSUME NEW me, me = Me, jobs'[me].alone PROVE Safe(me)'
  <2>0. /\ Begins(jobs, js, kind, "flush", n)
        /\ Queued(draft, me, js) \/ Copied(draft, me, js) \/ Sent(draft, me, js)
    BY <1>1, <1>5
  <2>1. /\ me \in DOMAIN js /\ me \notin DOMAIN jobs /\ me # 0 /\ js[me].phase = "flush"
        /\ js[me].alone /\ \A i \in DOMAIN jobs : ~ Live(jobs, i)
        /\ draft \in jobs'[me].seen
    <3>1. me \in DOMAIN js /\ me \notin DOMAIN jobs /\ me # 0 /\ js[me].phase = "flush"
      BY <1>1, <1>5 DEF Begins
    <3>2. js[me].alone
      BY <1>2, <1>5, <3>1 DEF Moved
    <3>. QED BY <1>1, <1>5, <3>1, <3>2 DEF Begins
  <2>2. \A k \in DOMAIN wire : wire[k].owner = 0
    BY <2>1, AwaitPhase DEF Live, Ended
  <2>3. \A k \in DOMAIN wire : wire[k].kind = "set"
    BY <1>3, <2>2 DEF OrderInv, Native, Foreign
  <2>4. \A k \in DOMAIN chain : chain[k].owner = 0
    BY <2>1, AwaitPhase DEF Live, Ended
  <2>5. ~ Loading(wire)
    BY <2>3 DEF Loading
  <2>6. FlushSafe(me)'
    <3>. DEFINE w == [draft |-> draft, owner |-> me]
    <3>1. w \in Write /\ w.draft = draft /\ w.owner = me /\ chain \in Seq(Write)
      <4>1. me \in 0..MaxJobs
        BY <1>1, <1>5 DEF Begins
      <4>. QED BY <4>1, TypeParts DEF Write, Queues, Others
    <3>2. CASE Queued(draft, me, js)
      <4>1. chain # <<>> /\ chain' = Append(chain, w)
        BY <3>2 DEF Queued
      <4>. HIDE DEF w
      <4>2. Behind(chain, {w}, chain')
        BY <3>1, <4>1, BehindOne
      <4>3. 1 \in DOMAIN chain /\ DOMAIN chain' \subseteq Nat
        BY <3>1, <4>1, EmptyFacts, AppendFacts, LenProperties
      <4>4. ASSUME NEW k \in DOMAIN chain', chain'[k].owner = me
            PROVE  /\ k # 1 /\ \A l \in DOMAIN chain' : k <= l => chain'[l].draft = draft
        <5>1. k \notin DOMAIN chain /\ \A l \in DOMAIN chain : l < k
          BY <2>1, <2>4, <4>2, <4>4 DEF Behind
        <5>2. \A l \in DOMAIN chain' : k <= l => l \notin DOMAIN chain
          BY <4>3, <5>1
        <5>3. \A l \in DOMAIN chain' : k <= l => chain'[l] = w
          BY <4>2, <5>2 DEF Behind
        <5>. QED BY <3>1, <4>3, <5>1, <5>3
      <4>5. \A k \in DOMAIN chain' : chain'[k].owner = me => k # 1 /\ \A l \in DOMAIN chain' : k <= l => chain'[l].draft \in jobs'[me].seen
        BY <2>1, <4>4
      <4>6. FlushSafe(me)'
        BY <4>5 DEF FlushSafe
      <4>. QED BY <4>6
    <3>3. CASE Copied(draft, me, js)
      BY <2>5, <3>3 DEF Copied
    <3>4. CASE Sent(draft, me, js)
      <4>1. chain = <<>> /\ chain' = <<w>>
        BY <3>4 DEF Sent
      <4>2. PICK e \in Request : e.answer = "none" /\ Behind(wire, {e}, wire')
        BY <3>4 DEF Sent
      <4>3. \A k \in DOMAIN wire : FALSE
        <5>1. NoSet(wire)
          BY <4>1, NoneSent
        <5>. QED BY <2>3, <5>1 DEF NoSet
      <4>4. \A l \in DOMAIN wire' : wire'[l].answer = "none"
        BY <4>2, <4>3 DEF Behind
      <4>5. DOMAIN chain' = {1} /\ chain'[1].draft = draft
        BY <4>1
      <4>6. FlushSafe(me)'
        BY <2>1, <4>4, <4>5 DEF FlushSafe
      <4>. QED BY <4>6
    <3>. QED BY <2>0, <3>2, <3>3, <3>4
  <2>7. jobs'[me].phase = "flush"
    <3>1. CASE Queued(draft, me, js)
      BY <2>1, <3>1 DEF Queued
    <3>2. CASE Sent(draft, me, js)
      BY <2>1, <3>2 DEF Sent, Moved
    <3>. QED BY <2>0, <2>5, <3>1, <3>2 DEF Copied
  <2>. QED BY <2>6, <2>7 DEF Safe
<1>. QED BY <1>4, <1>5 DEF SaveInv

LEMMA ServeSave ==
  ASSUME TypeInv, HandlersInv, OrderInv, SaveInv, Serve
  PROVE  SaveInv'
<1>1. PICK k \in DOMAIN wire, answer \in {"ok", "error"} : Answer(k, answer)
  BY ServeAnswers
<1>2. UNCHANGED <<window, jobs, chain, copy>>
  BY ServeAnswers DEF adapter
<1>3. /\ DOMAIN wire' = DOMAIN wire
      /\ \A l \in DOMAIN wire :
           /\ wire'[l].kind = wire[l].kind /\ wire'[l].name = wire[l].name
           /\ wire'[l].owner = wire[l].owner /\ wire'[l].draft = wire[l].draft
           /\ wire'[l].answer = IF l = k THEN answer ELSE wire[l].answer
  BY <1>1, AnswerFacts
<1>4. /\ answer = "error" => UNCHANGED <<env, images>>
      /\ answer = "ok" /\ wire[k].kind # "save" => images' = images
      /\ answer = "ok" /\ wire[k].kind = "set" => env' = wire[k].draft
      /\ answer = "ok" /\ wire[k].kind = "save" => env' = env /\ images' = [images EXCEPT ![wire[k].name] = env]
  <2>1. CASE answer = "error"
    BY <1>1, <2>1 DEF Answer, service
  <2>2. CASE answer = "ok"
    <3>1. Perform(wire[k]) /\ wire[k].kind \in {"set", "save", "revert", "load"}
      BY <1>1, <2>2, AwaitPhase DEF Answer, Request
    <3>. QED BY <2>2, <3>1 DEF Perform
  <2>. QED BY <2>1, <2>2
<1>5. images \in [Name -> Draft \cup {Absent}]
  BY TypeParts DEF Others
<1>. SUFFICES ASSUME NEW i \in DOMAIN jobs', jobs'[i].kind \in Saving, jobs'[i].alone
              PROVE  Safe(i)'
  BY DEF SaveInv
<1>6. Safe(i) /\ i \in DOMAIN jobs /\ jobs[i].kind \in Saving /\ jobs[i].alone
  BY <1>2 DEF SaveInv
<1>7. ASSUME jobs[i].phase = "flush" PROVE FlushSafe(i)'
  <2>1. /\ \A l \in DOMAIN wire : wire[l].kind = "set"
        /\ jobs[i].seen \subseteq Draft
    <3>1. Sole(i)
      BY <1>6, <1>7 DEF Sole, Ended
    <3>. QED BY <1>7, <3>1, SoleFacts
  <2>2. OneSet(chain, wire) /\ FlushSafe(i)
    BY <1>6, <1>7 DEF TypeInv, Safe
  <2>3. ASSUME NEW c \in DOMAIN chain', chain'[c].owner = i
        PROVE  \A l \in DOMAIN chain' : c <= l => chain'[l].draft \in jobs'[i].seen
    BY <1>2, <2>2, <2>3 DEF FlushSafe
  <2>4. ASSUME NEW l \in DOMAIN wire', wire'[l].answer = "ok", NEW c \in DOMAIN chain', chain'[c].owner = i, c = 1
        PROVE  env' \in jobs'[i].seen
    <3>1. l \in DOMAIN wire /\ l = k /\ answer = "ok"
      BY <1>1, <1>3, <2>1, <2>2, <2>4 DEF OneSet
    <3>2. chain[1].draft \in jobs[i].seen
      BY <1>2, <2>2, <2>4, TypeParts, LenProperties DEF FlushSafe, Queues
    <3>3. wire[k].draft = chain[1].draft
      <4>1. chain[1].draft # Same
        BY <2>1, <3>2
      <4>. QED BY <1>1, <2>1, <2>2, <4>1 DEF OneSet
    <3>. QED BY <1>1, <1>2, <1>4, <2>1, <3>1, <3>2, <3>3
  <2>. QED BY <2>3, <2>4 DEF FlushSafe
<1>8. ASSUME jobs[i].phase = "save" PROVE SaveSafe(i)'
  <2>1. /\ \A l \in DOMAIN wire : \/ wire[l].kind = "set"
                                  \/ wire[l].kind = "save" /\ wire[l].owner = i /\ wire[l].name = jobs[i].name
        /\ i # 0 /\ jobs[i].name \in Name
    <3>1. Sole(i)
      BY <1>6, <1>8 DEF Sole, Ended
    <3>. QED BY <3>1, SoleFacts
  <2>2. SaveSafe(i) /\ Owned(jobs, wire)
    BY <1>6, <1>8 DEF TypeInv, Safe
  <2>3. jobs[i].clean => env' \in jobs[i].seen
    BY <1>1, <1>4, <2>1, <2>2 DEF SaveSafe
  <2>4. ASSUME NEW l \in DOMAIN wire, wire[l].kind = "save", wire'[l].answer = "ok", jobs[i].clean
        PROVE  images'[jobs[i].name] \in jobs[i].seen
    <3>1. CASE l = k
      <4>1. answer = "ok" /\ wire[k].name = jobs[i].name
        BY <1>3, <2>1, <2>4, <3>1
      <4>2. images'[jobs[i].name] = env
        BY <1>4, <1>5, <2>1, <2>4, <3>1, <4>1
      <4>. QED BY <2>2, <2>4, <4>2 DEF SaveSafe
    <3>2. CASE l # k
      <4>1. wire[k].kind = "set"
        BY <1>1, <2>1, <2>2, <2>4, <3>2 DEF Owned
      <4>2. images' = images /\ wire[l].answer = "ok"
        BY <1>3, <1>4, <2>4, <3>2, <4>1
      <4>. QED BY <2>2, <2>4, <4>2 DEF SaveSafe
    <3>. QED BY <3>1, <3>2
  <2>5. \A l \in DOMAIN wire' : wire'[l].kind = "set" => wire'[l].draft \in jobs[i].seen
    BY <1>3, <2>2 DEF SaveSafe
  <2>6. \A l \in DOMAIN wire' : wire'[l].kind = "save" /\ wire'[l].answer = "ok" /\ jobs[i].clean => images'[jobs[i].name] \in jobs[i].seen
    BY <1>3, <2>4
  <2>. QED BY <1>2, <2>2, <2>3, <2>5, <2>6 DEF SaveSafe
<1>9. ASSUME jobs[i].phase \in {"registry", "quit", "done"} PROVE KeptSafe(i)'
  <2>1. KeptSafe(i)
    BY <1>6, <1>9 DEF Safe
  <2>2. \A l \in DOMAIN wire : wire[l].kind # "save"
    <3>1. CASE jobs[i].phase = "done"
      BY <2>1, <3>1 DEF KeptSafe
    <3>2. CASE jobs[i].phase # "done"
      <4>1. Sole(i)
        BY <1>6, <1>9, <3>2 DEF Sole, Ended
      <4>. QED BY <1>9, <4>1, SoleFacts
    <3>. QED BY <3>1, <3>2
  <2>3. images' = images
    BY <1>1, <1>4, <2>2
  <2>. QED BY <1>2, <1>3, <2>1, <2>2, <2>3 DEF KeptSafe
<1>. QED BY <1>2, <1>7, <1>8, <1>9 DEF Safe

\* What is left behind a write while one handler saves: its own save at most.
LEMMA WrittenSave ==
  ASSUME TypeInv, TypeInv', HandlersInv, OrderInv, SaveInv, window = "open",
         wire # <<>>, NEW e, e = Head(wire), DeliverWrite(e), UNCHANGED <<env, images, window>>
  PROVE  SaveInv'
<1>1. /\ e \in Request /\ e = wire[1] /\ 1 \in DOMAIN wire /\ e.kind = "set"
      /\ chain # <<>> /\ e.owner = chain[1].owner /\ 1 \in DOMAIN chain
      /\ NoSet(Tail(wire)) /\ Tail(wire) \in Seq(Request) /\ Tail(chain) \in Seq(Write)
      /\ ReadyNow(e) \subseteq DOMAIN jobs
      /\ \A i \in ReadyNow(e) : jobs[i].phase = "flush" /\ jobs[i].name \in Name
      /\ chain' = IF Loading(Tail(wire)) THEN <<>> ELSE Tail(chain)
      /\ copy' = IF Loading(Tail(wire)) THEN LastText(e.draft, Tail(chain)) ELSE e.draft
      /\ Moved(jobs, jobs', ReadyNow(e), {e.owner}, "save")
      /\ \A i \in DOMAIN jobs :
           /\ jobs'[i].seen = jobs[i].seen
           /\ i = e.owner => (jobs'[i].clean <=> jobs[i].clean /\ e.answer = "ok")
      /\ Behind(Tail(wire), NextSet(Tail(chain), Tail(wire), e.draft) \cup Saves(jobs, ReadyNow(e)), wire')
      /\ e.owner # 0 => e.owner \in ReadyNow(e)
  BY WriteDelivered
<1>2. Follows(jobs, jobs')
  <2>1. \A i \in ReadyNow(e) : jobs[i].phase \notin Ended
    BY <1>1 DEF Ended
  <2>. QED BY <1>1, <2>1, MovedFollows
<1>3. /\ \A k \in DOMAIN Tail(wire) : k + 1 \in DOMAIN wire /\ Tail(wire)[k] = wire[k + 1]
      /\ \A k \in DOMAIN Tail(chain) : k \in Nat \ {0} /\ k + 1 \in DOMAIN chain /\ Tail(chain)[k] = chain[k + 1]
      /\ DOMAIN chain \subseteq Nat
  BY <1>1, TypeParts, TailFacts, LenProperties DEF Queues
<1>4. \A x \in Saves(jobs, ReadyNow(e)) : x.kind = "save" /\ x.answer = "none"
  BY <1>1, SaveType, TypeParts DEF Saves, Queues
<1>5. ASSUME NEW x \in NextSet(Tail(chain), Tail(wire), e.draft)
      PROVE  /\ x.kind = "set" /\ x.answer = "none" /\ Tail(chain) # <<>>
             /\ x.draft = e.draft \/ x.draft = Tail(chain)[1].draft
  <2>. DEFINE rest == Tail(chain)
              left == Tail(wire)
              text == e.draft
  <2>1. rest \in Seq(Write) /\ text \in Draft /\ x \in NextSet(rest, left, text)
    BY <1>1, <1>5 DEF Request
  <2>. HIDE DEF rest, left, text
  <2>2. /\ x.kind = "set" /\ x.answer = "none" /\ rest # <<>>
        /\ x.draft = text \/ x.draft = rest[1].draft
    BY <2>1, SetType
  <2>. QED BY <2>2 DEF rest, text
<1>6. ASSUME NEW i, Sole(i) PROVE Safe(i)'
  <2>1. /\ i \in DOMAIN jobs /\ i # 0 /\ jobs[i].seen \subseteq Draft /\ Safe(i) /\ ~ Loading(wire)
        /\ \A j \in DOMAIN jobs : jobs[j].phase \notin Ended => j = i
        /\ \A k \in DOMAIN wire : \/ wire[k].kind = "set"
                                  \/ wire[k].kind = "save" /\ wire[k].owner = i /\ jobs[i].phase = "save"
    BY <1>6, SoleFacts DEF SaveInv, Sole
  <2>2. ~ Loading(Tail(wire))
    BY <1>3, <2>1 DEF Loading
  <2>3. chain' = Tail(chain) /\ copy' = e.draft
    BY <1>1, <2>2
  <2>4. ReadyNow(e) = {e.owner} \ {0}
    BY <2>2 DEF ReadyNow, Ready
  <2>5. /\ jobs'[i].seen = jobs[i].seen /\ jobs'[i].name = jobs[i].name
        /\ jobs'[i].clean => jobs[i].clean /\ (i = e.owner => e.answer = "ok")
        /\ jobs'[i].phase = IF i = e.owner THEN "save" ELSE jobs[i].phase
    BY <1>1, <2>1, <2>4 DEF Moved
  <2>6. \A k \in DOMAIN wire' : \/ k \in DOMAIN Tail(wire) /\ wire'[k] = Tail(wire)[k]
                                \/ /\ wire'[k].kind = "set" /\ wire'[k].answer = "none" /\ Tail(chain) # <<>>
                                   /\ wire'[k].draft = e.draft \/ wire'[k].draft = Tail(chain)[1].draft
                                \/ wire'[k].kind = "save" /\ wire'[k].answer = "none"
    BY <1>1, <1>4, <1>5 DEF Behind
  <2>7. CASE jobs[i].phase = "flush"
    <3>1. \A k \in DOMAIN Tail(wire) : FALSE
      BY <1>1, <1>3, <2>1, <2>7 DEF NoSet
    <3>2. FlushSafe(i)
      BY <2>1, <2>7 DEF Safe
    <3>3. CASE e.owner = i
      <4>1. \A l \in DOMAIN chain : chain[l].draft \in jobs[i].seen
        <5>1. \A l \in DOMAIN chain : 1 <= l
          BY TypeParts, LenProperties DEF Queues
        <5>. QED BY <1>1, <3>2, <3>3, <5>1 DEF FlushSafe
      <4>2. e.draft \in jobs[i].seen
        <5>1. chain[1].draft \in jobs[i].seen /\ chain[1].draft # Same
          BY <1>1, <2>1, <4>1
        <5>2. e.draft = chain[1].draft
          BY <1>1, <5>1 DEF TypeInv, OneSet
        <5>. QED BY <5>1, <5>2
      <4>3. jobs'[i].clean => env \in jobs[i].seen
        BY <1>1, <2>5, <3>2, <3>3 DEF FlushSafe
      <4>4. \A k \in DOMAIN Tail(chain) : Tail(chain)[k].draft \in jobs[i].seen
        BY <1>3, <4>1
      <4>5. Tail(chain) # <<>> => Tail(chain)[1].draft \in jobs[i].seen
        BY <1>1, <4>4, EmptyFacts
      <4>6. \A k \in DOMAIN wire' : /\ wire'[k].kind = "set" => wire'[k].draft \in jobs[i].seen
                                    /\ wire'[k].answer = "none"
        BY <2>6, <3>1, <4>2, <4>5
      <4>7. SaveSafe(i)'
        BY <2>3, <2>5, <4>2, <4>3, <4>4, <4>6 DEF SaveSafe
      <4>. QED BY <2>5, <3>3, <4>7 DEF Safe
    <3>4. CASE e.owner # i
      <4>1. \A l \in DOMAIN wire' : wire'[l].answer = "none"
        BY <2>6, <3>1
      <4>2. ASSUME NEW k \in DOMAIN Tail(chain), Tail(chain)[k].owner = i
            PROVE  \A l \in DOMAIN Tail(chain) : k <= l => Tail(chain)[l].draft \in jobs[i].seen
        <5>1. /\ k \in Nat /\ k + 1 \in DOMAIN chain /\ chain[k + 1].owner = i
          BY <1>3, <4>2
        <5>2. \A l \in DOMAIN chain : k + 1 <= l => chain[l].draft \in jobs[i].seen
          BY <3>2, <5>1 DEF FlushSafe
        <5>. QED BY <1>3, <5>1, <5>2
      <4>3. FlushSafe(i)'
        BY <2>3, <2>5, <4>1, <4>2 DEF FlushSafe
      <4>. QED BY <2>5, <2>7, <3>4, <4>3 DEF Safe
    <3>. QED BY <3>3, <3>4
  <2>8. CASE jobs[i].phase # "flush"
    <3>1. i # e.owner
      BY <1>1, <2>1, <2>4, <2>8
    <3>2. CASE jobs[i].phase = "save"
      <4>1. SaveSafe(i)
        BY <2>1, <3>2 DEF Safe
      <4>2. e.draft \in jobs[i].seen
        BY <1>1, <4>1 DEF SaveSafe
      <4>3. \A k \in DOMAIN Tail(chain) : Tail(chain)[k].draft \in jobs[i].seen
        BY <1>3, <4>1 DEF SaveSafe
      <4>4. Tail(chain) # <<>> => Tail(chain)[1].draft \in jobs[i].seen
        BY <1>1, <4>3, EmptyFacts
      <4>5. \A k \in DOMAIN wire' : wire'[k].kind = "set" => wire'[k].draft \in jobs[i].seen
        BY <1>3, <2>6, <4>1, <4>2, <4>4 DEF SaveSafe
      <4>6. \A k \in DOMAIN wire' : wire'[k].kind = "save" /\ wire'[k].answer = "ok" /\ jobs[i].clean => images[jobs[i].name] \in jobs[i].seen
        BY <1>3, <2>6, <4>1 DEF SaveSafe
      <4>7. SaveSafe(i)'
        BY <2>3, <2>5, <4>1, <4>2, <4>3, <4>5, <4>6 DEF SaveSafe
      <4>. QED BY <2>5, <3>1, <3>2, <4>7 DEF Safe
    <3>3. CASE jobs[i].phase \in {"registry", "quit"}
      <4>1. KeptSafe(i)
        BY <2>1, <3>3 DEF Safe
      <4>2. KeptSafe(i)'
        BY <2>5, <3>1, <3>3, <4>1 DEF KeptSafe
      <4>. QED BY <2>5, <3>1, <3>3, <4>2 DEF Safe
    <3>. QED BY <1>6, <2>5, <2>8, <3>1, <3>2, <3>3 DEF Safe, Sole, Ended
  <2>. QED BY <2>7, <2>8
<1>. QED BY <1>2, <1>6, SoleStep

LEMMA AnsweredSave ==
  ASSUME TypeInv, HandlersInv, OrderInv, SaveInv, window = "open", Follows(jobs, jobs'),
         wire # <<>>, NEW e, e = Head(wire), DeliverSave(e), UNCHANGED <<images, window>>
  PROVE  SaveInv'
<1>1. /\ e = wire[1] /\ 1 \in DOMAIN wire /\ e.kind = "save"
      /\ \E failed, swallowed : Heard(jobs', e, failed, swallowed)
  BY SaveHeard
<1>2. PICK failed, swallowed : Heard(jobs', e, failed, swallowed)
  BY <1>1
<1>3. ASSUME NEW i, Sole(i) PROVE Safe(i)'
  <2>1. i \in DOMAIN jobs /\ i = e.owner /\ jobs[i].phase = "save" /\ jobs[i].kind \in Saving
    BY <1>1, <1>3, SoleFacts DEF Sole
  <2>2. SaveSafe(i)
    BY <1>3, <2>1 DEF SaveInv, Safe, Sole
  <2>3. i \notin failed /\ i \notin swallowed
    BY <1>2, <2>1 DEF Heard, Reading
  <2>4. jobs'[i].phase = "registry"
    BY <1>2, <2>1, <2>3 DEF Heard, Onward, Saving
  <2>5. /\ jobs'[i].seen = jobs[i].seen /\ jobs'[i].name = jobs[i].name
        /\ jobs'[i].clean => jobs[i].clean /\ e.answer = "ok"
    BY <1>2, <2>1 DEF Heard
  <2>6. KeptSafe(i)'
    BY <1>1, <2>2, <2>4, <2>5 DEF KeptSafe, SaveSafe
  <2>. QED BY <2>4, <2>6 DEF Safe
<1>. QED BY <1>3, SoleStep

\* Nobody who is alone saves while the environment is replaced.
LEMMA TransitionSave ==
  ASSUME TypeInv, HandlersInv, OrderInv, SaveInv, window = "open", Follows(jobs, jobs'),
         wire # <<>>, NEW e, e = Head(wire), DeliverTransition(e)
  PROVE  SaveInv'
<1>1. e = wire[1] /\ 1 \in DOMAIN wire /\ e.kind \in {"load", "revert"}
  BY TransitionHeard
<1>2. \A i : ~ Sole(i)
  BY <1>1, SoleFacts
<1>. QED BY <1>2, SoleStep

LEMMA DeliverSaved ==
  ASSUME TypeInv, TypeInv', HandlersInv, OrderInv, SaveInv, Deliver
  PROVE  SaveInv'
<1>. DEFINE e == Head(wire)
<1>1. /\ wire # <<>> /\ (DeliverWrite(e) \/ DeliverSave(e) \/ DeliverTransition(e))
      /\ UNCHANGED <<env, images, window>> /\ window = "open"
  BY DEF Deliver, service
<1>. HIDE DEF e
<1>2. e = Head(wire)
  BY DEF e
<1>3. Follows(jobs, jobs')
  BY DeliverHandlers
<1>. QED BY <1>1, <1>2, <1>3, WrittenSave, AnsweredSave, TransitionSave

LEMMA LostSave ==
  ASSUME TypeInv, HandlersInv, OrderInv, SaveInv, LoseChild
  PROVE  SaveInv'
<1>1. /\ Rest \in Seq(Write) /\ chain' = Rest /\ copy' = copy
      /\ Moved(jobs, jobs', Lost(wire), {}, "failed")
      /\ \A i \in DOMAIN jobs : jobs'[i].seen = jobs[i].seen
      /\ Behind(<<>>, NextSet(Rest, <<>>, copy), wire')
      /\ wire' \in Seq(Request) /\ copy \in Draft /\ chain \in Seq(Write)
  BY ChildLost, TypeParts DEF Queues
<1>2. \A i \in Lost(wire) : jobs[i].phase \notin Ended
  BY AwaitPhase DEF Lost, Ended
<1>3. Follows(jobs, jobs')
  BY <1>1, <1>2, MovedFollows
<1>4. window = "open" /\ UNCHANGED <<env, images, window>>
  BY DEF LoseChild, service
<1>5. \A k \in DOMAIN Rest : k \in Nat /\ k + 1 \in DOMAIN chain /\ Rest[k] = chain[k + 1]
  BY <1>1, TailFacts, EmptyFacts DEF Rest
<1>6. /\ \A k \in DOMAIN wire' : wire'[k].kind = "set" /\ wire'[k].answer = "none"
      /\ \A k \in DOMAIN wire' : wire'[k] \in NextSet(Rest, <<>>, copy)
  BY <1>1, RejectedOrder, EmptyFacts DEF Behind
<1>7. ASSUME NEW i, Sole(i) PROVE Safe(i)'
  <2>1. i \in DOMAIN jobs /\ Safe(i)
    BY <1>7 DEF SaveInv, Sole
  <2>2. CASE i \in Lost(wire)
    <3>1. jobs'[i].phase = "failed"
      BY <1>1, <2>1, <2>2 DEF Moved
    <3>. QED BY <3>1 DEF Safe
  <2>3. CASE i \notin Lost(wire)
    <3>1. /\ jobs'[i].seen = jobs[i].seen /\ jobs'[i].name = jobs[i].name
          /\ jobs'[i].clean = jobs[i].clean /\ jobs'[i].phase = jobs[i].phase
      BY <1>1, <2>1, <2>3 DEF Moved
    <3>2. FlushSafe(i) => FlushSafe(i)'
      <4>1. ASSUME FlushSafe(i), NEW k \in DOMAIN Rest, Rest[k].owner = i
            PROVE  \A l \in DOMAIN Rest : k <= l => Rest[l].draft \in jobs[i].seen
        <5>1. k \in Nat /\ k + 1 \in DOMAIN chain /\ chain[k + 1].owner = i
          BY <1>5, <4>1
        <5>2. \A l \in DOMAIN chain : k + 1 <= l => chain[l].draft \in jobs[i].seen
          BY <4>1, <5>1 DEF FlushSafe
        <5>. QED BY <1>5, <5>1, <5>2
      <4>. QED BY <1>1, <1>6, <3>1, <4>1 DEF FlushSafe
    <3>3. SaveSafe(i) => SaveSafe(i)'
      <4>. SUFFICES ASSUME SaveSafe(i) PROVE SaveSafe(i)'
        OBVIOUS
      <4>1. \A k \in DOMAIN Rest : Rest[k].draft \in jobs[i].seen
        BY <1>5 DEF SaveSafe
      <4>2. ASSUME NEW k \in DOMAIN wire' PROVE wire'[k].draft \in jobs[i].seen
        <5>1. /\ wire'[k].draft = IF Rest[1].draft = Same THEN copy ELSE Rest[1].draft
              /\ Rest # <<>>
          BY <1>1, <1>6, SetType
        <5>2. 1 \in DOMAIN Rest
          BY <1>1, <5>1, EmptyFacts
        <5>. QED BY <4>1, <5>1, <5>2 DEF SaveSafe
      <4>. QED BY <1>1, <1>4, <1>6, <3>1, <4>1, <4>2 DEF SaveSafe
    <3>4. KeptSafe(i) /\ jobs[i].phase # "done" => KeptSafe(i)'
      BY <1>4, <3>1 DEF KeptSafe
    <3>. QED BY <1>7, <2>1, <3>1, <3>2, <3>3, <3>4 DEF Safe, Sole, Ended
  <2>. QED BY <2>2, <2>3
<1>. QED BY <1>3, <1>4, <1>7, SoleStep

LEMMA SaveInit ==
  ASSUME Init
  PROVE  SaveInv
BY EmptySeq DEF Init, SaveInv

LEMMA SaveStep ==
  ASSUME TypeInv, TypeInv', HandlersInv, OrderInv, SaveInv, [Next]_vars
  PROVE  SaveInv'
<1>1. CASE UNCHANGED vars
  BY <1>1 DEF vars, adapter, service, SaveInv, Safe, FlushSafe, SaveSafe, KeptSafe
<1>2. CASE \/ ShowChooser \/ OpenCreateDialog \/ BackToImages \/ RequestQuit \/ Cancel
  BY <1>2, ViewSave
<1>3. CASE (\E n \in Name : OpenImage(n) \/ CreateImage(n)) \/ Discard
  BY <1>3, StartSave
<1>4. CASE \E i \in 1..MaxJobs : ReadPreferences(i) \/ Bootstrap(i) \/ ReadFails(i) \/ Registry(i) \/ Quit(i)
  BY <1>4, ReadSave, RegistrySave
<1>5. CASE \E d \in Draft : Edit(d)
  BY <1>5, EditSave
<1>6. CASE TimerFires \/ \E kind \in Saving, n \in Name : SaveAndQuit(kind, n)
  BY <1>6, TimerSave, SaveAndQuitSave
<1>7. CASE Reload
  BY <1>7, ReloadSave
<1>8. CASE Serve \/ Deliver \/ LoseChild
  BY <1>8, ServeSave, DeliverSaved, LostSave
<1>. QED BY <1>1, <1>2, <1>3, <1>4, <1>5, <1>6, <1>7, <1>8 DEF Next

LEMMA SaveInvariant == Spec => []SaveInv
<1>1. Init => SaveInv
  BY SaveInit
<1>2. TypeInv /\ TypeInv' /\ HandlersInv /\ OrderInv /\ SaveInv /\ [Next]_vars => SaveInv'
  BY SaveStep
<1>. QED BY <1>1, <1>2, TypesInvariant, HandlersInvariant, OrderInvariant, PTL DEF Spec

(* An image that was saved on the way out holds a text that was on the     *)
(* screen when the save was chosen, or later: the write that               *)
(* flushRichDesktopPreferences waits for is the last one before the save,  *)
(* however many were waiting in the chain of setDesktopPreferences.        *)
THEOREM SavedFaithfully == Spec => []SavedAsShown
<1>1. SaveInv => SavedAsShown
  BY DEF SaveInv, Safe, KeptSafe, SavedAsShown, Kept
<1>. QED BY <1>1, SaveInvariant, PTL
=============================================================================
