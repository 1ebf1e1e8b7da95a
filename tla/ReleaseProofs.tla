---------------------------- MODULE ReleaseProofs ----------------------------
(***************************************************************************)
(* Proofs about ModelCard and Release, for any cards, however deep, any    *)
(* weights, golden files and models, and any number of replacements.       *)
(***************************************************************************)
EXTENDS Release, WellFoundedInduction, SequenceTheorems, TLAPS

(* What stands first in a card.                                            *)

\* A set of numbers has a least one; induction rests on this.
LEMMA Least ==
  ASSUME NEW T \in SUBSET Nat, T # {}
  PROVE  \E n \in T : \A m \in T : n <= m
<1>1. OpToRel(<, Nat) = {x \in Nat \X Nat : x[1] < x[2]}
  BY Zenon DEF OpToRel
<1>2. PICK n \in T : \A m \in T : <<m, n>> \notin {x \in Nat \X Nat : x[1] < x[2]}
  <2>1. \E n \in T : \A m \in T : <<m, n>> \notin OpToRel(<, Nat)
    BY WFMin, NatLessThanWellFounded
  <2> QED
    BY <1>1, <2>1, Zenon
<1>3. ASSUME NEW m \in T  PROVE n <= m
  <2>1. n \in Nat /\ m \in Nat
    OBVIOUS
  <2>2. <<m, n>> \notin {x \in Nat \X Nat : x[1] < x[2]}
    BY <1>2
  <2> QED
    BY <2>1, <2>2
<1> QED
  BY <1>3

\* So Min, by which the searches choose an entry, is one of the entries.
LEMMA MinIsFirst ==
  ASSUME NEW T \in SUBSET Nat, T # {}
  PROVE  Min(T) \in T /\ \A n \in T : Min(T) <= n
  BY Least, Zenon DEF Min

\* The entries of a value are numbered, and hold values that are nested less.
LEMMA Inner ==
  ASSUME NEW v \in Values
  PROVE  /\ DOMAIN v.entries \in SUBSET (Nat \ {0})
         /\ \A i \in DOMAIN v.entries : 
               /\ v.entries[i].value \in Values
               /\ Depth[v.entries[i].value] \in Nat
               /\ Depth[v.entries[i].value] < Depth[v]
<1>1. v.entries \in Seq([key : Keys \cup {NoKey}, value : Values])
  BY NestingAssumption
<1>2. DOMAIN v.entries = 1..Len(v.entries) /\ Len(v.entries) \in Nat
  BY <1>1
<1>3. ASSUME NEW i \in DOMAIN v.entries  PROVE v.entries[i].value \in Values
  <2>1. v.entries[i] \in [key : Keys \cup {NoKey}, value : Values]
    BY <1>1, <1>2, ElementOfSeq
  <2> QED
    BY <2>1
<1> QED
  BY <1>2, <1>3, NestingAssumption

\* Induction: values that go wrong have one among them inside which all is right.
LEMMA Shallowest ==
  ASSUME NEW B \in SUBSET Values, B # {}
  PROVE  \E v \in B : \A i \in DOMAIN v.entries : v.entries[i].value \notin B
<1> DEFINE D == {Depth[v] : v \in B}
<1>1. D \in SUBSET Nat /\ D # {}
  BY NestingAssumption
<1>2. PICK n \in D : \A m \in D : n <= m
  BY <1>1, Least
<1>3. PICK v \in B : Depth[v] = n
  BY <1>2
<1>4. ASSUME NEW i \in DOMAIN v.entries, v.entries[i].value \in B  PROVE FALSE
  <2>1. Depth[v.entries[i].value] \in D
    BY <1>4
  <2>2. n <= Depth[v.entries[i].value]
    BY <1>2, <2>1
  <2> QED
    BY <1>3, <2>2, Inner, NestingAssumption
<1> QED
  BY <1>4

\* What a search finds below a value.
Below(f, v) == [i \in DOMAIN v.entries |-> f[v.entries[i].value]]

\* What is below a value depends on the values inside it only.
LEMMA BelowAgrees ==
  ASSUME NEW v \in Values, NEW f, NEW g,
         \A i \in DOMAIN v.entries : f[v.entries[i].value] = g[v.entries[i].value]
  PROVE  Below(f, v) = Below(g, v)
  BY DEF Below

\* A step from what is found below to what is found, and a search made of it.
StaysIn(Step, S) == \A v \in Values, f \in [Values -> S] : Step[<<v, Below(f, v)>>] \in S
Solves(f, Step) == \A v \in Values : f[v] = Step[<<v, Below(f, v)>>]

\* A search that goes from what is found below a value to what is found in
\* it exists: it does down to each depth, and two that do agree.
LEMMA Recursion ==
  ASSUME NEW S, NEW Step, S # {}, StaysIn(Step, S)
  PROVE  \E f \in [Values -> S] : Solves(f, Step)
<1> USE DEF StaysIn, Solves
<1> DEFINE Good(f, n) == /\ f \in [Values -> S]
                         /\ \A v \in Values : Depth[v] < n => f[v] = Step[<<v, Below(f, v)>>]
<1>1. \A n \in Nat : \E f : Good(f, n)
  <2> DEFINE Bad == {n \in Nat : ~\E f : Good(f, n)}
  <2> SUFFICES ASSUME Bad # {}  PROVE FALSE
    OBVIOUS
  <2>1. PICK n \in Bad : \A m \in Bad : n <= m
    BY Least
  <2>2. CASE n = 0
    <3>1. PICK s \in S : TRUE
      OBVIOUS
    <3>2. Good([v \in Values |-> s], 0)
      BY NestingAssumption
    <3> QED
      BY <2>1, <2>2, <3>2
  <2>3. CASE n # 0
    <3>1. n - 1 \in Nat /\ n - 1 \notin Bad
      BY <2>1, <2>3
    <3>2. PICK f : Good(f, n - 1)
      BY <3>1
    <3> DEFINE g == [v \in Values |-> Step[<<v, Below(f, v)>>]]
    <3>3. g \in [Values -> S]
      BY <3>2
    <3>4. ASSUME NEW v \in Values, Depth[v] < n
          PROVE  g[v] = Step[<<v, Below(g, v)>>]
      <4>1. ASSUME NEW i \in DOMAIN v.entries
            PROVE  f[v.entries[i].value] = g[v.entries[i].value]
        <5>1. /\ v.entries[i].value \in Values 
              /\ Depth[v.entries[i].value] < n - 1
          BY <3>4, Inner, NestingAssumption, <2>1
        <5> HIDE DEF Bad
        <5> QED
          BY <3>2, <5>1
      <4>2. Below(f, v) = Below(g, v)
        BY <4>1, BelowAgrees
      <4> QED
        BY <4>2
    <3>5. Good(g, n)
      BY <3>3, <3>4
    <3> QED
      BY <2>1, <3>5
  <2> QED
    BY <2>2, <2>3
<1>2. ASSUME NEW n \in Nat, NEW f, NEW g, Good(f, n), Good(g, n), NEW v \in Values, Depth[v] < n
      PROVE  f[v] = g[v]
  <2> DEFINE B == {w \in Values : Depth[w] < n /\ f[w] # g[w]}
  <2> SUFFICES ASSUME B # {}  PROVE FALSE
    BY <1>2
  <2>1. PICK w \in B : \A i \in DOMAIN w.entries : w.entries[i].value \notin B
    BY Shallowest
  <2>2. ASSUME NEW i \in DOMAIN w.entries
        PROVE  f[w.entries[i].value] = g[w.entries[i].value]
    <3>1. /\ w.entries[i].value \in Values \ B
          /\ Depth[w.entries[i].value] < n
      BY <2>1, Inner, NestingAssumption
    <3> QED
      BY <3>1
  <2>3. Below(f, w) = Below(g, w)
    BY <2>2, BelowAgrees
  <2> QED
    BY <1>2, <2>1, <2>3
<1>3. PICK to : \A n \in Nat : Good(to[n], n)
  <2> DEFINE all == [n \in Nat |-> CHOOSE f : Good(f, n)]
  <2>1. ASSUME NEW n \in Nat  PROVE Good(CHOOSE f : Good(f, n), n)
    BY <1>1, Zenon
  <2>2. \A n \in Nat : Good(all[n], n)
    BY <2>1, Zenon
  <2> HIDE DEF all
  <2> QED
    BY <2>2, Zenon
<1> DEFINE h == [v \in Values |-> to[Depth[v] + 1][v]]
<1>4. ASSUME NEW n \in Nat, NEW v \in Values, Depth[v] < n
      PROVE  h[v] = to[n][v]
  <2> DEFINE m == Depth[v] + 1
  <2>1. m \in Nat /\ Depth[v] < m /\ Good(to[m], m)
    BY <1>3, NestingAssumption
  <2>2. Good(to[n], m)
    <3>1. Good(to[n], n)
      BY <1>3
    <3>2. \A w \in Values : Depth[w] < m => Depth[w] < n
      BY <1>4, NestingAssumption
    <3> QED
      BY <3>1, <3>2
  <2> HIDE DEF Good, m
  <2>3. to[m][v] = to[n][v]
    BY <1>2, <2>1, <2>2
  <2> QED
    BY <2>3 DEF m
<1>5. h \in [Values -> S]
  BY <1>3, NestingAssumption
<1>6. ASSUME NEW v \in Values  PROVE h[v] = Step[<<v, Below(h, v)>>]
  <2> DEFINE m == Depth[v] + 1
  <2>1. m \in Nat /\ Depth[v] < m
    BY NestingAssumption
  <2> HIDE DEF m, h
  <2>2. ASSUME NEW i \in DOMAIN v.entries
        PROVE  h[v.entries[i].value] = to[m][v.entries[i].value]
    <3>1. v.entries[i].value \in Values /\ Depth[v.entries[i].value] < m
      BY Inner, <2>1, NestingAssumption
    <3> QED
      BY <1>4, <2>1, <3>1
  <2>3. Below(h, v) = Below(to[m], v)
    BY <2>2, BelowAgrees
  <2>4. h[v] = to[m][v]
    BY <1>4, <2>1
  <2>5. to[m][v] = Step[<<v, Below(to[m], v)>>]
    BY <1>3, <2>1
  <2> QED
    BY <2>3, <2>4, <2>5
<1> QED
  BY <1>5, <1>6

-----------------------------------------------------------------------------
(* The two recursive functions obey their definitions.                     *)

Texts == {Nothing} \cup {v.text : v \in Values}

\* The numbers of a dict's own strings are numbers of its entries.
LEMMA OwnAreEntries ==
  ASSUME NEW v \in Values
  PROVE  /\ OwnStrings(v) \subseteq DOMAIN v.entries
         /\ OwnStrings(v) \in SUBSET Nat
         /\ OwnStrings(v) # {} => Min(OwnStrings(v)) \in OwnStrings(v)
<1>1. OwnStrings(v) \subseteq DOMAIN v.entries
  BY DEF OwnStrings
<1>2. OwnStrings(v) \in SUBSET Nat
  BY <1>1, Inner
<1> QED
  BY <1>1, <1>2, MinIsFirst

\* The first thing found below is that of the first entry with any.
LEMMA FirstFoundIsThere ==
  ASSUME NEW v \in Values, NEW f
  PROVE  LET found == {i \in DOMAIN v.entries : Truthy(f[v.entries[i].value])}
         IN  /\ found = {} => FirstFound(Below(f, v)) = Nothing
             /\ found # {} => \E m \in found :
                    /\ FirstFound(Below(f, v)) = f[v.entries[m].value]
                    /\ \A i \in found : m <= i
<1> DEFINE found == {i \in DOMAIN v.entries : Truthy(f[v.entries[i].value])}
           there == {i \in DOMAIN Below(f, v) : Truthy(Below(f, v)[i])}
<1>1. /\ DOMAIN Below(f, v) = DOMAIN v.entries
      /\ \A i \in DOMAIN v.entries : Below(f, v)[i] = f[v.entries[i].value]
  BY DEF Below
<1>2. there = found
  BY <1>1
<1>3. found \in SUBSET Nat
  BY Inner
<1>4. FirstFound(Below(f, v)) = IF found = {} THEN Nothing ELSE Below(f, v)[Min(found)]
  BY <1>2, Zenon DEF FirstFound
<1>5. CASE found # {}
  <2>1. Min(found) \in found /\ \A i \in found : Min(found) <= i
    BY <1>3, <1>5, MinIsFirst
  <2>2. Below(f, v)[Min(found)] = f[v.entries[Min(found)].value]
    BY <1>1, <2>1
  <2> HIDE DEF found
  <2>3. \E m \in found : /\ FirstFound(Below(f, v)) = f[v.entries[m].value]
                         /\ \A i \in found : m <= i
    BY <1>4, <1>5, <2>1, <2>2, Zenon
  <2> QED
    BY <1>5, <2>3 DEF found
<1> QED
  BY <1>4, <1>5

\* One step of _find_first_string_key finds a text, or nothing.
LEMMA FirstStringIsText ==
  ASSUME NEW v \in Values, NEW f,
         \A i \in DOMAIN v.entries : f[v.entries[i].value] \in Texts
  PROVE  FirstString(v, Below(f, v)) \in Texts
<1>1. CASE OwnStrings(v) # {}
  <2>1. v.entries[Min(OwnStrings(v))].value \in Values
    BY <1>1, OwnAreEntries, Inner
  <2> QED
    BY <1>1, <2>1 DEF FirstString, Texts
<1>2. CASE OwnStrings(v) = {}
  <2>1. FirstFound(Below(f, v)) \in Texts
    BY FirstFoundIsThere, Zenon DEF Texts
  <2> QED
    BY <1>2, <2>1 DEF FirstString
<1> QED
  BY <1>1, <1>2

\* _find_first_string_key is what its definition says, for every value.
LEMMA FindEquation ==
  /\ FindFirstStringKey \in [Values -> Texts]
  /\ \A v \in Values : FindFirstStringKey[v] = FirstString(v, Below(FindFirstStringKey, v))
<1> DEFINE Belows == {Below(x[1], x[2]) : x \in [Values -> Texts] \X Values}
           Step == [x \in Values \X Belows |-> FirstString(x[1], x[2])]
<1>1. ASSUME NEW v \in Values, NEW f \in [Values -> Texts]
      PROVE  Step[<<v, Below(f, v)>>] = FirstString(v, Below(f, v))
  <2>1. <<f, v>> \in [Values -> Texts] \X Values
    OBVIOUS
  <2>2. Below(f, v) \in Belows
    BY <2>1
  <2>3. <<v, Below(f, v)>> \in Values \X Belows
    BY <2>2
  <2> HIDE DEF Belows
  <2> QED
    BY <2>3
<1>2. ASSUME NEW v \in Values, NEW f \in [Values -> Texts]
      PROVE  Step[<<v, Below(f, v)>>] \in Texts
  <2>1. \A i \in DOMAIN v.entries : f[v.entries[i].value] \in Texts
    BY Inner
  <2> HIDE DEF Step
  <2> QED
    BY <1>1, <2>1, FirstStringIsText
<1> HIDE DEF Step
<1>3. Texts # {}
  BY DEF Texts
<1>4. PICK f \in [Values -> Texts] : Solves(f, Step)
  <2>1. StaysIn(Step, Texts)
    BY <1>2 DEF StaysIn
  <2> QED
    BY <1>3, <2>1, Recursion
<1>5. f = [v \in Values |-> FirstString(v, Below(f, v))]
  <2>1. \A v \in Values : f[v] = FirstString(v, Below(f, v))
    BY <1>1, <1>4 DEF Solves
  <2> QED
    BY <1>4, <2>1
<1>6. FindFirstStringKey = [v \in Values |-> FirstString(v, Below(FindFirstStringKey, v))]
  BY <1>5, Zenon DEF FindFirstStringKey, Below
<1>7. \A v \in Values : FindFirstStringKey[v] = FirstString(v, Below(FindFirstStringKey, v))
  BY <1>6, Zenon
<1> DEFINE B == {v \in Values : FindFirstStringKey[v] \notin Texts}
<1>8. B = {}
  <2> SUFFICES ASSUME B # {}  PROVE FALSE
    OBVIOUS
  <2>1. PICK v \in B : \A i \in DOMAIN v.entries : v.entries[i].value \notin B
    BY Shallowest
  <2>2. \A i \in DOMAIN v.entries : FindFirstStringKey[v.entries[i].value] \in Texts
    BY <2>1, Inner
  <2> QED
    BY <1>7, <2>1, <2>2, FirstStringIsText
<1>9. FindFirstStringKey \in [Values -> Texts]
  <2>1. DOMAIN FindFirstStringKey = Values /\ \A v \in Values : FindFirstStringKey[v] \in Texts
    BY <1>6, <1>8, Zenon
  <2> QED
    BY <1>6, <2>1
<1> QED
  BY <1>7, <1>9

-----------------------------------------------------------------------------
(* Paths: of two hits one comes first.                                     *)

HitRecords == [path : Seq(Nat) \ {<<>>}, text : Texts]

\* A path that goes through one more entry.
LEMMA Shift ==
  ASSUME NEW i \in Nat, NEW p \in Seq(Nat)
  PROVE  /\ <<i>> \o p \in Seq(Nat)
         /\ <<i>> \o p # <<>>
         /\ Len(<<i>> \o p) = Len(p) + 1
         /\ (<<i>> \o p)[1] = i
         /\ \A j \in 1..Len(p) : (<<i>> \o p)[j + 1] = p[j]
         /\ \A j \in 2..(Len(p) + 1) : (<<i>> \o p)[j] = p[j - 1]
<1>1. <<i>> \in Seq(Nat) /\ Len(<<i>>) = 1 /\ <<i>>[1] = i
  OBVIOUS
<1>2. Len(p) \in Nat
  OBVIOUS
<1>3. /\ <<i>> \o p \in Seq(Nat)
      /\ Len(<<i>> \o p) = 1 + Len(p)
      /\ \A j \in 1 .. 1 + Len(p) : (<<i>> \o p)[j] = IF j <= 1 THEN <<i>>[j] ELSE p[j - 1]
  BY <1>1, ConcatProperties
<1>4. \A j \in 1..Len(p) : (<<i>> \o p)[j + 1] = p[j]
  BY <1>2, <1>3
<1>5. <<i>> \o p # <<>>
  BY <1>2, <1>3
<1> QED
  BY <1>1, <1>2, <1>3, <1>4, <1>5

\* Below the same entry paths are ordered as they were...
LEMMA BeforeShift ==
  ASSUME NEW i \in Nat, NEW p \in Seq(Nat), NEW q \in Seq(Nat)
  PROVE  Before(<<i>> \o p, <<i>> \o q) <=> Before(p, q)
<1> DEFINE ip == <<i>> \o p
           iq == <<i>> \o q
<1>1. Len(p) \in Nat /\ Len(q) \in Nat
  OBVIOUS
<1>2. /\ Len(ip) = Len(p) + 1 /\ ip[1] = i
      /\ \A j \in 1..Len(p) : ip[j + 1] = p[j]
      /\ \A j \in 2..(Len(p) + 1) : ip[j] = p[j - 1]
      /\ Len(iq) = Len(q) + 1 /\ iq[1] = i
      /\ \A j \in 1..Len(q) : iq[j + 1] = q[j]
      /\ \A j \in 2..(Len(q) + 1) : iq[j] = q[j - 1]
  BY Shift
<1> HIDE DEF ip, iq
<1>3. ASSUME Before(p, q)  PROVE Before(ip, iq)
  <2>1. PICK k \in 1..Len(p) :
            /\ k <= Len(q)
            /\ p[k] # q[k] /\ \A j \in 1..(k - 1) : p[j] = q[j]
            /\ IF (Len(p) = k) # (Len(q) = k) THEN Len(p) = k ELSE p[k] < q[k]
    BY <1>3 DEF Before
  <2>2. k + 1 \in 1..Len(ip) /\ k + 1 <= Len(iq)
    BY <1>1, <1>2, <2>1
  <2>3. ip[k + 1] = p[k] /\ iq[k + 1] = q[k]
    BY <1>1, <1>2, <2>1
  <2>4. \A j \in 1..((k + 1) - 1) : ip[j] = iq[j]
    <3> TAKE j \in 1..((k + 1) - 1)
    <3>1. CASE j = 1
      BY <3>1, <1>2
    <3>2. CASE j # 1
      <4>1. j \in 2..(Len(p) + 1) /\ j \in 2..(Len(q) + 1) /\ j - 1 \in 1..(k - 1)
        BY <3>2, <1>1, <2>1
      <4> QED
        BY <4>1, <1>2, <2>1
    <3> QED
      BY <3>1, <3>2
  <2>5. IF (Len(ip) = k + 1) # (Len(iq) = k + 1) THEN Len(ip) = k + 1 ELSE ip[k + 1] < iq[k + 1]
    BY <1>1, <1>2, <2>1, <2>3
  <2> QED
    BY <2>1, <2>2, <2>3, <2>4, <2>5 DEF Before
<1>4. ASSUME Before(ip, iq)  PROVE Before(p, q)
  <2>1. PICK k \in 1..Len(ip) :
            /\ k <= Len(iq)
            /\ ip[k] # iq[k] /\ \A j \in 1..(k - 1) : ip[j] = iq[j]
            /\ IF (Len(ip) = k) # (Len(iq) = k) THEN Len(ip) = k ELSE ip[k] < iq[k]
    BY <1>4 DEF Before
  <2>2. k # 1
    BY <2>1, <1>2
  <2>3. k - 1 \in 1..Len(p) /\ k - 1 <= Len(q)
    BY <1>1, <1>2, <2>1, <2>2
  <2>4. ip[k] = p[k - 1] /\ iq[k] = q[k - 1]
    BY <1>1, <1>2, <2>1, <2>2
  <2>5. \A j \in 1..((k - 1) - 1) : p[j] = q[j]
    <3> TAKE j \in 1..((k - 1) - 1)
    <3>1. j + 1 \in 1..(k - 1) /\ j \in 1..Len(p) /\ j \in 1..Len(q)
      BY <2>1, <2>3, <1>1
    <3> QED
      BY <3>1, <1>2, <2>1
  <2>6. IF (Len(p) = k - 1) # (Len(q) = k - 1) THEN Len(p) = k - 1 ELSE p[k - 1] < q[k - 1]
    BY <1>1, <1>2, <2>1, <2>4
  <2> QED
    BY <2>1, <2>3, <2>4, <2>5, <2>6 DEF Before
<1> QED
  BY <1>3, <1>4 DEF ip, iq

\* ... below two entries as these are...
LEMMA BeforeParts ==
  ASSUME NEW i \in Nat, NEW j \in Nat, i < j,
         NEW p \in Seq(Nat) \ {<<>>}, NEW q \in Seq(Nat) \ {<<>>}
  PROVE  Before(<<i>> \o p, <<j>> \o q)
<1> DEFINE ip == <<i>> \o p
           jq == <<j>> \o q
<1>1. Len(p) \in Nat \ {0} /\ Len(q) \in Nat \ {0}
  BY EmptySeq
<1>2. Len(ip) = Len(p) + 1 /\ ip[1] = i /\ Len(jq) = Len(q) + 1 /\ jq[1] = j
  BY Shift
<1> HIDE DEF ip, jq
<1>3. 1 \in 1..Len(ip) /\ 1 <= Len(jq) /\ Len(ip) # 1 /\ Len(jq) # 1
  BY <1>1, <1>2
<1>4. Before(ip, jq)
  BY <1>2, <1>3 DEF Before
<1> QED
  BY <1>4 DEF ip, jq

\* ... and never both ways.
LEMMA BeforeAsymmetric ==
  ASSUME NEW p \in Seq(Nat), NEW q \in Seq(Nat), Before(p, q), Before(q, p)
  PROVE  FALSE
<1>1. PICK k \in 1..Len(p) :
          /\ k <= Len(q)
          /\ p[k] # q[k] /\ \A j \in 1..(k - 1) : p[j] = q[j]
          /\ IF (Len(p) = k) # (Len(q) = k) THEN Len(p) = k ELSE p[k] < q[k]
  BY DEF Before
<1>2. PICK l \in 1..Len(q) :
          /\ l <= Len(p)
          /\ q[l] # p[l] /\ \A j \in 1..(l - 1) : q[j] = p[j]
          /\ IF (Len(q) = l) # (Len(p) = l) THEN Len(q) = l ELSE q[l] < p[l]
  BY DEF Before
<1>3. k = l
  <2>1. ~(k < l) /\ ~(l < k)
    BY <1>1, <1>2
  <2> QED
    BY <2>1
<1>4. p[k] \in Nat /\ q[k] \in Nat
  BY <1>1, <1>2, <1>3
<1> QED
  BY <1>1, <1>2, <1>3, <1>4

\* The dict where a path ends is on another path below the same entry only.
LEMMA InDictShift ==
  ASSUME NEW i \in Nat, NEW j \in Nat, NEW p \in Seq(Nat), NEW q \in Seq(Nat) \ {<<>>}
  PROVE  InDictOf(<<i>> \o p, <<j>> \o q) <=> i = j /\ InDictOf(p, q)
<1> DEFINE ip == <<i>> \o p
           jq == <<j>> \o q
<1>1. Len(p) \in Nat /\ Len(q) \in Nat \ {0}
  BY EmptySeq
<1>2. /\ Len(ip) = Len(p) + 1 /\ ip[1] = i
      /\ \A n \in 1..Len(p) : ip[n + 1] = p[n]
      /\ \A n \in 2..(Len(p) + 1) : ip[n] = p[n - 1]
      /\ Len(jq) = Len(q) + 1 /\ jq[1] = j
      /\ \A n \in 1..Len(q) : jq[n + 1] = q[n]
      /\ \A n \in 2..(Len(q) + 1) : jq[n] = q[n - 1]
  BY Shift
<1> HIDE DEF ip, jq
<1>3. ASSUME InDictOf(ip, jq)  PROVE i = j /\ InDictOf(p, q)
  <2>1. Len(jq) <= Len(ip) /\ \A n \in 1..(Len(jq) - 1) : ip[n] = jq[n]
    BY <1>3 DEF InDictOf
  <2>2. 1 \in 1..(Len(jq) - 1)
    BY <1>1, <1>2
  <2>3. \A n \in 1..(Len(q) - 1) : p[n] = q[n]
    <3> TAKE n \in 1..(Len(q) - 1)
    <3>1. n + 1 \in 1..(Len(jq) - 1) /\ n \in 1..Len(p) /\ n \in 1..Len(q)
      BY <1>1, <1>2, <2>1
    <3> QED
      BY <3>1, <1>2, <2>1
  <2> QED
    BY <1>1, <1>2, <2>1, <2>2, <2>3 DEF InDictOf
<1>4. ASSUME i = j, InDictOf(p, q)  PROVE InDictOf(ip, jq)
  <2>1. Len(q) <= Len(p) /\ \A n \in 1..(Len(q) - 1) : p[n] = q[n]
    BY <1>4 DEF InDictOf
  <2>2. \A n \in 1..(Len(jq) - 1) : ip[n] = jq[n]
    <3> TAKE n \in 1..(Len(jq) - 1)
    <3>1. CASE n = 1
      BY <3>1, <1>2, <1>4
    <3>2. CASE n # 1
      <4>1. n \in 2..(Len(p) + 1) /\ n \in 2..(Len(q) + 1) /\ n - 1 \in 1..(Len(q) - 1)
        BY <3>2, <1>1, <1>2, <2>1
      <4> QED
        BY <4>1, <1>2, <2>1
    <3> QED
      BY <3>1, <3>2
  <2> QED
    BY <1>1, <1>2, <2>1, <2>2 DEF InDictOf
<1> QED
  BY <1>3, <1>4 DEF ip, jq

\* A hit of a dict itself, and one below its entry i.
OwnHit(v, i) == [path |-> <<i>>, text |-> v.entries[i].value.text]
Deeper(i, hit) == [path |-> <<i>> \o hit.path, text |-> hit.text]

\* What the hits of a value are.
LEMMA HitsMembers ==
  ASSUME NEW v \in Values, NEW f, NEW x
  PROVE  x \in HitsFrom(v, Below(f, v)) <=>
             \/ \E i \in OwnStrings(v) : x = OwnHit(v, i)
             \/ \E i \in DOMAIN v.entries : \E hit \in f[v.entries[i].value] : x = Deeper(i, hit)
<1>1. \A i \in DOMAIN v.entries : Below(f, v)[i] = f[v.entries[i].value]
  BY DEF Below
<1> DEFINE layer(i) == {Deeper(i, hit) : hit \in Below(f, v)[i]}
           deeper == {layer(i) : i \in DOMAIN v.entries}
<1>2. HitsFrom(v, Below(f, v)) = {OwnHit(v, i) : i \in OwnStrings(v)} \cup UNION deeper
  BY Zenon DEF HitsFrom, OwnHit, Deeper
<1>3. x \in UNION deeper <=>
          \E i \in DOMAIN v.entries : \E hit \in Below(f, v)[i] : x = Deeper(i, hit)
  <2>1. \A i : x \in layer(i) <=> \E hit \in Below(f, v)[i] : x = Deeper(i, hit)
    BY Zenon
  <2> HIDE DEF layer
  <2>2. x \in UNION deeper <=> \E i \in DOMAIN v.entries : x \in layer(i)
    OBVIOUS
  <2> QED
    BY <2>1, <2>2, Zenon
<1>4. x \in {OwnHit(v, i) : i \in OwnStrings(v)} <=> \E i \in OwnStrings(v) : x = OwnHit(v, i)
  BY Zenon
<1> HIDE DEF deeper
<1>5. x \in HitsFrom(v, Below(f, v)) <=>
          \/ \E i \in OwnStrings(v) : x = OwnHit(v, i)
          \/ \E i \in DOMAIN v.entries : \E hit \in Below(f, v)[i] : x = Deeper(i, hit)
  BY <1>2, <1>3, <1>4, Zenon
<1> QED
  BY <1>1, <1>5, Zenon

\* The hits of a value have paths that are not empty, and texts.
LEMMA OwnHitIsHit ==
  ASSUME NEW v \in Values, NEW i \in OwnStrings(v)
  PROVE  OwnHit(v, i) \in HitRecords
<1>1. v.entries[i].value \in Values /\ i \in Nat
  BY OwnAreEntries, Inner
<1>2. <<i>> \in Seq(Nat) \ {<<>>}
  BY <1>1
<1> QED
  BY <1>1, <1>2 DEF OwnHit, HitRecords, Texts

LEMMA DeeperIsHit ==
  ASSUME NEW i \in Nat, NEW hit \in HitRecords
  PROVE  Deeper(i, hit) \in HitRecords
  BY Shift DEF Deeper, HitRecords

LEMMA HitsFromAreHits ==
  ASSUME NEW v \in Values, NEW f,
         \A i \in DOMAIN v.entries : f[v.entries[i].value] \in SUBSET HitRecords
  PROVE  HitsFrom(v, Below(f, v)) \in SUBSET HitRecords
<1> SUFFICES ASSUME NEW x \in HitsFrom(v, Below(f, v))  PROVE x \in HitRecords
  OBVIOUS
<1>1. CASE \E i \in OwnStrings(v) : x = OwnHit(v, i)
  BY <1>1, OwnHitIsHit
<1>2. CASE \E i \in DOMAIN v.entries : \E hit \in f[v.entries[i].value] : x = Deeper(i, hit)
  <2>1. PICK i \in DOMAIN v.entries : \E hit \in f[v.entries[i].value] : x = Deeper(i, hit)
    BY <1>2
  <2>2. PICK hit \in f[v.entries[i].value] : x = Deeper(i, hit)
    BY <2>1
  <2>3. i \in Nat /\ hit \in HitRecords
    BY <2>1, <2>2, Inner
  <2> QED
    BY <2>2, <2>3, DeeperIsHit
<1> QED
  BY <1>1, <1>2, HitsMembers

\* Hits is what its definition says, for every value.
LEMMA HitsEquation ==
  /\ Hits \in [Values -> SUBSET HitRecords]
  /\ \A v \in Values : Hits[v] = HitsFrom(v, Below(Hits, v))
<1> DEFINE S == SUBSET HitRecords
           Belows == {Below(x[1], x[2]) : x \in [Values -> S] \X Values}
           Step == [x \in Values \X Belows |-> HitsFrom(x[1], x[2])]
<1>1. ASSUME NEW v \in Values, NEW f \in [Values -> S]
      PROVE  Step[<<v, Below(f, v)>>] = HitsFrom(v, Below(f, v))
  <2>1. <<f, v>> \in [Values -> S] \X Values
    OBVIOUS
  <2> HIDE DEF S
  <2>2. Below(f, v) \in Belows
    BY <2>1
  <2>3. <<v, Below(f, v)>> \in Values \X Belows
    BY <2>2
  <2> HIDE DEF Belows
  <2> QED
    BY <2>3
<1>2. ASSUME NEW v \in Values, NEW f \in [Values -> S]
      PROVE  Step[<<v, Below(f, v)>>] \in S
  <2>1. \A i \in DOMAIN v.entries : f[v.entries[i].value] \in SUBSET HitRecords
    BY Inner
  <2> HIDE DEF Step
  <2> QED
    BY <1>1, <2>1, HitsFromAreHits
<1> HIDE DEF Step
<1>3. S # {}
  OBVIOUS
<1> HIDE DEF S
<1>4. PICK f \in [Values -> S] : Solves(f, Step)
  <2>1. StaysIn(Step, S)
    BY <1>2 DEF StaysIn
  <2> QED
    BY <1>3, <2>1, Recursion
<1>5. f = [v \in Values |-> HitsFrom(v, Below(f, v))]
  <2>1. \A v \in Values : f[v] = HitsFrom(v, Below(f, v))
    BY <1>1, <1>4 DEF Solves
  <2> QED
    BY <1>4, <2>1
<1>6. Hits = [v \in Values |-> HitsFrom(v, Below(Hits, v))]
  BY <1>5, Zenon DEF Hits, Below
<1>7. \A v \in Values : Hits[v] = HitsFrom(v, Below(Hits, v))
  BY <1>6, Zenon
<1> DEFINE B == {v \in Values : Hits[v] \notin SUBSET HitRecords}
<1>8. B = {}
  <2> SUFFICES ASSUME B # {}  PROVE FALSE
    OBVIOUS
  <2>1. PICK v \in B : \A i \in DOMAIN v.entries : v.entries[i].value \notin B
    BY Shallowest
  <2>2. \A i \in DOMAIN v.entries : Hits[v.entries[i].value] \in SUBSET HitRecords
    BY <2>1, Inner
  <2> QED
    BY <1>7, <2>1, <2>2, HitsFromAreHits
<1>9. Hits \in [Values -> SUBSET HitRecords]
  <2>1. \A v \in Values : Hits[v] \in SUBSET HitRecords
    BY <1>8
  <2> QED
    BY <1>6, <2>1
<1> QED
  BY <1>7, <1>9

-----------------------------------------------------------------------------
(* The search finds the first hit.                                         *)

First(hit, hits) == hit \in hits /\ \A other \in hits \ {hit} : Before(hit.path, other.path)

\* The search finds the text of the first hit that is not hidden, or nothing.
FoundRight(v) ==
  IF Visible(Hits[v]) = {} THEN ~Truthy(FindFirstStringKey[v])
  ELSE /\ Truthy(FindFirstStringKey[v])
       /\ \E hit : First(hit, Visible(Hits[v])) /\ hit.text = FindFirstStringKey[v]

\* There is nothing inside a string, so ...
LEMMA StringsHoldNothing ==
  ASSUME NEW v \in Values, NEW i \in OwnStrings(v)
  PROVE  DOMAIN v.entries[i].value.entries = {}
<1>1. v.entries[i].value \in Values /\ v.entries[i].value.type = "string"
  BY OwnAreEntries, Inner DEF OwnStrings
<1>2. v.entries[i].value.entries = <<>>
  BY <1>1, NestingAssumption
<1> QED
  BY <1>2

\* ... a hit is a dict's own or lies below another of its entries.
LEMMA HitsOf ==
  ASSUME NEW v \in Values, NEW x
  PROVE  /\ x \in Hits[v] =>
                /\ x \in HitRecords
                /\ \/ \E i \in OwnStrings(v) : x = OwnHit(v, i)
                   \/ \E i \in DOMAIN v.entries \ OwnStrings(v) :
                          \E hit \in Hits[v.entries[i].value] : x = Deeper(i, hit)
         /\ \A i \in OwnStrings(v) : x = OwnHit(v, i) => x \in Hits[v]
         /\ \A i \in DOMAIN v.entries : \A hit \in Hits[v.entries[i].value] :
                x = Deeper(i, hit) => x \in Hits[v]
<1>1. Hits[v] = HitsFrom(v, Below(Hits, v)) /\ Hits[v] \in SUBSET HitRecords
  BY HitsEquation
<1>2. x \in Hits[v] <=>
             \/ \E i \in OwnStrings(v) : x = OwnHit(v, i)
             \/ \E i \in DOMAIN v.entries : \E hit \in Hits[v.entries[i].value] : x = Deeper(i, hit)
  BY <1>1, HitsMembers
<1>3. ASSUME NEW i \in OwnStrings(v)  PROVE Hits[v.entries[i].value] = {}
  <2> DEFINE w == v.entries[i].value
  <2>1. w \in Values /\ DOMAIN w.entries = {}
    BY StringsHoldNothing, OwnAreEntries, Inner
  <2> HIDE DEF w
  <2>2. Hits[w] = HitsFrom(w, Below(Hits, w)) /\ OwnStrings(w) = {}
    BY <2>1, HitsEquation, OwnAreEntries
  <2>3. \A y : y \notin Hits[w]
    <3> TAKE y
    <3>1. y \in HitsFrom(w, Below(Hits, w)) <=>
             \/ \E j \in OwnStrings(w) : y = OwnHit(w, j)
             \/ \E j \in DOMAIN w.entries : \E hit \in Hits[w.entries[j].value] : y = Deeper(j, hit)
      BY <2>1, HitsMembers
    <3> QED
      BY <2>1, <2>2, <3>1
  <2> QED
    BY <2>3 DEF w
<1>4. \A i \in DOMAIN v.entries : \A hit \in Hits[v.entries[i].value] : i \notin OwnStrings(v)
  BY <1>3
<1> QED
  BY <1>1, <1>2, <1>4

\* A dict with a string of its own under the keys.
LEMMA OwnIsFirst ==
  ASSUME NEW v \in Values, OwnStrings(v) # {}
  PROVE  FoundRight(v)
<1> DEFINE m == Min(OwnStrings(v))
           first == OwnHit(v, m)
<1>1. m \in OwnStrings(v) /\ m \in Nat /\ \A i \in OwnStrings(v) : i \in Nat /\ m <= i
  BY OwnAreEntries, MinIsFirst
<1>2. first \in Hits[v]
  BY <1>1, HitsOf
<1>3. first.path = <<m>> /\ first.text = v.entries[m].value.text /\ first.text # Nothing
  <2>1. v.entries[m].value \in Values /\ v.entries[m].value.type = "string"
    BY <1>1, OwnAreEntries, Inner DEF OwnStrings
  <2> QED
    BY <2>1, TextAssumption DEF OwnHit
<1>4. FindFirstStringKey[v] = first.text
  BY <1>3, FindEquation DEF FirstString
<1> HIDE DEF m, first
<1>5. ASSUME NEW x \in Hits[v], x # first
      PROVE  Before(first.path, x.path) /\ ~Before(x.path, <<m>>) /\ InDictOf(x.path, <<m>>)
  <2>1. CASE \E i \in OwnStrings(v) : x = OwnHit(v, i)
    <3>1. PICK i \in OwnStrings(v) : x = OwnHit(v, i)
      BY <2>1
    <3>2. x.path = <<i>> /\ i \in Nat /\ m < i
      <4>1. i # m
        BY <3>1, <1>5 DEF first
      <4>2. i \in Nat /\ m <= i /\ m \in Nat
        BY <1>1
      <4>3. x.path = <<i>>
        BY <3>1 DEF OwnHit
      <4> QED
        BY <4>1, <4>2, <4>3
    <3>3. Before(<<m>>, <<i>>) /\ ~Before(<<i>>, <<m>>) /\ InDictOf(<<i>>, <<m>>)
      BY <3>2, <1>1 DEF Before, InDictOf
    <3> QED
      BY <1>3, <3>2, <3>3
  <2>2. CASE \E i \in DOMAIN v.entries \ OwnStrings(v) :
                 \E hit \in Hits[v.entries[i].value] : x = Deeper(i, hit)
    <3>1. PICK i \in DOMAIN v.entries \ OwnStrings(v) :
                 \E hit \in Hits[v.entries[i].value] : x = Deeper(i, hit)
      BY <2>2
    <3>2. PICK hit \in Hits[v.entries[i].value] : x = Deeper(i, hit)
      BY <3>1
    <3>3. i \in Nat /\ i # m /\ hit \in HitRecords
      BY <3>1, <3>2, <1>1, Inner, HitsEquation
    <3>4. hit.path \in Seq(Nat) /\ Len(hit.path) \in Nat \ {0}
      BY <3>3, EmptySeq DEF HitRecords
    <3>5. x.path \in Seq(Nat) /\ Len(x.path) = Len(hit.path) + 1 /\ x.path[1] = i
      BY <3>2, <3>3, <3>4, Shift DEF Deeper
    <3>6. Len(<<m>>) = 1 /\ <<m>>[1] = m
      OBVIOUS
    <3>7. Before(<<m>>, x.path)
      BY <1>1, <3>3, <3>4, <3>5, <3>6 DEF Before
    <3>8. ~Before(x.path, <<m>>)
      <4>1. <<m>> \in Seq(Nat)
        BY <1>1
      <4> QED
        BY <3>5, <3>7, <4>1, BeforeAsymmetric
    <3>9. InDictOf(x.path, <<m>>)
      BY <3>4, <3>5, <3>6 DEF InDictOf
    <3> QED
      BY <1>3, <3>7, <3>8, <3>9
  <2> QED
    BY <2>1, <2>2, HitsOf
<1>6. CASE first.text = Blank
  <2>1. ASSUME NEW x \in Hits[v], x \in Visible(Hits[v])  PROVE FALSE
    <3>1. x.text # Blank /\ (InDictOf(x.path, first.path) => Before(x.path, first.path))
      BY <2>1, <1>2, <1>6 DEF Visible
    <3> QED
      BY <3>1, <1>3, <1>5, <1>6
  <2>2. Visible(Hits[v]) = {}
    BY <2>1 DEF Visible
  <2> QED
    BY <2>2, <1>4, <1>6 DEF FoundRight, Truthy
<1>7. CASE first.text # Blank
  <2>1. first \in Visible(Hits[v])
    BY <1>2, <1>5, <1>7 DEF Visible
  <2>2. First(first, Visible(Hits[v]))
    BY <2>1, <1>5 DEF First, Visible
  <2> QED
    BY <2>1, <2>2, <1>3, <1>4, <1>7 DEF FoundRight, Truthy
<1> QED
  BY <1>6, <1>7

\* Hits below one entry are to one another as they are inside it.
LEMMA DeeperFields ==
  ASSUME NEW i \in Nat, NEW j \in Nat, NEW g \in HitRecords, NEW h \in HitRecords
  PROVE  /\ Deeper(i, g).text = g.text
         /\ InDictOf(Deeper(i, g).path, Deeper(j, h).path) <=> i = j /\ InDictOf(g.path, h.path)
         /\ Before(Deeper(i, g).path, Deeper(i, h).path) <=> Before(g.path, h.path)
         /\ i < j => Before(Deeper(i, g).path, Deeper(j, h).path)
<1>1. /\ g.path \in Seq(Nat) \ {<<>>}
      /\ h.path \in Seq(Nat) \ {<<>>}
  BY DEF HitRecords
<1>2. /\ Deeper(i, g).path = <<i>> \o g.path
      /\ Deeper(j, h).path = <<j>> \o h.path
      /\ Deeper(i, h).path = <<i>> \o h.path
      /\ Deeper(i, g).text = g.text
  BY DEF Deeper
<1>3. InDictOf(<<i>> \o g.path, <<j>> \o h.path) <=> i = j /\ InDictOf(g.path, h.path)
  BY <1>1, InDictShift
<1>4. Before(<<i>> \o g.path, <<i>> \o h.path) <=> Before(g.path, h.path)
  BY <1>1, BeforeShift
<1>5. i < j => Before(<<i>> \o g.path, <<j>> \o h.path)
  BY <1>1, BeforeParts
<1> QED
  BY <1>2, <1>3, <1>4, <1>5

\* Without a string of its own a value hides nothing of what is below it.
LEMMA DeeperVisible ==
  ASSUME NEW v \in Values, OwnStrings(v) = {},
         NEW i \in DOMAIN v.entries, NEW g \in Hits[v.entries[i].value]
  PROVE  Deeper(i, g) \in Visible(Hits[v]) <=> g \in Visible(Hits[v.entries[i].value])
<1> DEFINE w == v.entries[i].value
           x == Deeper(i, g)
<1>1. i \in Nat /\ w \in Values /\ g \in HitRecords
  BY Inner, HitsEquation
<1>2. x \in Hits[v] /\ x.text = g.text
  BY HitsOf DEF Deeper
<1>3. ASSUME NEW h \in Hits[w]
      PROVE  /\ Deeper(i, h) \in Hits[v] /\ Deeper(i, h).text = h.text
             /\ InDictOf(x.path, Deeper(i, h).path) <=> InDictOf(g.path, h.path)
             /\ Before(x.path, Deeper(i, h).path) <=> Before(g.path, h.path)
  <2>1. h \in HitRecords
    BY <1>1, HitsEquation
  <2>2. Deeper(i, h) \in Hits[v]
    BY HitsOf
  <2> QED
    BY <1>1, <2>1, <2>2, DeeperFields
<1>4. ASSUME x \in Visible(Hits[v])  PROVE g \in Visible(Hits[w])
  <2>1. x.text # Blank /\ \A y \in Hits[v] : y.text = Blank /\ InDictOf(x.path, y.path) =>
                              Before(x.path, y.path)
    BY <1>4 DEF Visible
  <2> HIDE DEF w, x
  <2>2. ASSUME NEW h \in Hits[w], h.text = Blank, InDictOf(g.path, h.path)
        PROVE  Before(g.path, h.path)
    BY <1>3, <2>1, <2>2
  <2>3. g \in Hits[w]
    BY DEF w
  <2> QED
    BY <1>2, <2>1, <2>2, <2>3 DEF Visible
<1>5. ASSUME g \in Visible(Hits[w])  PROVE x \in Visible(Hits[v])
  <2>1. g.text # Blank /\ \A h \in Hits[w] : h.text = Blank /\ InDictOf(g.path, h.path) =>
                              Before(g.path, h.path)
    BY <1>5 DEF Visible
  <2>2. ASSUME NEW y \in Hits[v], y.text = Blank, InDictOf(x.path, y.path)
        PROVE  Before(x.path, y.path)
    <3>1. PICK j \in DOMAIN v.entries : \E h \in Hits[v.entries[j].value] : y = Deeper(j, h)
      BY HitsOf
    <3>2. PICK h \in Hits[v.entries[j].value] : y = Deeper(j, h)
      BY <3>1
    <3>3. j \in Nat /\ h \in HitRecords
      BY Inner, HitsEquation
    <3>4. i = j
      BY <1>1, <2>2, <3>2, <3>3, DeeperFields
    <3>5. h \in Hits[w] /\ y = Deeper(i, h) /\ h.text = Blank
      BY <2>2, <3>2, <3>4 DEF Deeper
    <3> HIDE DEF w, x
    <3> QED
      BY <1>3, <2>1, <2>2, <3>5
  <2> HIDE DEF x
  <2> QED
    BY <1>2, <2>1, <2>2 DEF Visible
<1> QED
  BY <1>4, <1>5

\* A list, or a dict without such a string: what is right below is right.
LEMMA BelowIsFirst ==
  ASSUME NEW v \in Values, OwnStrings(v) = {},
         \A i \in DOMAIN v.entries : FoundRight(v.entries[i].value)
  PROVE  FoundRight(v)
<1> DEFINE w(i) == v.entries[i].value
           found == {i \in DOMAIN v.entries : Truthy(FindFirstStringKey[w(i)])}
<1>1. FindFirstStringKey[v] = FirstFound(Below(FindFirstStringKey, v))
  BY FindEquation DEF FirstString
<1>2. ASSUME NEW x \in Visible(Hits[v])
      PROVE  \E i \in found : \E g \in Visible(Hits[w(i)]) : x = Deeper(i, g)
  <2>1. x \in Hits[v]
    BY DEF Visible
  <2>2. PICK i \in DOMAIN v.entries : \E g \in Hits[w(i)] : x = Deeper(i, g)
    BY <2>1, HitsOf
  <2>3. PICK g \in Hits[w(i)] : x = Deeper(i, g)
    BY <2>2
  <2>4. g \in Visible(Hits[w(i)])
    BY <2>3, DeeperVisible
  <2>5. i \in found
    BY <2>4 DEF FoundRight
  <2> QED
    BY <2>3, <2>4, <2>5
<1>3. CASE found = {}
  <2>1. Visible(Hits[v]) = {}
    BY <1>2, <1>3
  <2>2. FindFirstStringKey[v] = Nothing
    BY <1>1, <1>3, FirstFoundIsThere
  <2> QED
    BY <2>1, <2>2 DEF FoundRight, Truthy
<1>4. CASE found # {}
  <2>1. PICK m \in found : /\ FindFirstStringKey[v] = FindFirstStringKey[w(m)]
                           /\ \A i \in found : m <= i
    BY <1>1, <1>4, FirstFoundIsThere
  <2>2. PICK g : First(g, Visible(Hits[w(m)])) /\ g.text = FindFirstStringKey[w(m)]
    BY <2>1 DEF FoundRight
  <2> DEFINE first == Deeper(m, g)
  <2>3. g \in Visible(Hits[w(m)]) /\ g \in Hits[w(m)]
    BY <2>2 DEF First, Visible
  <2>4. m \in Nat /\ w(m) \in Values /\ g \in HitRecords
    BY <2>1, <2>3, Inner, HitsEquation
  <2>5. first \in Visible(Hits[v])
    BY <2>1, <2>3, DeeperVisible
  <2>6. ASSUME NEW x \in Visible(Hits[v]), x # first
        PROVE  Before(first.path, x.path)
    <3>1. PICK i \in found : \E h \in Visible(Hits[w(i)]) : x = Deeper(i, h)
      BY <1>2
    <3>2. PICK h \in Visible(Hits[w(i)]) : x = Deeper(i, h)
      BY <3>1
    <3>3. i \in Nat /\ h \in HitRecords /\ m <= i
      BY <2>1, <3>2, Inner, HitsEquation DEF Visible
    <3>4. CASE i = m
      <4>1. h # g /\ h \in Visible(Hits[w(m)])
        BY <2>6, <3>2, <3>4
      <4>2. Before(g.path, h.path)
        BY <2>2, <4>1 DEF First
      <4> QED
        BY <2>4, <3>2, <3>3, <3>4, <4>2, DeeperFields
    <3>5. CASE i # m
      BY <2>4, <3>2, <3>3, <3>5, DeeperFields
    <3> QED
      BY <3>4, <3>5
  <2>7. First(first, Visible(Hits[v]))
    BY <2>5, <2>6 DEF First
  <2>8. first.text = FindFirstStringKey[v]
    BY <2>1, <2>2 DEF Deeper
  <2>9. Truthy(FindFirstStringKey[v])
    BY <2>1
  <2> QED
    BY <2>5, <2>7, <2>8, <2>9 DEF FoundRight
<1> QED
  BY <1>3, <1>4

\* So the search is right for every value.
LEMMA SearchIsRight ==
  ASSUME NEW v \in Values
  PROVE  FoundRight(v)
<1> DEFINE B == {w \in Values : ~FoundRight(w)}
<1> SUFFICES ASSUME B # {}  PROVE FALSE
  OBVIOUS
<1>1. PICK w \in B : \A i \in DOMAIN w.entries : w.entries[i].value \notin B
  BY Shallowest
<1>2. \A i \in DOMAIN w.entries : FoundRight(w.entries[i].value)
  BY <1>1, Inner
<1> QED
  BY <1>1, <1>2, OwnIsFirst, BelowIsFirst

\* Of some hits one at most comes first.
LEMMA OneFirst ==
  ASSUME NEW V \in SUBSET HitRecords, NEW g, NEW h, First(g, V), First(h, V)
  PROVE  g = h
<1> SUFFICES ASSUME g # h  PROVE FALSE
  OBVIOUS
<1>1. Before(g.path, h.path) /\ Before(h.path, g.path)
  BY DEF First
<1>2. g.path \in Seq(Nat) /\ h.path \in Seq(Nat)
  BY DEF First, HitRecords
<1> QED
  BY <1>1, <1>2, BeforeAsymmetric

\* get_expected_sha256 returns what stands first in the card, for any card.
THEOREM SearchFindsFirst ==
  ASSUME NEW v \in Values
  PROVE  GetExpectedSha(v) = FirstHit(v)
<1> DEFINE hits == Visible(Hits[v])
<1>1. FoundRight(v) /\ hits \in SUBSET HitRecords
  BY SearchIsRight, HitsEquation DEF Visible
<1>2. CASE hits = {}
  BY <1>1, <1>2 DEF FoundRight, GetExpectedSha, FirstHit
<1>3. CASE hits # {}
  <2> DEFINE chosen == CHOOSE hit \in hits : \A other \in hits \ {hit} : Before(hit.path, other.path)
  <2>1. PICK hit : First(hit, hits) /\ hit.text = FindFirstStringKey[v]
    BY <1>1, <1>3 DEF FoundRight
  <2>2. First(chosen, hits)
    BY <2>1, Zenon DEF First
  <2>3. chosen = hit
    BY <1>1, <2>1, <2>2, OneFirst
  <2>4. FirstHit(v) = chosen.text
    BY <1>3, Zenon DEF FirstHit
  <2> QED
    BY <1>1, <1>3, <2>1, <2>3, <2>4 DEF FoundRight, GetExpectedSha
<1> QED
  BY <1>2, <1>3

-----------------------------------------------------------------------------
(* The class names in a card.                                              *)

Lists == {StringsOf(v) : v \in Values}

\* One step of _find_first_string_list, and of what it is to find.
FirstList(data, below) == IF IsStringList(data) THEN StringsOf(data) ELSE FirstFound(below)
ListsFrom(data, below) ==
    (IF IsStringList(data) THEN {StringsOf(data)} ELSE {})
    \cup UNION {below[i] : i \in DOMAIN data.entries}

\* _find_first_string_list is what its definition says, for every value.
LEMMA FindListEquation ==
  \A v \in Values : FindFirstStringList[v] = FirstList(v, Below(FindFirstStringList, v))
<1> DEFINE S == Lists \cup {Nothing}
           Belows == {Below(x[1], x[2]) : x \in [Values -> S] \X Values}
           Step == [x \in Values \X Belows |-> FirstList(x[1], x[2])]
<1>1. ASSUME NEW v \in Values, NEW f \in [Values -> S]
      PROVE  Step[<<v, Below(f, v)>>] = FirstList(v, Below(f, v))
  <2>1. <<f, v>> \in [Values -> S] \X Values
    OBVIOUS
  <2> HIDE DEF S
  <2>2. Below(f, v) \in Belows
    BY <2>1
  <2>3. <<v, Below(f, v)>> \in Values \X Belows
    BY <2>2
  <2> HIDE DEF Belows
  <2> QED
    BY <2>3
<1>2. ASSUME NEW v \in Values, NEW f \in [Values -> S]
      PROVE  FirstList(v, Below(f, v)) \in S
  <2>1. StringsOf(v) \in S
    BY DEF Lists
  <2>2. \A i \in DOMAIN v.entries : f[v.entries[i].value] \in S
    BY Inner
  <2> HIDE DEF S
  <2>3. Nothing \in S
    BY DEF S
  <2>4. FirstFound(Below(f, v)) \in S
    BY <2>2, <2>3, FirstFoundIsThere, Zenon
  <2> QED
    BY <2>1, <2>4 DEF FirstList
<1>3. S # {}
  OBVIOUS
<1> HIDE DEF S, Step
<1>4. PICK f \in [Values -> S] : Solves(f, Step)
  <2>1. StaysIn(Step, S)
    BY <1>1, <1>2 DEF StaysIn
  <2> QED
    BY <1>3, <2>1, Recursion
<1>5. f = [v \in Values |-> FirstList(v, Below(f, v))]
  <2>1. \A v \in Values : f[v] = FirstList(v, Below(f, v))
    BY <1>1, <1>4 DEF Solves
  <2> QED
    BY <1>4, <2>1
<1>6. FindFirstStringList = [v \in Values |-> FirstList(v, Below(FindFirstStringList, v))]
  BY <1>5, Zenon DEF FindFirstStringList, FirstList, Below
<1> QED
  BY <1>6, Zenon

\* StringLists is what its definition says, for every value.
LEMMA StringListsEquation ==
  ASSUME NEW v \in Values
  PROVE  StringLists[v] = (IF IsStringList(v) THEN {StringsOf(v)} ELSE {})
                          \cup UNION {StringLists[v.entries[i].value] : i \in DOMAIN v.entries}
<1> DEFINE S == SUBSET Lists
           Belows == {Below(x[1], x[2]) : x \in [Values -> S] \X Values}
           Step == [x \in Values \X Belows |-> ListsFrom(x[1], x[2])]
<1>1. ASSUME NEW w \in Values, NEW f \in [Values -> S]
      PROVE  Step[<<w, Below(f, w)>>] = ListsFrom(w, Below(f, w))
  <2>1. <<f, w>> \in [Values -> S] \X Values
    OBVIOUS
  <2> HIDE DEF S
  <2>2. Below(f, w) \in Belows
    BY <2>1
  <2>3. <<w, Below(f, w)>> \in Values \X Belows
    BY <2>2
  <2> HIDE DEF Belows
  <2> QED
    BY <2>3
<1>2. ASSUME NEW w, NEW f
      PROVE  ListsFrom(w, Below(f, w)) =
                 (IF IsStringList(w) THEN {StringsOf(w)} ELSE {})
                 \cup UNION {f[w.entries[i].value] : i \in DOMAIN w.entries}
  <2>1. \A i \in DOMAIN w.entries : Below(f, w)[i] = f[w.entries[i].value]
    BY DEF Below
  <2>2. {Below(f, w)[i] : i \in DOMAIN w.entries} = {f[w.entries[i].value] : i \in DOMAIN w.entries}
    BY <2>1
  <2> QED
    BY <2>2, Zenon DEF ListsFrom
<1>3. ASSUME NEW w \in Values, NEW f \in [Values -> S]
      PROVE  ListsFrom(w, Below(f, w)) \in S
  <2>1. \A i \in DOMAIN w.entries : f[w.entries[i].value] \in SUBSET Lists
    BY Inner
  <2>2. StringsOf(w) \in Lists
    BY DEF Lists
  <2> QED
    BY <1>2, <2>1, <2>2
<1>4. S # {}
  OBVIOUS
<1> HIDE DEF S, Step
<1>5. PICK f \in [Values -> S] : Solves(f, Step)
  <2>1. StaysIn(Step, S)
    BY <1>1, <1>3 DEF StaysIn
  <2> QED
    BY <1>4, <2>1, Recursion
<1>6. f = [w \in Values |->
              (IF IsStringList(w) THEN {StringsOf(w)} ELSE {})
              \cup UNION {f[w.entries[i].value] : i \in DOMAIN w.entries}]
  <2>1. ASSUME NEW w \in Values
        PROVE  f[w] = (IF IsStringList(w) THEN {StringsOf(w)} ELSE {})
                      \cup UNION {f[w.entries[i].value] : i \in DOMAIN w.entries}
    <3>1. f[w] = Step[<<w, Below(f, w)>>]
      BY <1>5 DEF Solves
    <3>2. f[w] = ListsFrom(w, Below(f, w))
      BY <1>1, <3>1
    <3> QED
      BY <1>2, <3>2, Zenon
  <2>2. DOMAIN f = Values
    OBVIOUS
  <2> QED
    BY <2>1, <2>2, Zenon
<1>7. StringLists = [w \in Values |->
                       (IF IsStringList(w) THEN {StringsOf(w)} ELSE {})
                       \cup UNION {StringLists[w.entries[i].value] : i \in DOMAIN w.entries}]
  BY <1>6, Zenon DEF StringLists
<1> QED
  BY <1>7, Zenon

\* What is in a value holds no list that the value does not.
LEMMA InnerLists ==
  ASSUME NEW v \in Values, NEW w \in Values, NEW i \in DOMAIN v.entries, w = v.entries[i].value
  PROVE  StringLists[w] \subseteq StringLists[v]
<1>1. StringLists[w] \in {StringLists[v.entries[j].value] : j \in DOMAIN v.entries}
  OBVIOUS
<1> QED
  BY <1>1, StringListsEquation, Zenon

\* The search finds a list of the value, or there is none.
ListRight(v) ==
    IF StringLists[v] = {}
    THEN FindFirstStringList[v] = Nothing
    ELSE FindFirstStringList[v] \in StringLists[v] /\ Truthy(FindFirstStringList[v])

LEMMA ListIsFound ==
  ASSUME NEW v \in Values
  PROVE  ListRight(v)
<1> DEFINE B == {w \in Values : ~ListRight(w)}
<1> SUFFICES ASSUME B # {}  PROVE FALSE
  OBVIOUS
<1>1. PICK w \in B : \A i \in DOMAIN w.entries : w.entries[i].value \notin B
  BY Shallowest
<1>2. ASSUME NEW i \in DOMAIN w.entries  PROVE ListRight(w.entries[i].value)
  BY <1>1, Inner
<1> DEFINE found == {i \in DOMAIN w.entries : Truthy(FindFirstStringList[w.entries[i].value])}
<1>3. CASE IsStringList(w)
  <2>1. FindFirstStringList[w] = StringsOf(w)
    BY <1>3, FindListEquation DEF FirstList
  <2>2. StringsOf(w) \in StringLists[w]
    BY <1>3, StringListsEquation
  <2>3. Truthy(StringsOf(w))
    BY ListsAssumption DEF Truthy
  <2> QED
    BY <1>1, <2>1, <2>2, <2>3 DEF ListRight
<1>4. CASE ~IsStringList(w)
  <2>1. FindFirstStringList[w] = FirstFound(Below(FindFirstStringList, w))
    BY <1>4, FindListEquation DEF FirstList
  <2>2. StringLists[w] = UNION {StringLists[w.entries[i].value] : i \in DOMAIN w.entries}
    BY <1>4, StringListsEquation
  <2>3. CASE found = {}
    <3>1. FindFirstStringList[w] = Nothing
      BY <2>1, <2>3, FirstFoundIsThere, Zenon
    <3>2. \A i \in DOMAIN w.entries : StringLists[w.entries[i].value] = {}
      BY <1>2, <2>3 DEF ListRight
    <3>3. StringLists[w] = {}
      BY <2>2, <3>2
    <3> QED
      BY <1>1, <3>1, <3>3 DEF ListRight
  <2>4. CASE found # {}
    <3>1. PICK m \in found : FindFirstStringList[w] = FindFirstStringList[w.entries[m].value]
      BY <2>1, <2>4, FirstFoundIsThere, Zenon
    <3>2. Truthy(FindFirstStringList[w.entries[m].value]) /\ m \in DOMAIN w.entries
      OBVIOUS
    <3>3. FindFirstStringList[w.entries[m].value] \in StringLists[w.entries[m].value]
      BY <1>2, <3>2 DEF ListRight, Truthy
    <3>4. FindFirstStringList[w] \in StringLists[w]
      BY <3>1, <3>2, <3>3, InnerLists, Inner
    <3> QED
      BY <1>1, <3>1, <3>2, <3>4 DEF ListRight
  <2> QED
    BY <2>3, <2>4
<1> QED
  BY <1>3, <1>4

\* What is read from dict.get is a value of the card.
LEMMA GetIsValue ==
  ASSUME NEW v \in Values, NEW key
  PROVE  Get(v, key) \in SUBSET Values
  BY Inner DEF Get

\* A list of strings that is read out of a dict is one of the dict's.
LEMMA GotIsInside ==
  ASSUME NEW v \in Values, NEW key, NEW w \in Get(v, key)
  PROVE  w \in Values /\ StringLists[w] \subseteq StringLists[v]
<1>1. PICK i \in DOMAIN v.entries : w = v.entries[i].value
  BY DEF Get
<1> QED
  BY <1>1, Inner, InnerLists

\* A dict has one value under a key.
LEMMA GotIsOne ==
  ASSUME NEW v \in Values, NEW key, NEW w \in Get(v, key), NEW x \in Get(v, key)
  PROVE  w = x
  BY KeysAssumption DEF Get

\* get_class_names_from_model_card raises for a card that holds no list of
\* strings, and for no other; what it returns is a list the card holds,
\* whether it was found under a key or by the search.
THEOREM NamesAreFound ==
  ASSUME NEW v \in Values
  PROVE  IF StringLists[v] = {} THEN GetClassNames(v) = Nothing
         ELSE GetClassNames(v) \in StringLists[v]
<1> DEFINE first == <<UNION {Get(dataset, Classes) : dataset \in Get(v, Dataset)}>>
           rest == [i \in DOMAIN NameKeys |-> Get(v, NameKeys[i])]
           named == first \o rest
           lists == {i \in DOMAIN named : \E w \in named[i] : IsStringList(w)}
<1>1. GetClassNames(v) = IF lists = {} THEN FindFirstStringList[v]
                         ELSE StringsOf(CHOOSE w \in named[Min(lists)] : TRUE)
  BY Zenon DEF GetClassNames
<1>2. /\ DOMAIN named \in SUBSET Nat
      /\ \A i \in DOMAIN named : \/ named[i] = UNION {Get(dataset, Classes) : dataset \in Get(v, Dataset)}
                                \/ \E key : named[i] = Get(v, key)
  <2>1. first \in Seq(SUBSET Values) /\ Len(first) = 1
    BY GetIsValue
  <2>2. rest \in Seq(SUBSET Values) /\ Len(rest) = Len(NameKeys) /\ Len(NameKeys) \in Nat
    BY GetIsValue, KeysAssumption
  <2>3. /\ DOMAIN named = 1..(1 + Len(NameKeys))
        /\ \A i \in DOMAIN named : named[i] = IF i = 1 THEN first[1] ELSE rest[i - 1]
    BY <2>1, <2>2, ConcatProperties
  <2>4. ASSUME NEW i \in DOMAIN named, i # 1  PROVE named[i] = Get(v, NameKeys[i - 1])
    BY <2>2, <2>3, <2>4, KeysAssumption
  <2>5. first[1] = UNION {Get(dataset, Classes) : dataset \in Get(v, Dataset)}
    OBVIOUS
  <2> HIDE DEF first, rest, named
  <2>6. DOMAIN named \in SUBSET Nat
    BY <2>2, <2>3
  <2> QED
    BY <2>3, <2>4, <2>5, <2>6
<1> HIDE DEF named
<1>3. ASSUME NEW i \in DOMAIN named, NEW w \in named[i]
      PROVE  /\ w \in Values
             /\ StringLists[w] \subseteq StringLists[v]
             /\ \A x \in named[i] : w = x
  <2>1. CASE named[i] = UNION {Get(dataset, Classes) : dataset \in Get(v, Dataset)}
    <3>1. PICK dataset \in Get(v, Dataset) : w \in Get(dataset, Classes)
      BY <1>3, <2>1
    <3>2. /\ dataset \in Values /\ w \in Values
          /\ StringLists[w] \subseteq StringLists[dataset]
          /\ StringLists[dataset] \subseteq StringLists[v]
      BY <3>1, GotIsInside
    <3>3. ASSUME NEW x \in named[i]  PROVE w = x
      <4>1. PICK other \in Get(v, Dataset) : x \in Get(other, Classes)
        BY <2>1
      <4>2. other = dataset
        BY GotIsOne
      <4> QED
        BY <3>1, <3>2, <4>1, <4>2, GotIsOne
    <3> QED
      BY <3>2, <3>3
  <2>2. CASE \E key : named[i] = Get(v, key)
    <3>1. PICK key : named[i] = Get(v, key)
      BY <2>2
    <3> QED
      BY <3>1, GotIsInside, GotIsOne
  <2> QED
    BY <1>2, <2>1, <2>2
<1>4. CASE lists = {}
  BY <1>1, <1>4, ListIsFound DEF ListRight
<1>5. CASE lists # {}
  <2> DEFINE m == Min(lists)
             chosen == CHOOSE w \in named[m] : TRUE
  <2>1. m \in lists
    BY <1>2, <1>5, MinIsFirst
  <2>2. PICK w \in named[m] : IsStringList(w)
    BY <2>1
  <2>3. chosen \in named[m]
    BY <2>2, Zenon
  <2>4. chosen = w /\ w \in Values /\ StringLists[w] \subseteq StringLists[v]
    BY <1>3, <2>1, <2>2, <2>3
  <2>5. StringsOf(w) \in StringLists[w]
    BY <2>2, <2>4, StringListsEquation
  <2>6. GetClassNames(v) = StringsOf(chosen)
    BY <1>1, <1>5, Zenon
  <2> QED
    BY <2>4, <2>5, <2>6
<1> QED
  BY <1>4, <1>5

-----------------------------------------------------------------------------
(* The release.                                                           *)

\* What the worker and the scripts find in a card is a text of it, or nothing.
LEMMA FoundIsText ==
  ASSUME NEW c \in Cards
  PROVE  ExpectedSha[c] # Missing /\ ArtifactSha[c] # Missing
<1>1. Trees[c] \in Values /\ Missing \notin Texts
  BY CardsAssumption DEF Texts
<1>2. GetExpectedSha(Trees[c]) \in Texts
  BY <1>1, FindEquation DEF GetExpectedSha, Texts
<1>3. ArtifactShaOf(Trees[c]) \in Texts
  <2> DEFINE shas == {v \in UNION {Get(artifact, Sha) : artifact \in Get(Trees[c], Artifact)} :
                         v.type = "string"}
  <2>1. \A v \in shas : v \in Values
    BY <1>1, GetIsValue
  <2>2. CASE shas = {}
    BY <2>2 DEF ArtifactShaOf, Texts
  <2>3. CASE shas # {}
    <3>1. (CHOOSE v \in shas : TRUE) \in shas
      BY <2>3, Zenon
    <3>2. (CHOOSE v \in shas : TRUE) \in Values
      BY <2>1, <3>1, Zenon
    <3>3. ArtifactShaOf(Trees[c]) = (CHOOSE v \in shas : TRUE).text
      BY <2>3, Zenon DEF ArtifactShaOf
    <3> QED
      BY <3>2, <3>3, Zenon DEF Texts
  <2> QED
    BY <2>2, <2>3
<1> QED
  BY <1>1, <1>2, <1>3 DEF ExpectedSha, ArtifactSha

LEMMA InitIInv == Init => IInv
<1> SUFFICES ASSUME Init  PROVE IInv
  OBVIOUS
<1>1. TypeOK
  <2>1. golden \in GoldenFiles \cup {Missing, Torn}
    BY FilesAssumption DEF Init
  <2>2. edits \in 0..MaxEdits
    BY BoundAssumption DEF Init
  <2> QED
    BY <2>1, <2>2 DEF Init, TypeOK, Programs
<1> QED
  BY <1>1 DEF Init, IInv, WorkerKnows, WorkerCalm, ToolKnows, ToolCalm, StampedPasses

-----------------------------------------------------------------------------
(* The maintainer.                                                         *)

\* A replacement ends all that the histories promise; what the programs have
\* read they keep.
LEMMA EditIInv ==
  ASSUME IInv, ReplaceWeights \/ ReplaceCard \/ ReplaceGolden
  PROVE  IInv'
<1> USE DEF Edit, ReplaceWeights, ReplaceCard, ReplaceGolden, workerVars, toolVars
<1>1. TypeOK'
  <2>1. golden' \in GoldenFiles \cup {Missing, Torn}
    BY FilesAssumption DEF IInv, TypeOK
  <2>2. edits' \in 0..MaxEdits
    BY BoundAssumption DEF IInv, TypeOK
  <2> QED
    BY <2>1, <2>2 DEF IInv, TypeOK, Programs
<1>2. WorkerCalm' /\ ToolCalm' /\ StampedPasses'
  BY DEF WorkerCalm, ToolCalm, StampedPasses
<1>3. WorkerKnows'
  BY DEF IInv, TypeOK, WorkerKnows, Programs
<1>4. ToolKnows'
  BY DEF IInv, TypeOK, ToolKnows, Programs
<1> QED
  BY <1>1, <1>2, <1>3, <1>4 DEF IInv

-----------------------------------------------------------------------------
(* The worker.                                                             *)

\* A step of the worker leaves all the test and the tool go by.
LEMMA WorkerLeavesTool ==
  ASSUME IInv, UNCHANGED <<fileVars, toolVars, stamped>>,
         "tool" \in calm' <=> "tool" \in calm, "tool" \in swapped' <=> "tool" \in swapped
  PROVE  ToolKnows' /\ ToolCalm' /\ StampedPasses'
  BY DEF IInv, ToolKnows, ToolCalm, StampedPasses, fileVars, toolVars

LEMMA ReadCardIInv ==
  ASSUME IInv, ReadCard
  PROVE  IInv'
<1> USE DEF ReadCard, fileVars, toolVars
<1>1. TypeOK'
  BY DEF IInv, TypeOK, Programs
<1>2. WorkerKnows'
  BY FilesAssumption DEF IInv, TypeOK, WorkerKnows
<1>3. WorkerCalm'
  BY FilesAssumption DEF IInv, TypeOK, WorkerCalm, Accepted
<1>4. ToolKnows' /\ ToolCalm' /\ StampedPasses'
  BY WorkerLeavesTool
<1> QED
  BY <1>1, <1>2, <1>3, <1>4 DEF IInv

LEMMA HashWeightsIInv ==
  ASSUME IInv, HashWeights
  PROVE  IInv'
<1> USE DEF HashWeights, fileVars, toolVars, historyVars
<1>1. TypeOK'
  BY DEF IInv, TypeOK
<1>2. WorkerKnows'
  BY FoundIsText DEF IInv, TypeOK, WorkerKnows
<1>3. WorkerCalm'
  BY DEF IInv, TypeOK, WorkerKnows, WorkerCalm, Accepted
<1>4. ToolKnows' /\ ToolCalm' /\ StampedPasses'
  BY WorkerLeavesTool
<1> QED
  BY <1>1, <1>2, <1>3, <1>4 DEF IInv

LEMMA LoadWeightsIInv ==
  ASSUME IInv, LoadWeights
  PROVE  IInv'
<1> USE DEF LoadWeights, fileVars, toolVars, historyVars
<1>1. TypeOK'
  BY DEF IInv, TypeOK
<1>2. WorkerKnows'
  BY DEF IInv, TypeOK, WorkerKnows
<1>3. WorkerCalm'
  BY DEF IInv, TypeOK, WorkerKnows, WorkerCalm, Accepted
<1>4. ToolKnows' /\ ToolCalm' /\ StampedPasses'
  BY WorkerLeavesTool
<1> QED
  BY <1>1, <1>2, <1>3, <1>4 DEF IInv

LEMMA EndJobIInv ==
  ASSUME IInv, EndJob
  PROVE  IInv'
<1> USE DEF EndJob, fileVars, toolVars, historyVars
<1>1. TypeOK'
  BY DEF IInv, TypeOK
<1>2. WorkerKnows' /\ WorkerCalm'
  BY DEF WorkerKnows, WorkerCalm
<1>3. ToolKnows' /\ ToolCalm' /\ StampedPasses'
  BY WorkerLeavesTool
<1> QED
  BY <1>1, <1>2, <1>3 DEF IInv

-----------------------------------------------------------------------------
(* The golden test and the tool.                                           *)

\* A step of the test or the tool leaves all the worker goes by.
LEMMA ToolLeavesWorker ==
  ASSUME IInv, UNCHANGED <<weights, card, workerVars>>,
         "worker" \in calm' <=> "worker" \in calm,
         "worker" \in swapped' <=> "worker" \in swapped
  PROVE  WorkerKnows' /\ WorkerCalm'
  BY DEF IInv, WorkerKnows, WorkerCalm, workerVars

LEMMA ReadFilesIInv ==
  ASSUME IInv, ReadFiles
  PROVE  IInv'
<1> USE DEF ReadFiles, fileVars, workerVars
<1>1. TypeOK'
  BY DEF IInv, TypeOK, Programs
<1>2. WorkerKnows' /\ WorkerCalm'
  BY ToolLeavesWorker
<1>3. ToolKnows' /\ StampedPasses'
  BY DEF IInv, TypeOK, ToolKnows, StampedPasses
<1>4. ToolCalm'
  BY DEF IInv, TypeOK, ToolCalm, Passes
<1> QED
  BY <1>1, <1>2, <1>3, <1>4 DEF IInv

LEMMA HashToolIInv ==
  ASSUME IInv, HashTool
  PROVE  IInv'
<1> USE DEF HashTool, fileVars, workerVars, historyVars
<1>1. TypeOK'
  BY DEF IInv, TypeOK
<1>2. WorkerKnows' /\ WorkerCalm'
  BY ToolLeavesWorker
<1>3. ToolKnows' /\ StampedPasses'
  BY FoundIsText DEF IInv, TypeOK, ToolKnows, StampedPasses
<1>4. ToolCalm'
  BY DEF IInv, TypeOK, ToolCalm, Passes
<1> QED
  BY <1>1, <1>2, <1>3, <1>4 DEF IInv

LEMMA LoadToolIInv ==
  ASSUME IInv, LoadTool
  PROVE  IInv'
<1> USE DEF LoadTool, fileVars, workerVars, historyVars
<1>1. TypeOK'
  BY DEF IInv, TypeOK
<1>2. WorkerKnows' /\ WorkerCalm'
  BY ToolLeavesWorker
<1>3. ToolKnows' /\ StampedPasses'
  BY DEF IInv, TypeOK, ToolKnows, StampedPasses
<1>4. ToolCalm'
  BY DEF IInv, TypeOK, ToolCalm, Passes
<1> QED
  BY <1>1, <1>2, <1>3, <1>4 DEF IInv

LEMMA CompareIInv ==
  ASSUME IInv, Compare
  PROVE  IInv'
<1> USE DEF Compare, fileVars, workerVars, historyVars
<1>1. TypeOK'
  BY DEF IInv, TypeOK
<1>2. WorkerKnows' /\ WorkerCalm'
  BY ToolLeavesWorker
<1>3. ToolKnows' /\ StampedPasses'
  BY DEF IInv, TypeOK, ToolKnows, StampedPasses
<1>4. ToolCalm'
  BY DEF IInv, TypeOK, ToolCalm, Passes
<1> QED
  BY <1>1, <1>2, <1>3, <1>4 DEF IInv

\* What a model answers for an image is an expectation of that image it
\* meets, whatever else the golden file expects.
LEMMA Answered ==
  ASSUME NEW w \in Weights, Replayable(w),
         NEW g \in GoldenFiles, NEW i \in Images, Predicts(w, g, i)
  PROVE  /\ Predicted(w, g, i) \in Expectations
         /\ \A h \in GoldenFiles : h.preprocessing = g.preprocessing
                                   /\ h.items[i] = Predicted(w, g, i) => Matches(w, h, i)
<1>1. g.preprocessing \in Preprocessings
  BY DEF GoldenFiles
<1>2. Outputs[w] \in Nat /\ Outputs[w] >= TopK /\ TopK \in Nat \ {0} /\ Tolerance \in Nat
  BY WeightsAssumption DEF Replayable, Predicts
<1>3. /\ Answers[<<w, g.preprocessing, i>>].confidence \in Int
      /\ Answers[<<w, g.preprocessing, i>>].top \in [1..TopK -> 1..Outputs[w]]
  BY <1>1, <1>2, AnswersAssumption
<1>4. Answers[<<w, g.preprocessing, i>>].top[1] \in Nat
  BY <1>2, <1>3
<1>5. Predicted(w, g, i) \in Expectations
  BY <1>3, <1>4 DEF Predicted, Expectations
<1>6. Close(Predicted(w, g, i).confidence, Predicted(w, g, i).confidence)
  BY <1>2, <1>5 DEF Close, Expectations
<1>7. ASSUME NEW h \in GoldenFiles, h.preprocessing = g.preprocessing,
             h.items[i] = Predicted(w, g, i)
      PROVE  Matches(w, h, i)
  <2>1. Predicts(w, h, i) /\ Predicted(w, h, i) = Predicted(w, g, i)
    BY <1>7 DEF Predicts, Predicted
  <2> QED
    BY <2>1, <1>6, <1>7 DEF Matches
<1> QED
  BY <1>5, <1>7

LEMMA RecomputeIInv ==
  ASSUME IInv, Recompute
  PROVE  IInv'
<1> USE DEF Recompute, workerVars
<1>1. /\ tModel \in Weights
      /\ Replayable(tModel)
      /\ tGolden \in GoldenFiles
  BY DEF IInv, TypeOK, ToolKnows, Replayable
<1>2. ASSUME NEW i \in Images
      PROVE  tGolden'.items[i] = IF i \in ItemsOf(tGolden)
                                 THEN Predicted(tModel, tGolden, i) ELSE Nothing
  BY <1>1 DEF GoldenFiles
<1>3. /\ tGolden' \in GoldenFiles
      /\ tGolden'.sha = tGolden.sha
      /\ tGolden'.preprocessing = tGolden.preprocessing
  <2>1. \A i \in ItemsOf(tGolden) : Predicted(tModel, tGolden, i) \in Expectations
    BY <1>1, Answered DEF ItemsOf
  <2> QED
    BY <1>1, <2>1 DEF GoldenFiles
<1>4. ItemsOf(tGolden)' \subseteq ItemsOf(tGolden)
  BY <1>2 DEF ItemsOf
<1>5. \A i \in ItemsOf(tGolden)' : Matches(tModel, tGolden', i)
  <2> TAKE i \in ItemsOf(tGolden)'
  <2>1. i \in Images /\ i \in ItemsOf(tGolden)
    BY <1>4 DEF ItemsOf
  <2>2. tGolden'.items[i] = Predicted(tModel, tGolden, i)
    BY <2>1, <1>2
  <2> QED
    BY <1>1, <1>3, <2>1, <2>2, Answered
<1>6. TypeOK'
  BY <1>3 DEF IInv, TypeOK
<1>7. WorkerKnows' /\ WorkerCalm'
  BY ToolLeavesWorker
<1>8. ToolKnows'
  BY <1>3, <1>5, FilesAssumption DEF IInv, ToolKnows
<1>9. ToolCalm' /\ StampedPasses'
  BY DEF IInv, ToolCalm, StampedPasses
<1> QED
  BY <1>6, <1>7, <1>8, <1>9 DEF IInv

LEMMA WriteBackIInv ==
  ASSUME IInv, WriteBack
  PROVE  IInv'
<1> USE DEF WriteBack, workerVars
<1>1. TypeOK'
  BY DEF IInv, TypeOK
<1>2. WorkerKnows' /\ WorkerCalm'
  BY ToolLeavesWorker
<1>3. ToolKnows' /\ ToolCalm'
  BY DEF IInv, ToolKnows, ToolCalm
<1>4. StampedPasses'
  <2>1. SUFFICES ASSUME "tool" \in calm  PROVE Passes(weights, card, tGolden) /\ golden = Torn
    BY DEF StampedPasses
  <2> QED
    BY <2>1, FilesAssumption DEF IInv, TypeOK, ToolKnows, ToolCalm, Passes, Replayable
<1> QED
  BY <1>1, <1>2, <1>3, <1>4 DEF IInv

LEMMA EndsIInv ==
  ASSUME IInv, RecomputeRaises \/ Kill
  PROVE  IInv'
<1> USE DEF RecomputeRaises, Kill, fileVars, workerVars, historyVars
<1>1. TypeOK'
  BY DEF IInv, TypeOK
<1>2. WorkerKnows' /\ WorkerCalm'
  BY ToolLeavesWorker
<1>3. ToolKnows' /\ ToolCalm' /\ StampedPasses'
  BY DEF IInv, ToolKnows, ToolCalm, StampedPasses
<1> QED
  BY <1>1, <1>2, <1>3 DEF IInv

LEMMA NextIInv == IInv /\ [Next]_vars => IInv'
<1> SUFFICES ASSUME IInv, [Next]_vars  PROVE IInv'
  OBVIOUS
<1>1. CASE ReplaceWeights \/ ReplaceCard \/ ReplaceGolden
  BY <1>1, EditIInv
<1>2. CASE ReadCard
  BY <1>2, ReadCardIInv
<1>3. CASE HashWeights
  BY <1>3, HashWeightsIInv
<1>4. CASE LoadWeights
  BY <1>4, LoadWeightsIInv
<1>5. CASE EndJob
  BY <1>5, EndJobIInv
<1>6. CASE ReadFiles
  BY <1>6, ReadFilesIInv
<1>7. CASE HashTool
  BY <1>7, HashToolIInv
<1>8. CASE LoadTool
  BY <1>8, LoadToolIInv
<1>9. CASE Compare
  BY <1>9, CompareIInv
<1>10. CASE Recompute
  BY <1>10, RecomputeIInv
<1>11. CASE WriteBack
  BY <1>11, WriteBackIInv
<1>12. CASE RecomputeRaises \/ Kill
  BY <1>12, EndsIInv
<1>13. CASE UNCHANGED vars
  BY <1>13 DEF IInv, TypeOK, WorkerKnows, WorkerCalm, ToolKnows, ToolCalm, StampedPasses,
               vars, fileVars, workerVars, toolVars, historyVars
<1> QED
  BY <1>1, <1>2, <1>3, <1>4, <1>5, <1>6, <1>7, <1>8, <1>9, <1>10, <1>11, <1>12, <1>13 DEF Next

-----------------------------------------------------------------------------
\* The inductive invariant holds of every reachable state.
THEOREM Invariance == Spec => []IInv
  BY InitIInv, NextIInv, PTL DEF Spec

\* The variables keep their types; what the tool writes is a golden file.
THEOREM TypeCorrect == Spec => []TypeOK
<1>1. IInv => TypeOK
  BY DEF IInv
<1> QED
  BY Invariance, <1>1, PTL

\* Predictions carry the SHA-256 of the weights that made them, but for a
\* replacement between the predictor's two readings (predictor.py:31-37).
THEOREM PredictionsAreNamed == Spec => []ServedIsNamed
<1>1. IInv => ServedIsNamed
  BY DEF IInv, WorkerKnows, ServedIsNamed
<1> QED
  BY Invariance, <1>1, PTL

\* Users get what the golden test has passed (golden.py and predictor.py).
THEOREM GoldenIsServed == Spec => []GoldenHoldsInService
<1>1. ASSUME IInv, stage = "passed", at = "ready", wSha = tSha, swapped = {},
             tGolden.preprocessing = ServicePreprocessing, NEW i \in ItemsOf(tGolden)
      PROVE  /\ Serves
             /\ Served(i).id = tGolden.items[i].id
             /\ Served(i).label = Names[tSha][tGolden.items[i].id]
             /\ Close(Served(i).confidence, tGolden.items[i].confidence)
  <2>1. /\ wModel = tSha /\ tModel = tSha
        /\ Replayable(tSha) /\ tSha \in Weights
        /\ Loads(tSha, wCard)
        /\ Matches(tSha, tGolden, i)
    BY <1>1 DEF IInv, TypeOK, WorkerKnows, ToolKnows
  <2>2. ClassNames(tSha, wCard) = Names[tSha] /\ Outputs[tSha] = Len(Names[tSha])
    BY <2>1 DEF ClassNames, Replayable, Loads
  <2>3. Serves
    BY <1>1, <2>1, <2>2 DEF Serves, Matches, Predicts
  <2>4. /\ Served(i).id = Predicted(tSha, tGolden, i).id
        /\ Served(i).confidence = Predicted(tSha, tGolden, i).confidence
        /\ Served(i).label = Names[tSha][Served(i).id]
    BY <1>1, <2>1, <2>2 DEF Served, Predicted
  <2> QED
    BY <2>1, <2>3, <2>4 DEF Matches
<1>2. IInv => GoldenHoldsInService
  BY <1>1 DEF GoldenHoldsInService
<1> QED
  BY Invariance, <1>2, PTL

\* The worker refuses what has passed the test for two reasons only.
THEOREM PassedIsLoaded == Spec => []PassedLoads
<1>1. ASSUME IInv, stage = "passed", at = "refused", calm = Programs,
             ExpectedSha[card] = weights, Len(Names[weights]) = Outputs[weights]
      PROVE  FALSE
  <2>1. /\ ~Accepted(weights, card)
        /\ tModel = weights /\ tCard = card /\ tCard # Missing /\ Replayable(tModel)
    BY <1>1 DEF IInv, WorkerCalm, ToolKnows, ToolCalm, Programs
  <2> QED
    BY <1>1, <2>1 DEF Accepted, Loads, ClassNames, Replayable
<1>2. IInv => PassedLoads
  BY <1>1 DEF PassedLoads
<1> QED
  BY Invariance, <1>2, PTL

\* Golden answers just written by the tool pass the test.
THEOREM RegeneratedIsPassed == Spec => []RegeneratedPasses
<1>1. IInv => RegeneratedPasses
  BY DEF IInv, StampedPasses, ToolCalm, RegeneratedPasses
<1> QED
  BY Invariance, <1>1, PTL

\* The SHA-256 a worker takes from its card is the one that stands first in
\* it, and no card whatever is misread (model_validator.py:32-61).
THEOREM FirstIsTaken == Spec => []FirstIsFound
<1>1. Misread = {}
  BY SearchFindsFirst DEF Misread
<1>2. TypeOK => FirstIsFound
  BY <1>1, SearchFindsFirst, CardsAssumption DEF TypeOK, FirstIsFound, ExpectedSha
<1> QED
  BY TypeCorrect, <1>2, PTL

-----------------------------------------------------------------------------
(* What a card must be like.                                               *)

\* The SHA-256 the scripts read from a card is one the worker may find in it.
LEMMA ArtifactIsHit ==
  ASSUME NEW v \in Values, ArtifactShaOf(v) # Nothing
  PROVE  \E hit \in Hits[v] : hit.text = ArtifactShaOf(v)
<1> DEFINE shas == {s \in UNION {Get(artifact, Sha) : artifact \in Get(v, Artifact)} :
                       s.type = "string"}
<1>1. shas # {} /\ ArtifactShaOf(v) = (CHOOSE s \in shas : TRUE).text
  BY Zenon DEF ArtifactShaOf
<1>2. PICK s \in shas : ArtifactShaOf(v) = s.text
  BY <1>1, Zenon
<1>3. PICK artifact \in Get(v, Artifact) : s \in Get(artifact, Sha) /\ s.type = "string"
  BY <1>2
<1>4. PICK i \in DOMAIN v.entries : artifact = v.entries[i].value
  BY <1>3 DEF Get
<1>5. artifact \in Values
  BY <1>4, Inner
<1>6. PICK j \in DOMAIN artifact.entries :
          /\ s = artifact.entries[j].value
          /\ artifact.type = "dict" /\ artifact.entries[j].key = Sha
  BY <1>3 DEF Get
<1>7. j \in OwnStrings(artifact)
  BY <1>3, <1>6, KeysAssumption DEF OwnStrings
<1>8. OwnHit(artifact, j) \in Hits[artifact] /\ OwnHit(artifact, j).text = s.text
  BY <1>5, <1>6, <1>7, HitsOf DEF OwnHit
<1>9. Deeper(i, OwnHit(artifact, j)) \in Hits[v]
  BY <1>4, <1>8, HitsOf
<1> QED
  BY <1>2, <1>8, <1>9 DEF Deeper

\* Where all of the hits of a card are the artifact's SHA-256, the search
\* finds it.
LEMMA OneHitIsFound ==
  ASSUME NEW v \in Values, ArtifactShaOf(v) \notin {Nothing, Blank},
         \A hit \in Hits[v] : hit.text = ArtifactShaOf(v)
  PROVE  GetExpectedSha(v) = ArtifactShaOf(v)
<1>1. PICK hit \in Hits[v] : hit.text = ArtifactShaOf(v)
  BY ArtifactIsHit
<1>2. hit \in Visible(Hits[v])
  BY <1>1 DEF Visible
<1>3. PICK first \in Visible(Hits[v]) : first.text = FindFirstStringKey[v]
  BY <1>2, SearchIsRight DEF FoundRight, First
<1>4. FindFirstStringKey[v] = ArtifactShaOf(v)
  BY <1>3 DEF Visible
<1> QED
  BY <1>4 DEF GetExpectedSha, Truthy

\* No other SHA-256 in the card than the artifact's, under any of the keys.
HasOneSha(c) == \A hit \in Hits[Trees[c]] : hit.text = ArtifactSha[c]

\* With one SHA-256 in its card, a release that passes the golden test is
\* refused for its class names only (model_validator.py:49-58, golden.py:132).
OneShaLoads ==
    stage = "passed" /\ at = "refused" /\ calm = Programs /\ HasOneSha(card) =>
        Len(Names[weights]) # Outputs[weights]

THEOREM OneShaIsEnough == Spec => []OneShaLoads
<1>1. IInv /\ PassedLoads => OneShaLoads
  <2> SUFFICES ASSUME IInv, PassedLoads,
                      stage = "passed", at = "refused", calm = Programs, HasOneSha(card)
               PROVE  Len(Names[weights]) # Outputs[weights]
    BY DEF OneShaLoads
  <2>1. /\ card \in Cards /\ weights \in Weights
        /\ weights = ArtifactSha[card]
    BY DEF IInv, TypeOK, ToolKnows, ToolCalm, Programs
  <2>2. Trees[card] \in Values /\ ArtifactSha[card] = ArtifactShaOf(Trees[card])
    BY <2>1, CardsAssumption DEF ArtifactSha
  <2>3. weights \notin {Nothing, Blank}
    BY <2>1, FilesAssumption
  <2>4. GetExpectedSha(Trees[card]) = weights
    BY <2>1, <2>2, <2>3, OneHitIsFound DEF HasOneSha
  <2>5. ExpectedSha[card] = weights
    BY <2>1, <2>4 DEF ExpectedSha
  <2> QED
    BY <2>5 DEF PassedLoads
<1> QED
  BY <1>1, Invariance, PassedIsLoaded, PTL

-----------------------------------------------------------------------------
\* While no file is replaced by hand, whatever the tool writes: predictions
\* carry the SHA-256 of their weights, a passed test is what users get, and
\* the worker refuses what passed for the two reasons only.
LastingRelease ==
    /\ at = "ready" => wModel = wSha
    /\ stage = "passed" /\ at = "ready" /\ tGolden.preprocessing = ServicePreprocessing =>
           \A i \in ItemsOf(tGolden) :
               /\ Serves
               /\ Served(i).id = tGolden.items[i].id
               /\ Served(i).label = Names[tSha][tGolden.items[i].id]
               /\ Close(Served(i).confidence, tGolden.items[i].confidence)
    /\ stage = "passed" /\ at = "refused" =>
           ExpectedSha[card] # weights \/ Len(Names[weights]) # Outputs[weights]

THEOREM UnderOneRelease ==
  ASSUME MaxEdits = 0
  PROVE  Spec => []LastingRelease
<1> DEFINE Undisturbed == /\ edits = 0 /\ swapped = {}
                          /\ at # "idle" => "worker" \in calm
                          /\ stage # "idle" => "tool" \in calm
<1>1. Init => Undisturbed
  BY DEF Init
<1>2. Undisturbed /\ [Next]_vars => Undisturbed'
  <2> SUFFICES ASSUME Undisturbed, [Next]_vars  PROVE Undisturbed'
    OBVIOUS
  <2> USE DEF fileVars, workerVars, toolVars, historyVars
  <2>1. ~(ReplaceWeights \/ ReplaceCard \/ ReplaceGolden)
    BY DEF ReplaceWeights, ReplaceCard, ReplaceGolden, Edit
  <2>2. CASE ReadCard \/ HashWeights \/ LoadWeights \/ EndJob
    BY <2>2 DEF ReadCard, HashWeights, LoadWeights, EndJob
  <2>3. CASE ReadFiles
    BY <2>3 DEF ReadFiles
  <2>4. CASE HashTool \/ LoadTool \/ Compare \/ RecomputeRaises \/ Kill
    BY <2>4 DEF HashTool, LoadTool, Compare, RecomputeRaises, Kill
  <2>5. CASE Recompute \/ WriteBack
    BY <2>5 DEF Recompute, WriteBack
  <2>6. CASE UNCHANGED vars
    BY <2>6 DEF vars
  <2> QED
    BY <2>1, <2>2, <2>3, <2>4, <2>5, <2>6 DEF Next
<1>3. Undisturbed /\ IInv /\ ServedIsNamed /\ GoldenHoldsInService /\ PassedLoads
      => LastingRelease
  <2> SUFFICES ASSUME Undisturbed, IInv, ServedIsNamed, GoldenHoldsInService, PassedLoads
               PROVE  LastingRelease
    OBVIOUS
  <2>1. stage = "passed" /\ at = "ready" => wSha = tSha
    BY DEF IInv, WorkerCalm, ToolCalm, ToolKnows
  <2>2. stage # "idle" /\ at # "idle" => calm = Programs
    BY DEF IInv, TypeOK, Programs
  <2> QED
    BY <2>1, <2>2 DEF ServedIsNamed, GoldenHoldsInService, PassedLoads, LastingRelease
<1> QED
  BY <1>1, <1>2, <1>3, Invariance, PredictionsAreNamed, GoldenIsServed, PassedIsLoaded, PTL
     DEF Spec
=============================================================================
