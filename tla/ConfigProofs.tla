---------------------------- MODULE ConfigProofs ----------------------------
(* Machine-checked proofs about Config. *)
EXTENDS Config, SequenceTheorems, WellFoundedInduction, TLAPS

(* Min of a set of numbers is its smallest element: the next listener in   *)
(* the order of the map m_cbs, and, below, the smallest counterexample.    *)
LEMMA MinOfNaturals ==
    ASSUME NEW S, S \subseteq Nat, S # {}
    PROVE  Min(S) \in S /\ \A x \in S : Min(S) <= x
  <1> DEFINE Less == {ss \in Nat \X Nat : ss[1] < ss[2]}
  <1>1. IsWellFoundedOn(Less, Nat)
    BY NatLessThanWellFounded DEF OpToRel
  <1>2. \A k, m \in Nat : k < m => <<k, m>> \in Less
    OBVIOUS
  <1> HIDE DEF Less
  <1>3. PICK x \in S : \A y \in S : ~(<<y, x>> \in Less)
    BY <1>1, WFMin
  <1>4. \A y \in S : x <= y
    <2> TAKE y \in S
    <2>1. x \in Nat /\ y \in Nat
      OBVIOUS
    <2>2. ~(y < x)
      BY <1>2, <1>3, <2>1
    <2> QED BY <2>1, <2>2
  <1>5. \E z \in S : \A y \in S : z <= y
    BY <1>4
  <1> QED BY <1>5 DEF Min

(* The entries of a YAML file. *)
LEMMA FileEntries ==
    ASSUME NEW doc \in Docs
    PROVE  /\ Len(doc) \in Nat \ {0} /\ DOMAIN doc = 1 .. Len(doc)
           /\ \A i \in 1 .. Len(doc) :
                /\ doc[i].key \in STRING /\ doc[i].up \in Nat /\ doc[i].val \in Values
                /\ doc[i].up # 0 => doc[i].up \in 1 .. Len(doc) /\ doc[i].up < i
           /\ \A i, j \in 1 .. Len(doc) :
                doc[j].up = doc[i].up /\ doc[j].key = doc[i].key => j = i
  <1>1. doc \in Seq(Entries) /\ IsFile(doc)
    BY DocsAssumption
  <1>2. Len(doc) \in Nat \ {0} /\ DOMAIN doc = 1 .. Len(doc) /\ \A i \in 1 .. Len(doc) : doc[i] \in Entries
    BY <1>1 DEF IsFile
  <1>3. \A e \in Entries : e.key \in STRING /\ e.up \in Nat /\ e.val \in Values
    BY DEF Entries
  <1>4. \A i \in 1 .. Len(doc) : doc[i].up < i
    BY <1>1, <1>2 DEF IsFile
  <1>5. \A i, j \in 1 .. Len(doc) : doc[j].up = doc[i].up /\ doc[j].key = doc[i].key => j = i
    BY <1>1, <1>2 DEF IsFile
  <1>6. \A i \in 1 .. Len(doc) : doc[i].up # 0 => doc[i].up \in 1 .. Len(doc)
    BY <1>2, <1>3, <1>4
  <1> QED BY <1>2, <1>3, <1>4, <1>5, <1>6

(* Two names with one more part are the same only if they were before. *)
LEMMA LastPart ==
    ASSUME NEW S, NEW a \in Seq(S), NEW b \in Seq(S), NEW x \in S, NEW y \in S,
           a \o <<x>> = b \o <<y>>
    PROVE  a = b /\ x = y
  <1> DEFINE c == a \o <<x>>
             d == b \o <<y>>
  <1>1. /\ Len(c) = Len(a) + 1 /\ Len(d) = Len(b) + 1
        /\ \A i \in 1 .. Len(a) : c[i] = a[i]
        /\ \A i \in 1 .. Len(b) : d[i] = b[i]
        /\ c[Len(a) + 1] = x /\ d[Len(b) + 1] = y
    OBVIOUS
  <1>2. Len(a) \in Nat /\ Len(b) \in Nat /\ c = d
    OBVIOUS
  <1> HIDE DEF c, d
  <1>3. Len(a) = Len(b)
    BY <1>1, <1>2
  <1>4. x = y /\ \A i \in 1 .. Len(a) : a[i] = b[i]
    BY <1>1, <1>2, <1>3
  <1> QED BY <1>3, <1>4, SeqEqual

(* A sequence is what comes before its last part, and that part. *)
LEMMA ButLast ==
    ASSUME NEW S, NEW n \in Nat \ {0}, NEW g \in [1 .. n -> S]
    PROVE  g = [k \in 1 .. (n - 1) |-> g[k]] \o <<g[n]>>
  <1> DEFINE d == [k \in 1 .. (n - 1) |-> g[k]]
             e == <<g[n]>>
  <1>1. d \in Seq(S) /\ Len(d) = n - 1 /\ \A k \in 1 .. (n - 1) : d[k] = g[k]
    OBVIOUS
  <1>2. e \in Seq(S) /\ Len(e) = 1 /\ e[1] = g[n]
    OBVIOUS
  <1>3. g \in Seq(S) /\ Len(g) = n
    OBVIOUS
  <1> HIDE DEF d, e
  <1>4. /\ d \o e \in Seq(S) /\ Len(d \o e) = n
        /\ \A i \in 1 .. n : (d \o e)[i] = IF i <= n - 1 THEN d[i] ELSE e[i - (n - 1)]
    <2>1. /\ d \o e \in Seq(S) /\ Len(d \o e) = Len(d) + Len(e)
          /\ \A i \in 1 .. Len(d) + Len(e) :
                (d \o e)[i] = IF i <= Len(d) THEN d[i] ELSE e[i - Len(d)]
      BY <1>1, <1>2, ConcatProperties
    <2>2. Len(d) + Len(e) = n
      BY <1>1, <1>2
    <2> QED BY <1>1, <2>1, <2>2
  <1>5. \A i \in 1 .. n : (d \o e)[i] = g[i]
    <2> TAKE i \in 1 .. n
    <2>1. CASE i <= n - 1
      BY <1>1, <1>4, <2>1
    <2>2. CASE i = n
      <3>1. ~(n <= n - 1) /\ n - (n - 1) = 1
        OBVIOUS
      <3> QED BY <1>2, <1>4, <2>2, <3>1
    <2>3. i <= n - 1 \/ i = n
      OBVIOUS
    <2> QED BY <2>1, <2>2, <2>3
  <1>6. g = d \o e
    BY <1>3, <1>4, <1>5, SeqEqual
  <1> QED BY <1>6 DEF d, e

(* What ListAllNodes() has put in front of the key of node i *)
Prefix(doc, f, i) ==
    IF doc[i].up # 0 THEN f[doc[i].up] ELSE IF i = 1 THEN <<>> ELSE <<doc[1].key>>

(* f gives the first n nodes their dotted names. *)
Named(doc, f, n) == \A i \in 1 .. n : f[i] = Prefix(doc, f, i) \o <<doc[i].key>>

(* What is put in front is a name, or empty. *)
LEMMA PrefixTyped ==
    ASSUME NEW doc \in Docs, NEW f, NEW i \in 1 .. Len(doc),
           doc[i].up # 0 => f[doc[i].up] \in Seq(STRING)
    PROVE  Prefix(doc, f, i) \in Seq(STRING)
  <1>1. 1 \in 1 .. Len(doc)
    BY FileEntries
  <1>2. doc[1].key \in STRING
    BY <1>1, FileEntries
  <1>3. <<>> \in Seq(STRING) /\ <<doc[1].key>> \in Seq(STRING)
    BY <1>2
  <1> QED BY <1>3, Zenon DEF Prefix

(* The function that ListAllNodes() computes by recursion exists: it is    *)
(* built one node at a time, and the first node for which it could not be  *)
(* built does not exist.                                                   *)
LEMMA NamesExist ==
    ASSUME NEW doc \in Docs
    PROVE  \E f \in [1 .. Len(doc) -> Seq(STRING)] : Named(doc, f, Len(doc))
  <1> DEFINE N == Len(doc)
             Bad == {n \in 0 .. N : ~ \E f \in [1 .. n -> Seq(STRING)] : Named(doc, f, n)}
  <1>0. N \in Nat \ {0}
    BY FileEntries
  <1>1. CASE Bad = {}
    <2>1. N \in 0 .. N
      BY <1>0
    <2> QED BY <1>1, <2>1
  <1>2. CASE Bad # {}
    <2>1. PICK m \in Bad : \A y \in Bad : m <= y
      <3>1. Bad \subseteq Nat
        BY <1>0
      <3> HIDE DEF Bad
      <3> QED BY <1>2, <3>1, MinOfNaturals
    <2>2. m # 0
      <3>1. [i \in 1 .. 0 |-> <<>>] \in [1 .. 0 -> Seq(STRING)] /\ Named(doc, [i \in 1 .. 0 |-> <<>>], 0)
        BY DEF Named
      <3> QED BY <3>1, <2>1
    <2>3. m \in 1 .. N /\ m - 1 \in 0 .. N /\ m - 1 \notin Bad
      <3>1. m \in 0 .. N
        BY <2>1
      <3> HIDE DEF Bad
      <3> QED BY <1>0, <3>1, <2>1, <2>2
    <2>4. PICK g \in [1 .. (m - 1) -> Seq(STRING)] : Named(doc, g, m - 1)
      BY <2>3
    <2> HIDE DEF Bad, N
    <2> DEFINE last == Prefix(doc, g, m) \o <<doc[m].key>>
               f == [i \in 1 .. m |-> IF i = m THEN last ELSE g[i]]
    <2>5. last \in Seq(STRING)
      <3>1. doc[m].key \in STRING /\ doc[1].key \in STRING
            /\ (doc[m].up # 0 => doc[m].up \in 1 .. (m - 1))
        BY <1>0, <2>3, FileEntries DEF N
      <3>2. Prefix(doc, g, m) \in Seq(STRING)
        BY <2>3, <3>1, PrefixTyped DEF N
      <3> QED BY <3>1, <3>2
    <2>6. f \in [1 .. m -> Seq(STRING)] /\ f[m] = last /\ \A i \in 1 .. (m - 1) : f[i] = g[i]
      <3> HIDE DEF last
      <3> QED BY <1>0, <2>3, <2>5
    <2>7. \A i \in 1 .. m : Prefix(doc, f, i) = Prefix(doc, g, i)
      <3> HIDE DEF f
      <3> TAKE i \in 1 .. m
      <3>1. doc[i].up # 0 => doc[i].up \in 1 .. (m - 1)
        BY <1>0, <2>3, FileEntries DEF N
      <3> QED BY <2>6, <3>1 DEF Prefix
    <2>8. Named(doc, f, m)
      <3> HIDE DEF f
      <3> SUFFICES ASSUME NEW i \in 1 .. m PROVE f[i] = Prefix(doc, f, i) \o <<doc[i].key>>
        BY DEF Named
      <3>1. CASE i = m
        BY <3>1, <2>6, <2>7
      <3>2. CASE i # m
        <4>1. i \in 1 .. (m - 1)
          BY <3>2, <2>3, <1>0
        <4> QED BY <4>1, <2>4, <2>6, <2>7 DEF Named
      <3> QED BY <3>1, <3>2
    <2> HIDE DEF f
    <2>9. m \notin Bad
      BY <2>6, <2>8 DEF Bad
    <2> QED BY <2>1, <2>9
  <1> QED BY <1>1, <1>2

(* The names are names. *)
LEMMA NamesTyped ==
    ASSUME NEW doc \in Docs, NEW f, Named(doc, f, Len(doc))
    PROVE  \A i \in 1 .. Len(doc) :
             /\ f[i] \in Seq(STRING) /\ f[i] # <<>> /\ Prefix(doc, f, i) \in Seq(STRING)
             /\ f[i] = Prefix(doc, f, i) \o <<doc[i].key>>
  <1> DEFINE N == Len(doc)
             Bad == {i \in 1 .. N : f[i] \notin Seq(STRING)}
  <1>0. N \in Nat \ {0}
    BY FileEntries
  <1>1. Bad = {}
    <2> SUFFICES ASSUME Bad # {} PROVE FALSE
      OBVIOUS
    <2>1. PICK m \in Bad : \A y \in Bad : m <= y
      <3>1. Bad \subseteq Nat
        BY <1>0
      <3> HIDE DEF Bad
      <3> QED BY <3>1, MinOfNaturals
    <2>2. m \in 1 .. N /\ f[m] \notin Seq(STRING)
      BY <2>1
    <2>3. doc[m].key \in STRING /\ doc[1].key \in STRING
          /\ (doc[m].up # 0 => doc[m].up \in 1 .. N /\ doc[m].up < m)
      BY <1>0, <2>2, FileEntries
    <2>4. doc[m].up # 0 => f[doc[m].up] \in Seq(STRING)
      BY <1>0, <2>1, <2>2, <2>3
    <2>5. Prefix(doc, f, m) \in Seq(STRING)
      BY <2>2, <2>4, PrefixTyped
    <2>6. f[m] = Prefix(doc, f, m) \o <<doc[m].key>>
      BY <2>2 DEF Named
    <2> QED BY <2>2, <2>3, <2>5, <2>6
  <1>2. \A i \in 1 .. N : f[i] \in Seq(STRING)
    BY <1>1
  <1> HIDE DEF Bad
  <1> TAKE i \in 1 .. N
  <1>3. doc[i].key \in STRING /\ doc[1].key \in STRING /\ (doc[i].up # 0 => doc[i].up \in 1 .. N)
    BY <1>0, FileEntries
  <1>4. Prefix(doc, f, i) \in Seq(STRING)
    BY <1>2, <1>3, PrefixTyped
  <1>5. f[i] = Prefix(doc, f, i) \o <<doc[i].key>>
    BY DEF Named
  <1>6. f[i] # <<>>
    BY <1>3, <1>4, <1>5
  <1> QED BY <1>2, <1>4, <1>5, <1>6

(* ListAllNodes() yields every node of the file with its name. *)
LEMMA ListAllNodesFacts ==
    ASSUME NEW doc \in Docs
    PROVE  /\ ListAllNodes(doc) \in Seq(Listed)
           /\ \E f : /\ Named(doc, f, Len(doc))
                     /\ ListAllNodes(doc) =
                          [i \in 1 .. Len(doc) |-> [name |-> f[i], val |-> doc[i].val]]
  <1> DEFINE N == Len(doc)
             F(f) == [i \in DOMAIN doc |->
                        (IF doc[i].up # 0 THEN f[doc[i].up] ELSE IF i = 1 THEN <<>> ELSE <<doc[1].key>>)
                          \o <<doc[i].key>>]
             name == CHOOSE f : f = F(f)
  <1>0. N \in Nat \ {0} /\ DOMAIN doc = 1 .. N
    BY FileEntries
  <1>1. ListAllNodes(doc) = [i \in 1 .. N |-> [name |-> name[i], val |-> doc[i].val]]
    BY <1>0 DEF ListAllNodes
  <1>2. \E f : f = F(f)
    <2>1. PICK f \in [1 .. N -> Seq(STRING)] : Named(doc, f, N)
      BY NamesExist
    <2>2. \A i \in 1 .. N : f[i] = F(f)[i]
      BY <1>0, <2>1 DEF Named, Prefix
    <2>3. f = F(f)
      BY <1>0, <2>1, <2>2
    <2> HIDE DEF F
    <2> QED BY <2>3
  <1>3. name = F(name)
    <2> HIDE DEF F
    <2> QED BY <1>2
  <1> HIDE DEF name
  <1>4. Named(doc, name, N)
    BY <1>0, <1>3 DEF Named, Prefix
  <1>5. ListAllNodes(doc) \in Seq(Listed)
    <2>1. \A i \in 1 .. N : [name |-> name[i], val |-> doc[i].val] \in Listed
      BY <1>4, NamesTyped, FileEntries DEF Listed
    <2> QED BY <1>0, <1>1, <2>1
  <1> HIDE DEF N
  <1> QED BY <1>1, <1>4, <1>5 DEF N

(* The keys on a way *)
Keys(doc, c) == [k \in DOMAIN c |-> doc[c[k]].key]

(* A way is a sequence of nodes. *)
LEMMA WayFacts ==
    ASSUME NEW doc \in Docs, NEW c \in Ways(doc)
    PROVE  /\ Len(c) \in 1 .. Len(doc) /\ c \in [1 .. Len(c) -> 1 .. Len(doc)] /\ DOMAIN c = 1 .. Len(c)
           /\ doc[c[1]].up = 0
           /\ \A k \in 1 .. Len(c) : k # 1 => doc[c[k]].up = c[k - 1]
  <1>0. Len(doc) \in Nat \ {0} /\ DOMAIN doc = 1 .. Len(doc)
    BY FileEntries
  <1>1. PICK n \in 1 .. Len(doc) : c \in [1 .. n -> 1 .. Len(doc)]
    BY <1>0 DEF Ways
  <1>2. Len(c) = n /\ DOMAIN c = 1 .. n
    BY <1>0, <1>1
  <1>3. doc[c[1]].up = 0 /\ \A k \in DOMAIN c : k # 1 => doc[c[k]].up = c[k - 1]
    BY DEF Ways
  <1> QED BY <1>1, <1>2, <1>3

(* What is a way *)
LEMMA IsWay ==
    ASSUME NEW doc \in Docs, NEW n \in 1 .. Len(doc), NEW c \in [1 .. n -> 1 .. Len(doc)],
           doc[c[1]].up = 0, \A k \in 1 .. n : k # 1 => doc[c[k]].up = c[k - 1]
    PROVE  c \in Ways(doc) /\ Len(c) = n
  <1>0. Len(doc) \in Nat \ {0} /\ DOMAIN doc = 1 .. Len(doc)
    BY FileEntries
  <1>1. c \in UNION {[1 .. j -> DOMAIN doc] : j \in DOMAIN doc}
    BY <1>0
  <1>2. DOMAIN c = 1 .. n /\ Len(c) = n
    BY <1>0
  <1> QED BY <1>1, <1>2 DEF Ways

(* In a file with one root key the keys on the way to a node are the name  *)
(* ListAllNodes() gives it.                                                *)
LEMMA WaysLead ==
    ASSUME NEW doc \in Docs, OneRoot(doc), NEW f, Named(doc, f, Len(doc)), NEW w \in Ways(doc)
    PROVE  Keys(doc, w) = f[w[Len(w)]]
  <1> DEFINE N == Len(doc)
             Bad == {i \in 1 .. N : \E c \in Ways(doc) : c[Len(c)] = i /\ Keys(doc, c) # f[i]}
  <1>0. N \in Nat \ {0} /\ DOMAIN doc = 1 .. N
    BY FileEntries
  <1>1. CASE Bad = {}
    <2>1. w[Len(w)] \in 1 .. N
      BY <1>0, WayFacts
    <2> QED BY <1>1, <2>1
  <1>2. CASE Bad # {}
    <2>1. PICK m \in Bad : \A y \in Bad : m <= y
      <3>1. Bad \subseteq Nat
        BY <1>0
      <3> HIDE DEF Bad
      <3> QED BY <1>2, <3>1, MinOfNaturals
    <2>2. PICK c \in Ways(doc) : m \in 1 .. N /\ c[Len(c)] = m /\ Keys(doc, c) # f[m]
      BY <2>1
    <2> DEFINE n == Len(c)
    <2>3. /\ n \in 1 .. N /\ c \in [1 .. n -> 1 .. N] /\ DOMAIN c = 1 .. n /\ doc[c[1]].up = 0
          /\ \A k \in 1 .. n : k # 1 => doc[c[k]].up = c[k - 1]
      BY WayFacts
    <2>4. f[m] = Prefix(doc, f, m) \o <<doc[m].key>> /\ doc[m].key \in STRING
      BY <2>2, NamesTyped, FileEntries
    <2>5. Keys(doc, c) \in [1 .. n -> STRING] /\ Keys(doc, c)[n] = doc[m].key
          /\ \A k \in 1 .. n : Keys(doc, c)[k] = doc[c[k]].key
      <3>1. \A i \in 1 .. N : doc[i].key \in STRING
        BY FileEntries
      <3> HIDE DEF n, N
      <3>2. n \in 1 .. n
        BY <2>3, <1>0
      <3> QED BY <2>2, <2>3, <3>1, <3>2 DEF Keys, n
    <2>6. Keys(doc, c) = [k \in 1 .. (n - 1) |-> Keys(doc, c)[k]] \o <<doc[m].key>>
      <3>1. n \in Nat \ {0}
        BY <1>0, <2>3
      <3> HIDE DEF n
      <3> QED BY <2>5, <3>1, ButLast
    <2> HIDE DEF n
    <2>7. [k \in 1 .. (n - 1) |-> Keys(doc, c)[k]] = Prefix(doc, f, m)
      <3>1. CASE n = 1
        <4>1. doc[m].up = 0 /\ m = 1
          BY <1>0, <2>2, <2>3, <3>1 DEF OneRoot, n
        <4>2. Prefix(doc, f, m) = <<>>
          BY <4>1 DEF Prefix
        <4>3. [k \in 1 .. (n - 1) |-> Keys(doc, c)[k]] = <<>>
          BY <3>1
        <4> QED BY <4>2, <4>3
      <3>2. CASE n # 1
        <4> DEFINE d == [k \in 1 .. (n - 1) |-> c[k]]
        <4>1. n - 1 \in 1 .. N /\ n - 1 \in 1 .. n /\ n \in 1 .. n /\ (\A k \in 1 .. (n - 1) : k \in 1 .. n)
          BY <1>0, <2>3, <3>2
        <4>2. d \in [1 .. (n - 1) -> 1 .. N] /\ \A k \in 1 .. (n - 1) : d[k] = c[k]
          BY <2>3, <4>1
        <4> HIDE DEF d, N
        <4>3. doc[d[1]].up = 0
          BY <1>0, <2>3, <4>1, <4>2
        <4>4. \A k \in 1 .. (n - 1) : k # 1 => doc[d[k]].up = d[k - 1]
          <5> TAKE k \in 1 .. (n - 1)
          <5>1. k # 1 => k - 1 \in 1 .. (n - 1)
            BY <1>0, <4>1
          <5> QED BY <2>3, <4>1, <4>2, <5>1
        <4>5. d \in Ways(doc) /\ Len(d) = n - 1
          BY <4>1, <4>2, <4>3, <4>4, IsWay DEF N
        <4>6. doc[m].up = c[n - 1] /\ c[n - 1] \in 1 .. N /\ d[n - 1] = c[n - 1]
          <5>1. n - 1 \in 1 .. (n - 1)
            BY <1>0, <4>1
          <5>2. doc[c[n]].up = c[n - 1] /\ c[n] = m
            BY <2>2, <2>3, <3>2, <4>1 DEF n
          <5> QED BY <2>3, <4>1, <4>2, <5>1, <5>2
        <4>7. doc[m].up # 0 /\ doc[m].up < m /\ doc[m].up \in 1 .. N
          BY <1>0, <2>2, <4>6, FileEntries DEF N
        <4>8. doc[m].up \notin Bad
          <5> HIDE DEF Bad
          <5> QED BY <1>0, <2>1, <2>2, <4>7
        <4>9. Keys(doc, d) = f[doc[m].up]
          BY <4>5, <4>6, <4>7, <4>8
        <4>10. Keys(doc, d) = [k \in 1 .. (n - 1) |-> Keys(doc, c)[k]]
          <5>1. DOMAIN d = 1 .. (n - 1)
            BY <4>2
          <5> QED BY <2>5, <4>1, <4>2, <5>1 DEF Keys
        <4> QED BY <4>7, <4>9, <4>10 DEF Prefix
      <3> QED BY <3>1, <3>2
    <2> QED BY <2>2, <2>4, <2>6, <2>7
  <1> QED BY <1>1, <1>2

(* A way leads to every node. *)
LEMMA WaysExist ==
    ASSUME NEW doc \in Docs, NEW j \in 1 .. Len(doc)
    PROVE  \E c \in Ways(doc) : c[Len(c)] = j
  <1> DEFINE N == Len(doc)
             Bad == {i \in 1 .. N : ~ \E c \in Ways(doc) : c[Len(c)] = i /\ Len(c) <= i}
  <1>0. N \in Nat \ {0}
    BY FileEntries
  <1>1. CASE Bad = {}
    BY <1>1
  <1>2. CASE Bad # {}
    <2>1. PICK m \in Bad : \A y \in Bad : m <= y
      <3>1. Bad \subseteq Nat
        BY <1>0
      <3> HIDE DEF Bad
      <3> QED BY <1>2, <3>1, MinOfNaturals
    <2>2. m \in 1 .. N
      BY <2>1
    <2>3. CASE doc[m].up = 0
      <3> DEFINE c == [k \in 1 .. 1 |-> m]
      <3>1. c \in [1 .. 1 -> 1 .. N] /\ c[1] = m
        BY <2>2
      <3> HIDE DEF c
      <3>2. 1 \in 1 .. N /\ \A k \in 1 .. 1 : k = 1
        BY <1>0
      <3>3. c \in Ways(doc) /\ Len(c) = 1
        BY <2>3, <3>1, <3>2, IsWay
      <3>4. 1 <= m
        BY <1>0, <2>2
      <3> QED BY <2>1, <3>1, <3>3, <3>4
    <2>4. CASE doc[m].up # 0
      <3> DEFINE u == doc[m].up
      <3>1. u \in 1 .. N /\ u < m
        BY <2>2, <2>4, FileEntries
      <3>2. u \notin Bad
        <4> HIDE DEF Bad
        <4> QED BY <1>0, <2>1, <2>2, <3>1
      <3>3. PICK b \in Ways(doc) : b[Len(b)] = u /\ Len(b) <= u
        BY <3>1, <3>2
      <3> DEFINE l == Len(b)
                 c == [k \in 1 .. (l + 1) |-> IF k = l + 1 THEN m ELSE b[k]]
      <3>4. /\ l \in 1 .. N /\ b \in [1 .. l -> 1 .. N] /\ doc[b[1]].up = 0
            /\ \A k \in 1 .. l : k # 1 => doc[b[k]].up = b[k - 1]
        BY WayFacts
      <3> HIDE DEF l, N
      <3>5. l + 1 \in 1 .. N /\ l + 1 <= m /\ 1 \in 1 .. l /\ l \in 1 .. l
        BY <1>0, <2>2, <3>1, <3>3, <3>4 DEF l
      <3>6. /\ c \in [1 .. (l + 1) -> 1 .. N] /\ c[l + 1] = m
            /\ \A k \in 1 .. l : c[k] = b[k]
        <4>1. \A k \in 1 .. (l + 1) : k # l + 1 => k \in 1 .. l
          BY <1>0, <3>4
        <4>2. \A k \in 1 .. l : k # l + 1 /\ k \in 1 .. (l + 1)
          BY <1>0, <3>4
        <4>3. l + 1 \in 1 .. (l + 1)
          BY <1>0, <3>4
        <4> QED BY <2>2, <3>4, <4>1, <4>2, <4>3
      <3> HIDE DEF c
      <3>7. doc[c[1]].up = 0
        BY <3>4, <3>5, <3>6
      <3>8. \A k \in 1 .. (l + 1) : k # 1 => doc[c[k]].up = c[k - 1]
        <4> SUFFICES ASSUME NEW k \in 1 .. (l + 1), k # 1 PROVE doc[c[k]].up = c[k - 1]
          OBVIOUS
        <4>1. CASE k = l + 1
          <5>1. k - 1 = l
            BY <1>0, <3>4, <4>1
          <5>2. c[l] = u
            BY <3>3, <3>5, <3>6 DEF l
          <5> QED BY <3>6, <4>1, <5>1, <5>2
        <4>2. CASE k # l + 1
          <5>1. k \in 1 .. l /\ k - 1 \in 1 .. l
            BY <1>0, <3>4, <4>2
          <5> QED BY <3>4, <3>6, <5>1
        <4> QED BY <4>1, <4>2
      <3>9. c \in Ways(doc) /\ Len(c) = l + 1
        BY <3>5, <3>6, <3>7, <3>8, IsWay DEF N
      <3> QED BY <2>1, <3>5, <3>6, <3>9
    <2> QED BY <2>3, <2>4
  <1> QED BY <1>1, <1>2

(* In a file with one root key every node has a name of its own. *)
LEMMA NamesDiffer ==
    ASSUME NEW doc \in Docs, OneRoot(doc), NEW f, Named(doc, f, Len(doc)),
           NEW x \in 1 .. Len(doc), NEW y \in 1 .. Len(doc), f[x] = f[y]
    PROVE  x = y
  <1> DEFINE N == Len(doc)
             Bad == {i \in 1 .. N : \E j \in 1 .. N : j # i /\ f[i] = f[j]}
  <1>0. N \in Nat \ {0} /\ DOMAIN doc = 1 .. N
    BY FileEntries
  <1>1. CASE Bad = {}
    BY <1>1
  <1>2. CASE Bad # {}
    <2>1. PICK m \in Bad : \A i \in Bad : m <= i
      <3>1. Bad \subseteq Nat
        BY <1>0
      <3> HIDE DEF Bad
      <3> QED BY <1>2, <3>1, MinOfNaturals
    <2>2. PICK j \in 1 .. N : m \in 1 .. N /\ j # m /\ f[m] = f[j]
      BY <2>1
    <2>3. Prefix(doc, f, m) = Prefix(doc, f, j) /\ doc[m].key = doc[j].key
      <3>1. /\ f[m] = Prefix(doc, f, m) \o <<doc[m].key>> /\ Prefix(doc, f, m) \in Seq(STRING)
            /\ f[j] = Prefix(doc, f, j) \o <<doc[j].key>> /\ Prefix(doc, f, j) \in Seq(STRING)
        BY <2>2, NamesTyped
      <3>2. doc[m].key \in STRING /\ doc[j].key \in STRING
        BY <2>2, FileEntries
      <3>3. Prefix(doc, f, m) \o <<doc[m].key>> = Prefix(doc, f, j) \o <<doc[j].key>>
        BY <2>2, <3>1
      <3> DEFINE a == Prefix(doc, f, m)
                 b == Prefix(doc, f, j)
                 k == doc[m].key
                 l == doc[j].key
                 S == STRING
      <3>4. a \in Seq(S) /\ b \in Seq(S) /\ k \in S /\ l \in S
            /\ a \o <<k>> = b \o <<l>>
        BY <3>1, <3>2, <3>3
      <3> HIDE DEF a, b, k, l, S
      <3>5. a = b /\ k = l
        BY <3>4, LastPart
      <3> QED BY <3>5 DEF a, b, k, l
    <2>4. \A i \in 1 .. N : doc[i].up = 0 => i = 1 /\ Prefix(doc, f, i) = <<>>
      BY <1>0 DEF OneRoot, Prefix
    <2>5. \A i \in 1 .. N : doc[i].up # 0 =>
             /\ doc[i].up \in 1 .. N /\ doc[i].up < i
             /\ Prefix(doc, f, i) = f[doc[i].up] /\ f[doc[i].up] # <<>>
      <3>1. \A i \in 1 .. N : f[i] # <<>>
        BY NamesTyped
      <3>2. \A i \in 1 .. N : doc[i].up # 0 => doc[i].up \in 1 .. N /\ doc[i].up < i
        BY FileEntries
      <3> QED BY <3>1, <3>2 DEF Prefix
    <2>6. doc[m].up # 0 /\ doc[j].up # 0
      BY <2>2, <2>3, <2>4, <2>5
    <2>7. doc[m].up = doc[j].up
      <3>1. doc[m].up \notin Bad
        <4> HIDE DEF Bad
        <4> QED BY <1>0, <2>1, <2>2, <2>5, <2>6
      <3>2. f[doc[m].up] = f[doc[j].up]
        BY <2>2, <2>3, <2>5, <2>6
      <3> QED BY <2>2, <2>5, <2>6, <3>1, <3>2
    <2> QED BY <2>2, <2>3, <2>7, FileEntries
  <1> QED BY <1>1, <1>2

(* For a file with one root key ListAllNodes() lists every path, and no    *)
(* value that its variable takes and that is not on a path.                *)
LEMMA PathsListed ==
    ASSUME NEW doc \in Docs, OneRoot(doc)
    PROVE  /\ \A p \in Paths(doc) : \E i \in DOMAIN ListAllNodes(doc) : ListAllNodes(doc)[i] = p
           /\ \A i \in DOMAIN ListAllNodes(doc) :
                Takes(ListAllNodes(doc)[i].name, ListAllNodes(doc)[i].val) =>
                  ListAllNodes(doc)[i] \in Paths(doc)
  <1>0. PICK f : /\ Named(doc, f, Len(doc))
                 /\ ListAllNodes(doc) = [i \in 1 .. Len(doc) |-> [name |-> f[i], val |-> doc[i].val]]
    BY ListAllNodesFacts
  <1>1. ASSUME NEW p \in Paths(doc)
        PROVE  \E i \in DOMAIN ListAllNodes(doc) : ListAllNodes(doc)[i] = p
    <2>1. PICK c \in Ways(doc) : p = [name |-> Keys(doc, c), val |-> doc[c[Len(c)]].val]
      BY <1>1 DEF Paths, Keys
    <2>2. c[Len(c)] \in 1 .. Len(doc)
      BY WayFacts, FileEntries
    <2>3. Keys(doc, c) = f[c[Len(c)]]
      BY <1>0, WaysLead
    <2> QED BY <1>0, <2>1, <2>2, <2>3
  <1>2. ASSUME NEW i \in DOMAIN ListAllNodes(doc),
               Takes(ListAllNodes(doc)[i].name, ListAllNodes(doc)[i].val)
        PROVE  ListAllNodes(doc)[i] \in Paths(doc)
    <2>1. i \in 1 .. Len(doc) /\ ListAllNodes(doc)[i] = [name |-> f[i], val |-> doc[i].val]
      BY <1>0, <1>2
    <2>2. PICK c \in Ways(doc) : c[Len(c)] = i
      BY <2>1, WaysExist
    <2>3. Keys(doc, c) = f[i]
      BY <1>0, <2>2, WaysLead
    <2>4. ListAllNodes(doc)[i] = [name |-> Keys(doc, c), val |-> doc[c[Len(c)]].val]
      BY <2>1, <2>2, <2>3
    <2> QED BY <1>2, <2>4 DEF Paths, Keys
  <1> QED BY <1>1, <1>2

(* Such a file gives a name one value. *)
LEMMA PathsDiffer ==
    ASSUME NEW doc \in Docs, OneRoot(doc), NEW p \in Paths(doc), NEW q \in Paths(doc), p.name = q.name
    PROVE  p.val = q.val /\ p = [name |-> p.name, val |-> p.val] /\ Takes(p.name, p.val)
  <1>0. PICK f : /\ Named(doc, f, Len(doc))
                 /\ ListAllNodes(doc) = [i \in 1 .. Len(doc) |-> [name |-> f[i], val |-> doc[i].val]]
    BY ListAllNodesFacts
  <1>1. PICK i \in 1 .. Len(doc) : p = [name |-> f[i], val |-> doc[i].val]
    BY <1>0, PathsListed
  <1>2. PICK j \in 1 .. Len(doc) : q = [name |-> f[j], val |-> doc[j].val]
    BY <1>0, PathsListed
  <1>3. i = j
    BY <1>0, <1>1, <1>2, NamesDiffer
  <1>4. Takes(p.name, p.val)
    BY DEF Paths
  <1> QED BY <1>1, <1>2, <1>3, <1>4

-----------------------------------------------------------------------------
(* Types *)

(* A thread outside of every call. *)
LEMMA IdleWork == Idle \in Work
  <1>1. <<>> \in Seq(Listed)
    OBVIOUS
  <1> QED BY <1>1 DEF Idle, Work

(* The types of a thread's locals. *)
LEMMA WorkFields ==
    ASSUME NEW r \in Work
    PROVE  /\ r.pc \in {"idle", "create", "subscribe", "load", "notify", "store"}
           /\ r.name \in Names \union {<<>>} /\ r.var \in Nat /\ r.new \in Values \union {NoVal}
           /\ r.left \in SUBSET Listeners /\ r.todo \in Seq(Listed)
           /\ r.doc \in Docs \union {<<>>} /\ r.had \in SUBSET Names /\ r.alone \in BOOLEAN
  BY DEF Work

(* Taking the next node off the list. *)
LEMMA NextNode ==
    ASSUME NEW s \in Seq(Listed), s # <<>>
    PROVE  /\ Head(s) \in Listed /\ Tail(s) \in Seq(Listed)
           /\ Head(s).val \in Values /\ Head(s).val # NoVal
           /\ Head(s) = s[1] /\ Len(s) \in Nat \ {0} /\ Len(Tail(s)) = Len(s) - 1
           /\ \A i \in 1 .. (Len(s) - 1) : Tail(s)[i] = s[i + 1]
  <1>1. Head(s) \in Listed /\ Tail(s) \in Seq(Listed) /\ Head(s) = s[1]
        /\ Len(s) \in Nat \ {0} /\ Len(Tail(s)) = Len(s) - 1
        /\ \A i \in 1 .. (Len(s) - 1) : Tail(s)[i] = s[i + 1]
    OBVIOUS
  <1>2. \A x \in Listed : x.val \in Values /\ x.val # NoVal
    BY ConfigAssumption DEF Listed
  <1> QED BY <1>1, <1>2

(* Every step keeps the types. *)
LEMMA TypeNext ==
    ASSUME CfgTypeOK, MapShape, WorkShape, [CfgNext]_cfgVars
    PROVE  CfgTypeOK'
  <1> DEFINE Vars == [name : Names, val : Values, cbs : SUBSET Listeners]
  <1>0. /\ s_data \in [Names -> Nat] /\ vars \in Seq(Vars)
        /\ copy \in [Listeners -> Values \union {NoVal}] /\ th \in [Threads -> Work]
        /\ loads \in Nat /\ ran \subseteq [doc : Docs, had : SUBSET Names] /\ overlap \subseteq Nat
    BY DEF CfgTypeOK
  <1>v. \A v \in DOMAIN vars : v \in Nat /\ vars[v] \in Vars /\ vars[v].name \in Names
           /\ vars[v].val \in Values /\ vars[v].cbs \in SUBSET Listeners
    <2>1. \A v \in DOMAIN vars : v \in Nat /\ vars[v] \in Vars
      <3> HIDE DEF Vars
      <3> QED BY <1>0
    <2> QED BY <2>1
  <1>l. /\ Len(vars) \in Nat
          /\ \A v \in DOMAIN vars, x \in Vars : [vars EXCEPT ![v] = x] \in Seq(Vars)
    <2> HIDE DEF Vars
    <2> QED BY <1>0
  <1> SUFFICES ASSUME ~ UNCHANGED cfgVars PROVE CfgTypeOK'
    BY DEF CfgTypeOK, cfgVars
  <1>1. PICK t \in Threads :
          \/ \E n \in Names : Lookup(t, n)
          \/ Create(t)
          \/ \E l \in Listeners : CopyValue(t, l)
          \/ AddListener(t) \/ DelListener(t)
          \/ LoadFromYaml(t) \/ LoadNext(t) \/ Notify(t) \/ Unlock(t) \/ Store(t) \/ LoadDone(t)
    BY DEF CfgNext
  <1>2. th[t] \in Work
    BY <1>0
  <1>i. Idle \in Work /\ DOMAIN Idle = DOMAIN th[t]
    BY IdleWork, <1>2 DEF Work, Idle
  <1>3. ASSUME NEW n \in Names, Lookup(t, n) PROVE CfgTypeOK'
    <2>1. [Idle EXCEPT !.pc = "create", !.name = n] \in Work
      BY <1>i DEF Work
    <2> HIDE DEF Vars
    <2> QED BY <1>0, <1>3, <2>1 DEF Lookup, CfgTypeOK, Vars
  <1>4. CASE Create(t)
    <2>1. th' \in [Threads -> Work]
      BY <1>0, <1>i, <1>4 DEF Create
    <2>2. th[t].name \in Names
      BY <1>4 DEF Create, WorkShape
    <2> DEFINE x == [name |-> th[t].name, val |-> Default, cbs |-> {}]
    <2>3. x \in Vars
      BY <2>2, ConfigAssumption
    <2>3a. vars' = vars \/ vars' = Append(vars, x)
      BY <1>4 DEF Create
    <2>4. vars' \in Seq(Vars)
      <3> HIDE DEF Vars, x
      <3> QED BY <1>0, <2>3, <2>3a
    <2>5. s_data' \in [Names -> Nat]
      BY <1>0, <1>l, <1>4 DEF Create
    <2> QED BY <1>0, <1>4, <2>1, <2>4, <2>5 DEF Create, CfgTypeOK
  <1>5. ASSUME NEW l \in Listeners, CopyValue(t, l) PROVE CfgTypeOK'
    <2>1. PICK v \in DOMAIN vars :
            /\ th' = [th EXCEPT ![t] = [Idle EXCEPT !.pc = "subscribe", !.var = v, !.left = {l}]]
            /\ copy' = [copy EXCEPT ![l] = vars[v].val]
            /\ overlap' = IF Busy(v) = {} THEN overlap ELSE overlap \union {v}
      BY <1>5 DEF CopyValue
    <2>2. [Idle EXCEPT !.pc = "subscribe", !.var = v, !.left = {l}] \in Work
      BY <1>i, <1>v DEF Work
    <2>3. th' \in [Threads -> Work] /\ copy' \in [Listeners -> Values \union {NoVal}]
      BY <1>0, <1>v, <2>1, <2>2
    <2>4. overlap' \subseteq Nat
      BY <1>0, <1>v, <2>1
    <2> QED BY <1>0, <1>5, <2>3, <2>4 DEF CopyValue, CfgTypeOK
  <1>6. CASE AddListener(t)
    <2> DEFINE v == th[t].var
    <2>1. v \in DOMAIN vars
      BY <1>6 DEF AddListener, WorkShape
    <2>2. vars' = [vars EXCEPT ![v] = [vars[v] EXCEPT !.cbs = @ \union th[t].left]]
      BY <1>6 DEF AddListener
    <2>3. [vars[v] EXCEPT !.cbs = @ \union th[t].left] \in Vars
      BY <1>2, <1>v, <2>1, WorkFields
    <2>4. vars' \in Seq(Vars)
      <3> HIDE DEF Vars, v
      <3> QED BY <1>l, <2>1, <2>2, <2>3
    <2>5. th' \in [Threads -> Work]
      BY <1>0, <1>i, <1>6 DEF AddListener
    <2> QED BY <1>0, <1>6, <2>4, <2>5 DEF AddListener, CfgTypeOK
  <1>7. CASE DelListener(t)
    <2>1. PICK v \in DOMAIN vars : \E l \in vars[v].cbs : vars' = [vars EXCEPT ![v].cbs = @ \ {l}]
      BY <1>7 DEF DelListener
    <2>2. PICK l \in vars[v].cbs : vars' = [vars EXCEPT ![v] = [vars[v] EXCEPT !.cbs = @ \ {l}]]
      BY <2>1
    <2>3. [vars[v] EXCEPT !.cbs = @ \ {l}] \in Vars
      BY <1>v
    <2>4. vars' \in Seq(Vars)
      <3> HIDE DEF Vars
      <3> QED BY <1>l, <2>2, <2>3
    <2> QED BY <1>0, <1>7, <2>4 DEF DelListener, CfgTypeOK
  <1>8. CASE LoadFromYaml(t)
    <2>1. PICK doc \in Docs :
            th' = [s \in Threads |->
                IF s # t THEN [th[s] EXCEPT !.alone = s \notin Loading]
                ELSE [Idle EXCEPT !.pc = "load", !.todo = ListAllNodes(doc), !.doc = doc,
                                  !.had = {n \in Names : s_data[n] # 0}, !.alone = Loading = {}]]
      BY <1>8 DEF LoadFromYaml
    <2>2. ListAllNodes(doc) \in Seq(Listed)
      BY ListAllNodesFacts
    <2>3. [Idle EXCEPT !.pc = "load", !.todo = ListAllNodes(doc), !.doc = doc,
                       !.had = {n \in Names : s_data[n] # 0}, !.alone = Loading = {}] \in Work
      BY <1>i, <2>2 DEF Work
    <2>4. \A s \in Threads : [th[s] EXCEPT !.alone = s \notin Loading] \in Work
      BY <1>0 DEF Work
    <2>5. th' \in [Threads -> Work]
      BY <2>1, <2>3, <2>4
    <2>6. /\ loads' = loads + 1 /\ ran' = {}
          /\ UNCHANGED <<s_data, vars, copy, overlap>>
      BY <1>8 DEF LoadFromYaml
    <2>7. loads' \in Nat /\ ran' \subseteq [doc : Docs, had : SUBSET Names]
      BY <1>0, <2>6
    <2> HIDE DEF Vars
    <2> QED BY <1>0, <2>5, <2>6, <2>7 DEF CfgTypeOK, Vars
  <1>9. CASE LoadNext(t)
    <2> DEFINE node == Head(th[t].todo)
               v    == IF node.name \in Names THEN s_data[node.name] ELSE 0
               rest == [th[t] EXCEPT !.todo = Tail(@)]
               same == v = 0 \/ ~Takes(node.name, node.val) \/ vars[v].val = node.val
               go   == [rest EXCEPT !.pc = "notify", !.var = v, !.new = node.val, !.left = vars[v].cbs]
    <2>1. th' = [th EXCEPT ![t] = IF same THEN rest ELSE go]
          /\ overlap' = IF same \/ Busy(v) = {} THEN overlap ELSE overlap \union {v}
      BY <1>9 DEF LoadNext
    <2>2. Tail(th[t].todo) \in Seq(Listed) /\ node.val \in Values
      BY <1>2, <1>9, NextNode, WorkFields DEF LoadNext
    <2>3. rest \in Work
      BY <1>2, <2>2 DEF Work
    <2>4. v \in Nat /\ (v # 0 => v \in DOMAIN vars)
      BY <1>0 DEF MapShape
    <2>5. same \/ go \in Work
      <3> HIDE DEF v, rest, node
      <3>1. v # 0 => vars[v].cbs \in SUBSET Listeners
        BY <2>4, <1>v
      <3> QED BY <2>2, <2>3, <2>4, <3>1 DEF Work
    <2> HIDE DEF same, rest, go, v
    <2>6. th' \in [Threads -> Work] /\ overlap' \subseteq Nat
      BY <1>0, <2>1, <2>3, <2>4, <2>5
    <2> QED BY <1>0, <1>9, <2>6 DEF LoadNext, CfgTypeOK
  <1>10. CASE Notify(t)
    <2> DEFINE l == Min(th[t].left)
    <2>1. th' = [th EXCEPT ![t] = [th[t] EXCEPT !.left = @ \ {l}]] /\ copy' = [copy EXCEPT ![l] = th[t].new]
      BY <1>10 DEF Notify
    <2>2. [th[t] EXCEPT !.left = @ \ {l}] \in Work
      BY <1>2 DEF Work
    <2>3. th[t].new \in Values \union {NoVal}
      BY <1>2, WorkFields
    <2> HIDE DEF l
    <2>4. th' \in [Threads -> Work] /\ copy' \in [Listeners -> Values \union {NoVal}]
      BY <1>0, <2>1, <2>2, <2>3
    <2> QED BY <1>0, <1>10, <2>4 DEF Notify, CfgTypeOK
  <1>11. CASE Unlock(t)
    <2>1. [th[t] EXCEPT !.pc = "store"] \in Work
      BY <1>2 DEF Work
    <2>2. th' \in [Threads -> Work]
      BY <1>0, <1>11, <2>1 DEF Unlock
    <2> QED BY <1>0, <1>11, <2>2 DEF Unlock, CfgTypeOK
  <1>12. CASE Store(t)
    <2> DEFINE v == th[t].var
    <2>1. [th[t] EXCEPT !.pc = "load"] \in Work
      BY <1>2 DEF Work
    <2>2. th' \in [Threads -> Work]
      BY <1>0, <1>12, <2>1 DEF Store
    <2>3. v \in DOMAIN vars /\ th[t].new \in Values
      BY <1>2, <1>12, WorkFields DEF Store, WorkShape
    <2>4. vars' = [vars EXCEPT ![v] = [vars[v] EXCEPT !.val = th[t].new]]
      BY <1>12 DEF Store
    <2>5. [vars[v] EXCEPT !.val = th[t].new] \in Vars
      BY <1>v, <2>3
    <2>6. vars' \in Seq(Vars)
      <3> HIDE DEF Vars, v
      <3> QED BY <1>l, <2>3, <2>4, <2>5
    <2> QED BY <1>0, <1>12, <2>2, <2>6 DEF Store, CfgTypeOK
  <1>13. CASE LoadDone(t)
    <2>1. th' \in [Threads -> Work]
      BY <1>0, <1>i, <1>13 DEF LoadDone
    <2>2. th[t].doc \in Docs /\ th[t].had \in SUBSET Names
      BY <1>2, <1>13, WorkFields DEF LoadDone, WorkShape
    <2>3. ran' \subseteq [doc : Docs, had : SUBSET Names]
      BY <1>0, <1>13, <2>2 DEF LoadDone
    <2> QED BY <1>0, <1>13, <2>1, <2>3 DEF LoadDone, CfgTypeOK
  <1> QED BY <1>1, <1>3, <1>4, <1>5, <1>6, <1>7, <1>8, <1>9, <1>10, <1>11, <1>12, <1>13

-----------------------------------------------------------------------------
(* What each step does, field by field *)

(* The step changes the locals of no other thread. *)
Others(t) == \A s \in Threads \ {t} : th'[s] = th[s]

SameVars == UNCHANGED <<s_data, vars>>

(* The locals of a thread outside of every call. *)
LEMMA IdleFields ==
    /\ Idle.pc = "idle" /\ Idle.name = <<>> /\ Idle.var = 0 /\ Idle.new = NoVal /\ Idle.left = {}
    /\ Idle.todo = <<>> /\ Idle.doc = <<>> /\ Idle.had = {} /\ Idle.alone = TRUE
  BY DEF Idle

(* The types of the variables. *)
LEMMA VarsFields ==
    ASSUME CfgTypeOK
    PROVE  /\ Len(vars) \in Nat /\ DOMAIN vars = 1 .. Len(vars)
           /\ \A v \in DOMAIN vars :
                /\ v \in Nat \ {0}
                /\ vars[v] \in [name : Names, val : Values, cbs : SUBSET Listeners]
                /\ vars[v].name \in Names /\ vars[v].val \in Values /\ vars[v].cbs \subseteq Listeners
  <1> DEFINE Vars == [name : Names, val : Values, cbs : SUBSET Listeners]
  <1>1. vars \in Seq(Vars)
    BY DEF CfgTypeOK
  <1>2. /\ Len(vars) \in Nat /\ DOMAIN vars = 1 .. Len(vars)
        /\ \A v \in DOMAIN vars : v \in Nat \ {0} /\ vars[v] \in Vars
    <2> HIDE DEF Vars
    <2> QED BY <1>1
  <1> QED BY <1>2

(* What the first search of Lookup() does. *)
LEMMA LookupEffect ==
    ASSUME CfgTypeOK, NEW t \in Threads, NEW n \in Names, Lookup(t, n)
    PROVE  /\ th[t].pc = "idle" /\ Others(t) /\ UNCHANGED <<s_data, vars, copy, ran, overlap>>
           /\ th'[t].pc = "create" /\ th'[t].name = n /\ th'[t].doc = <<>> /\ th'[t].had = {}
  <1>1. th' = [th EXCEPT ![t] = [Idle EXCEPT !.pc = "create", !.name = n]]
    BY DEF Lookup
  <1>2. th'[t] = [Idle EXCEPT !.pc = "create", !.name = n] /\ Others(t)
    BY <1>1 DEF CfgTypeOK, Others
  <1>3. th'[t].pc = "create" /\ th'[t].name = n /\ th'[t].doc = <<>> /\ th'[t].had = {}
    BY <1>2 DEF Idle
  <1> QED BY <1>2, <1>3 DEF Lookup

(* What the second search of Lookup() does: nothing, or one more variable  *)
(* under a name that had none.                                             *)
LEMMA CreateEffect ==
    ASSUME CfgTypeOK, WorkShape, NEW t \in Threads, Create(t)
    PROVE  /\ th[t].pc = "create" /\ Others(t) /\ UNCHANGED <<copy, ran, overlap>>
           /\ th'[t] = Idle
           /\ \/ SameVars
              \/ /\ th[t].name \in Names /\ s_data[th[t].name] = 0
                 /\ s_data' = [s_data EXCEPT ![th[t].name] = Len(vars) + 1]
                 /\ DOMAIN vars' = 1 .. (Len(vars) + 1)
                 /\ \A v \in DOMAIN vars : vars'[v] = vars[v]
                 /\ vars'[Len(vars) + 1] = [name |-> th[t].name, val |-> Default, cbs |-> {}]
  <1>1. th'[t] = Idle /\ Others(t)
    BY DEF Create, CfgTypeOK, Others
  <1>2. th[t].pc = "create" /\ UNCHANGED <<copy, ran, overlap>> /\ th[t].name \in Names
    BY DEF Create, WorkShape
  <1>3. CASE SameVars
    BY <1>1, <1>2, <1>3
  <1>4. CASE ~SameVars
    <2> DEFINE Vars == [name : Names, val : Values, cbs : SUBSET Listeners]
               x == [name |-> th[t].name, val |-> Default, cbs |-> {}]
    <2>1. /\ s_data[th[t].name] = 0 /\ s_data' = [s_data EXCEPT ![th[t].name] = Len(vars) + 1]
          /\ vars' = Append(vars, x)
      BY <1>4 DEF Create, SameVars
    <2>2. vars \in Seq(Vars) /\ x \in Vars
      BY <1>2, ConfigAssumption DEF CfgTypeOK
    <2>3. /\ DOMAIN vars' = 1 .. (Len(vars) + 1) /\ \A v \in DOMAIN vars : vars'[v] = vars[v]
          /\ vars'[Len(vars) + 1] = x
      <3> HIDE DEF Vars, x
      <3> QED BY <2>1, <2>2
    <2> QED BY <1>1, <1>2, <2>1, <2>3
  <1> QED BY <1>3, <1>4

(* What getValue() before a subscription does. *)
LEMMA CopyEffect ==
    ASSUME CfgTypeOK, NEW t \in Threads, NEW l \in Listeners, CopyValue(t, l)
    PROVE  /\ th[t].pc = "idle" /\ copy[l] = NoVal /\ Others(t) /\ SameVars /\ UNCHANGED ran
           /\ th'[t].pc = "subscribe" /\ th'[t].left = {l} /\ th'[t].doc = <<>> /\ th'[t].had = {}
           /\ th'[t].var \in DOMAIN vars
           /\ copy' = [copy EXCEPT ![l] = vars[th'[t].var].val]
           /\ overlap' = IF Busy(th'[t].var) = {} THEN overlap ELSE overlap \union {th'[t].var}
  <1>1. PICK v \in DOMAIN vars :
          /\ th' = [th EXCEPT ![t] = [Idle EXCEPT !.pc = "subscribe", !.var = v, !.left = {l}]]
          /\ copy' = [copy EXCEPT ![l] = vars[v].val]
          /\ overlap' = IF Busy(v) = {} THEN overlap ELSE overlap \union {v}
    BY DEF CopyValue
  <1>2. th'[t] = [Idle EXCEPT !.pc = "subscribe", !.var = v, !.left = {l}] /\ Others(t)
    BY <1>1 DEF CfgTypeOK, Others
  <1>3. th'[t].pc = "subscribe" /\ th'[t].left = {l} /\ th'[t].doc = <<>> /\ th'[t].had = {} /\ th'[t].var = v
    BY <1>2 DEF Idle
  <1> QED BY <1>1, <1>2, <1>3 DEF CopyValue, SameVars

(* What addListener() does. *)
LEMMA AddEffect ==
    ASSUME CfgTypeOK, WorkShape, NEW t \in Threads, AddListener(t)
    PROVE  /\ th[t].pc = "subscribe" /\ Others(t) /\ UNCHANGED <<s_data, copy, ran, overlap>>
           /\ th'[t] = Idle /\ th[t].var \in DOMAIN vars
           /\ DOMAIN vars' = DOMAIN vars
           /\ \A v \in DOMAIN vars \ {th[t].var} : vars'[v] = vars[v]
           /\ vars'[th[t].var].name = vars[th[t].var].name
           /\ vars'[th[t].var].val = vars[th[t].var].val
           /\ vars'[th[t].var].cbs = vars[th[t].var].cbs \union th[t].left
  <1>1. th'[t] = Idle /\ Others(t) /\ th[t].var \in DOMAIN vars
    BY DEF AddListener, CfgTypeOK, Others, WorkShape
  <1>2. vars[th[t].var] \in [name : Names, val : Values, cbs : SUBSET Listeners]
    BY <1>1, VarsFields
  <1>3. vars' = [vars EXCEPT ![th[t].var] = [vars[th[t].var] EXCEPT !.cbs = @ \union th[t].left]]
    BY DEF AddListener
  <1> QED BY <1>1, <1>2, <1>3 DEF AddListener

(* What delListener() does, to a variable nobody notifies for. *)
LEMMA DelEffect ==
    ASSUME CfgTypeOK, NEW t \in Threads, DelListener(t)
    PROVE  /\ UNCHANGED <<s_data, copy, th, ran, overlap>> /\ DOMAIN vars' = DOMAIN vars
           /\ \E d \in DOMAIN vars :
                /\ Readers(d) = {}
                /\ \A v \in DOMAIN vars \ {d} : vars'[v] = vars[v]
                /\ vars'[d].name = vars[d].name /\ vars'[d].val = vars[d].val
                /\ vars'[d].cbs \subseteq vars[d].cbs
  <1>1. PICK d \in DOMAIN vars : \E l \in vars[d].cbs :
          Readers(d) = {} /\ vars' = [vars EXCEPT ![d].cbs = @ \ {l}]
    BY DEF DelListener
  <1>2. PICK l \in vars[d].cbs :
          Readers(d) = {} /\ vars' = [vars EXCEPT ![d] = [vars[d] EXCEPT !.cbs = @ \ {l}]]
    BY <1>1
  <1>3. vars[d] \in [name : Names, val : Values, cbs : SUBSET Listeners]
    BY VarsFields
  <1>4. /\ \A v \in DOMAIN vars \ {d} : vars'[v] = vars[v]
        /\ vars'[d].name = vars[d].name /\ vars'[d].val = vars[d].val
        /\ vars'[d].cbs \subseteq vars[d].cbs /\ DOMAIN vars' = DOMAIN vars
    BY <1>2, <1>3
  <1> QED BY <1>2, <1>4 DEF DelListener

(* What the beginning of a load does. *)
LEMMA YamlEffect ==
    ASSUME CfgTypeOK, NEW t \in Threads, LoadFromYaml(t)
    PROVE  /\ th[t].pc = "idle" /\ SameVars /\ UNCHANGED <<copy, overlap>> /\ ran' = {}
           /\ \A s \in Threads \ {t} :
                /\ th'[s].pc = th[s].pc /\ th'[s].name = th[s].name /\ th'[s].var = th[s].var
                /\ th'[s].new = th[s].new /\ th'[s].left = th[s].left /\ th'[s].todo = th[s].todo
                /\ th'[s].doc = th[s].doc /\ th'[s].had = th[s].had /\ th'[s].alone = (s \notin Loading)
           /\ th'[t].pc = "load" /\ th'[t].doc \in Docs /\ th'[t].todo = ListAllNodes(th'[t].doc)
           /\ th'[t].had = {n \in Names : s_data[n] # 0} /\ th'[t].alone = (Loading = {})
  <1>1. PICK doc \in Docs :
            th' = [s \in Threads |->
                IF s # t THEN [th[s] EXCEPT !.alone = s \notin Loading]
                ELSE [Idle EXCEPT !.pc = "load", !.todo = ListAllNodes(doc), !.doc = doc,
                                  !.had = {n \in Names : s_data[n] # 0}, !.alone = Loading = {}]]
    BY DEF LoadFromYaml
  <1>2. th'[t] = [Idle EXCEPT !.pc = "load", !.todo = ListAllNodes(doc), !.doc = doc,
                              !.had = {n \in Names : s_data[n] # 0}, !.alone = Loading = {}]
    BY <1>1
  <1>3. th'[t].pc = "load" /\ th'[t].doc = doc /\ th'[t].todo = ListAllNodes(doc)
        /\ th'[t].had = {n \in Names : s_data[n] # 0} /\ th'[t].alone = (Loading = {})
    BY <1>2 DEF Idle
  <1>4. ASSUME NEW s \in Threads \ {t}
        PROVE  /\ th'[s].pc = th[s].pc /\ th'[s].name = th[s].name /\ th'[s].var = th[s].var
               /\ th'[s].new = th[s].new /\ th'[s].left = th[s].left /\ th'[s].todo = th[s].todo
               /\ th'[s].doc = th[s].doc /\ th'[s].had = th[s].had /\ th'[s].alone = (s \notin Loading)
    <2>1. th'[s] = [th[s] EXCEPT !.alone = s \notin Loading]
      BY <1>1
    <2>2. th[s] \in Work
      BY DEF CfgTypeOK
    <2> QED BY <2>1, <2>2 DEF Work
  <1> QED BY <1>3, <1>4 DEF LoadFromYaml, SameVars

(* What the load does with the next node: nothing, or it begins setValue() *)
(* on the variable of that name.                                           *)
LEMMA LoadNextEffect ==
    ASSUME CfgTypeOK, MapShape, NEW t \in Threads, LoadNext(t)
    PROVE  /\ th[t].pc = "load" /\ th[t].todo # <<>> /\ Others(t) /\ SameVars /\ UNCHANGED <<copy, ran>>
           /\ th'[t].todo = Tail(th[t].todo) /\ th'[t].doc = th[t].doc /\ th'[t].had = th[t].had
           /\ th'[t].alone = th[t].alone
           /\ \/ /\ th'[t].pc = "load" /\ overlap' = overlap
                 /\ \/ Head(th[t].todo).name \notin Names
                    \/ s_data[Head(th[t].todo).name] = 0
                    \/ ~Takes(Head(th[t].todo).name, Head(th[t].todo).val)
                    \/ vars[s_data[Head(th[t].todo).name]].val = Head(th[t].todo).val
              \/ /\ th'[t].pc = "notify" /\ th'[t].var \in DOMAIN vars
                 /\ Head(th[t].todo).name \in Names /\ th'[t].var = s_data[Head(th[t].todo).name]
                 /\ th'[t].new = Head(th[t].todo).val /\ th'[t].new # NoVal
                 /\ Takes(Head(th[t].todo).name, Head(th[t].todo).val)
                 /\ th'[t].left = vars[th'[t].var].cbs
                 /\ overlap' = IF Busy(th'[t].var) = {} THEN overlap ELSE overlap \union {th'[t].var}
  <1> DEFINE node == Head(th[t].todo)
             v    == IF node.name \in Names THEN s_data[node.name] ELSE 0
             rest == [th[t] EXCEPT !.todo = Tail(@)]
             same == v = 0 \/ ~Takes(node.name, node.val) \/ vars[v].val = node.val
             go   == [rest EXCEPT !.pc = "notify", !.var = v, !.new = node.val, !.left = vars[v].cbs]
  <1>1. /\ th[t].pc = "load" /\ th[t].todo # <<>> /\ UNCHANGED <<s_data, vars, copy, ran>>
        /\ th' = [th EXCEPT ![t] = IF same THEN rest ELSE go]
        /\ overlap' = IF same \/ Busy(v) = {} THEN overlap ELSE overlap \union {v}
    BY DEF LoadNext
  <1>2. th'[t] = (IF same THEN rest ELSE go) /\ Others(t)
    <2> HIDE DEF same, rest, go
    <2> QED BY <1>1 DEF CfgTypeOK, Others
  <1>3. th[t] \in Work
    BY DEF CfgTypeOK
  <1>4. /\ rest.todo = Tail(th[t].todo) /\ rest.doc = th[t].doc /\ rest.had = th[t].had
        /\ rest.alone = th[t].alone /\ rest.pc = th[t].pc
        /\ DOMAIN rest = {"pc", "name", "var", "new", "left", "todo", "doc", "had", "alone"}
    BY <1>3 DEF Work
  <1>5. /\ go.pc = "notify" /\ go.var = v /\ go.new = node.val /\ go.left = vars[v].cbs
        /\ go.todo = rest.todo /\ go.doc = rest.doc /\ go.had = rest.had /\ go.alone = rest.alone
    <2> HIDE DEF rest, v, node
    <2> QED BY <1>4
  <1>6. CASE same
    <2>1. \/ node.name \notin Names \/ s_data[node.name] = 0 \/ ~Takes(node.name, node.val)
          \/ vars[s_data[node.name]].val = node.val
      BY <1>6
    <2> HIDE DEF same, rest, go, v, node
    <2>2. th'[t] = rest /\ overlap' = overlap
      BY <1>1, <1>2, <1>6
    <2> QED BY <1>1, <1>2, <1>4, <2>1, <2>2 DEF SameVars, node
  <1>7. CASE ~same
    <2>1. node.name \in Names /\ v = s_data[node.name] /\ v # 0 /\ Takes(node.name, node.val)
      BY <1>7
    <2>4. node.val # NoVal
      BY <1>1, <1>3, NextNode, WorkFields
    <2>2. v \in DOMAIN vars
      BY <2>1 DEF MapShape
    <2> HIDE DEF same, rest, go, v, node
    <2>3. th'[t] = go /\ overlap' = IF Busy(v) = {} THEN overlap ELSE overlap \union {v}
      BY <1>1, <1>2, <1>7
    <2> QED BY <1>1, <1>2, <1>4, <1>5, <2>1, <2>2, <2>3, <2>4 DEF SameVars, node
  <1> QED BY <1>6, <1>7

(* What the call of one listener does. *)
LEMMA NotifyEffect ==
    ASSUME CfgTypeOK, WorkShape, NEW t \in Threads, Notify(t)
    PROVE  /\ th[t].pc = "notify" /\ Others(t) /\ SameVars /\ UNCHANGED <<ran, overlap>>
           /\ th'[t].pc = "notify" /\ th'[t].var = th[t].var /\ th'[t].new = th[t].new
           /\ th'[t].todo = th[t].todo /\ th'[t].doc = th[t].doc /\ th'[t].had = th[t].had
           /\ th'[t].alone = th[t].alone
           /\ \E l \in th[t].left :
                th'[t].left = th[t].left \ {l} /\ copy' = [copy EXCEPT ![l] = th[t].new]
  <1> DEFINE l == Min(th[t].left)
  <1>1. /\ th[t].pc = "notify" /\ th[t].left # {} /\ SameVars /\ UNCHANGED <<ran, overlap>>
        /\ copy' = [copy EXCEPT ![l] = th[t].new]
        /\ th' = [th EXCEPT ![t] = [th[t] EXCEPT !.left = @ \ {l}]]
    BY DEF Notify, SameVars
  <1>2. th[t] \in Work /\ th[t].left \subseteq Listeners
    BY WorkFields DEF CfgTypeOK
  <1>3. l \in th[t].left
    BY <1>1, <1>2, MinOfNaturals, ConfigAssumption
  <1> HIDE DEF l
  <1>4. th'[t] = [th[t] EXCEPT !.left = @ \ {l}] /\ Others(t)
    BY <1>1 DEF CfgTypeOK, Others
  <1>5. /\ th'[t].pc = th[t].pc /\ th'[t].var = th[t].var /\ th'[t].new = th[t].new
        /\ th'[t].todo = th[t].todo /\ th'[t].doc = th[t].doc /\ th'[t].had = th[t].had
        /\ th'[t].alone = th[t].alone /\ th'[t].left = th[t].left \ {l}
    BY <1>2, <1>4 DEF Work
  <1> QED BY <1>1, <1>3, <1>4, <1>5

(* What the release of the read lock does. *)
LEMMA UnlockEffect ==
    ASSUME CfgTypeOK, NEW t \in Threads, Unlock(t)
    PROVE  /\ th[t].pc = "notify" /\ th[t].left = {} /\ Others(t) /\ SameVars /\ UNCHANGED <<copy, ran, overlap>>
           /\ th'[t].pc = "store" /\ th'[t].var = th[t].var /\ th'[t].new = th[t].new
           /\ th'[t].todo = th[t].todo /\ th'[t].doc = th[t].doc /\ th'[t].had = th[t].had
           /\ th'[t].alone = th[t].alone
  <1>1. th' = [th EXCEPT ![t] = [th[t] EXCEPT !.pc = "store"]] /\ th[t] \in Work
    BY DEF Unlock, CfgTypeOK
  <1>2. th'[t] = [th[t] EXCEPT !.pc = "store"] /\ Others(t)
    BY <1>1 DEF CfgTypeOK, Others
  <1> QED BY <1>1, <1>2 DEF Unlock, Work, SameVars

(* What the store of the new value does. *)
LEMMA StoreEffect ==
    ASSUME CfgTypeOK, WorkShape, NEW t \in Threads, Store(t)
    PROVE  /\ th[t].pc = "store" /\ Others(t) /\ UNCHANGED <<s_data, copy, ran, overlap>>
           /\ th'[t].pc = "load" /\ th'[t].todo = th[t].todo /\ th'[t].doc = th[t].doc
           /\ th'[t].had = th[t].had /\ th'[t].alone = th[t].alone
           /\ th[t].var \in DOMAIN vars /\ DOMAIN vars' = DOMAIN vars
           /\ \A v \in DOMAIN vars \ {th[t].var} : vars'[v] = vars[v]
           /\ vars'[th[t].var].name = vars[th[t].var].name
           /\ vars'[th[t].var].val = th[t].new
           /\ vars'[th[t].var].cbs = vars[th[t].var].cbs
  <1>1. th' = [th EXCEPT ![t] = [th[t] EXCEPT !.pc = "load"]] /\ th[t] \in Work
        /\ th[t].var \in DOMAIN vars
    BY DEF Store, CfgTypeOK, WorkShape
  <1>2. th'[t] = [th[t] EXCEPT !.pc = "load"] /\ Others(t)
    BY <1>1 DEF CfgTypeOK, Others
  <1>3. th'[t].pc = "load" /\ th'[t].todo = th[t].todo /\ th'[t].doc = th[t].doc
        /\ th'[t].had = th[t].had /\ th'[t].alone = th[t].alone
    BY <1>1, <1>2 DEF Work
  <1>4. vars[th[t].var] \in [name : Names, val : Values, cbs : SUBSET Listeners]
    BY <1>1, VarsFields
  <1>5. vars' = [vars EXCEPT ![th[t].var] = [vars[th[t].var] EXCEPT !.val = th[t].new]]
    BY DEF Store
  <1>6. /\ DOMAIN vars' = DOMAIN vars /\ \A v \in DOMAIN vars \ {th[t].var} : vars'[v] = vars[v]
        /\ vars'[th[t].var].name = vars[th[t].var].name
        /\ vars'[th[t].var].val = th[t].new
        /\ vars'[th[t].var].cbs = vars[th[t].var].cbs
    BY <1>1, <1>4, <1>5
  <1> QED BY <1>1, <1>2, <1>3, <1>6 DEF Store

(* What the end of a load does. *)
LEMMA DoneEffect ==
    ASSUME CfgTypeOK, NEW t \in Threads, LoadDone(t)
    PROVE  /\ th[t].pc = "load" /\ th[t].todo = <<>> /\ Others(t) /\ SameVars /\ UNCHANGED <<copy, overlap>>
           /\ th'[t] = Idle
           /\ ran' = IF th[t].alone THEN {[doc |-> th[t].doc, had |-> th[t].had]} ELSE {}
  BY DEF LoadDone, CfgTypeOK, Others, SameVars

-----------------------------------------------------------------------------
(* The map, the threads and the variables they work on *)

(* A step of thread t. *)
Acts(t) ==
    \/ \E n \in Names : Lookup(t, n)
    \/ Create(t)
    \/ \E l \in Listeners : CopyValue(t, l)
    \/ AddListener(t) \/ DelListener(t)
    \/ LoadFromYaml(t) \/ LoadNext(t) \/ Notify(t) \/ Unlock(t) \/ Store(t) \/ LoadDone(t)

(* A variable is created under the write lock only if its name has none,   *)
(* so the map and the variables keep pointing at each other.               *)
LEMMA MapNext ==
    ASSUME CfgTypeOK, MapShape, WorkShape, NEW t \in Threads, Acts(t)
    PROVE  MapShape'
  <1>0. \/ SameVars \/ Create(t) \/ AddListener(t) \/ DelListener(t) \/ Store(t)
    BY DEF Acts, Lookup, CopyValue, LoadFromYaml, LoadNext, Notify, Unlock, LoadDone, SameVars
  <1>1. CASE SameVars
    BY <1>1 DEF SameVars, MapShape
  <1>2. CASE Create(t) /\ ~SameVars
    <2> DEFINE n == th[t].name
               k == Len(vars) + 1
    <2>1. /\ n \in Names /\ s_data[n] = 0 /\ s_data' = [s_data EXCEPT ![n] = k]
          /\ DOMAIN vars' = 1 .. k /\ \A v \in DOMAIN vars : vars'[v] = vars[v]
          /\ vars'[k].name = n
      <3>1. /\ n \in Names /\ s_data[n] = 0 /\ s_data' = [s_data EXCEPT ![n] = k]
            /\ DOMAIN vars' = 1 .. k /\ \A v \in DOMAIN vars : vars'[v] = vars[v]
            /\ vars'[k] = [name |-> n, val |-> Default, cbs |-> {}]
        BY <1>2, CreateEffect, Zenon
      <3> QED BY <3>1
    <2>2. Len(vars) \in Nat /\ DOMAIN vars = 1 .. Len(vars) /\ \A v \in DOMAIN vars : vars[v].name \in Names /\ v # 0
      BY VarsFields
    <2>3. s_data \in [Names -> Nat]
      BY DEF CfgTypeOK
    <2> HIDE DEF n
    <2>4. \A v \in DOMAIN vars' : v \in DOMAIN vars \/ v = k
      BY <2>1, <2>2
    <2>5. \A v \in DOMAIN vars : v \in DOMAIN vars' /\ vars[v].name # n
      BY <2>1, <2>2 DEF MapShape
    <2>6. \A v \in DOMAIN vars' : s_data'[vars'[v].name] = v
      BY <2>1, <2>2, <2>3, <2>4, <2>5 DEF MapShape
    <2>7. k \in DOMAIN vars'
      BY <2>1, <2>2
    <2>8. \A m \in Names : s_data'[m] # 0 => s_data'[m] \in DOMAIN vars' /\ vars'[s_data'[m]].name = m
      <3> HIDE DEF k
      <3> QED BY <2>1, <2>3, <2>5, <2>7 DEF MapShape
    <2> QED BY <2>6, <2>8 DEF MapShape
  <1>3. ASSUME UNCHANGED s_data, DOMAIN vars' = DOMAIN vars,
               \A v \in DOMAIN vars : vars'[v].name = vars[v].name
        PROVE  MapShape'
    BY <1>3 DEF MapShape
  <1>4. CASE AddListener(t)
    BY <1>3, <1>4, AddEffect
  <1>5. CASE DelListener(t)
    BY <1>3, <1>5, DelEffect
  <1>6. CASE Store(t)
    BY <1>3, <1>6, StoreEffect
  <1> QED BY <1>0, <1>1, <1>2, <1>4, <1>5, <1>6

\* WorkShape of one thread
Shape(s) ==
    /\ th[s].pc = "create" => th[s].name \in Names
    /\ th[s].pc \in {"notify", "store", "subscribe"} => th[s].var \in DOMAIN vars
    /\ th[s].pc \in {"notify", "store"} => th[s].new # NoVal
    /\ th[s].pc = "notify" => th[s].left \subseteq vars[th[s].var].cbs
    /\ th[s].pc \in {"load", "notify", "store"} <=> th[s].doc # <<>>

(* Variables are never removed, and nobody unsubscribes from one while its *)
(* listeners are being called.                                             *)
LEMMA WorkNext ==
    ASSUME CfgTypeOK, MapShape, WorkShape, NEW t \in Threads, Acts(t)
    PROVE  WorkShape'
  <1>0. \A s \in Threads : Shape(s)
    BY DEF WorkShape, Shape
  <1> SUFFICES ASSUME NEW s \in Threads PROVE Shape(s)'
    BY DEF WorkShape, Shape
  <1>s. Shape(s) /\ Shape(t)
    BY <1>0
  <1>k. ASSUME s # t, th'[s] = th[s], DOMAIN vars \subseteq DOMAIN vars',
               \A v \in DOMAIN vars : vars[v].cbs \subseteq vars'[v].cbs
        PROVE  Shape(s)'
    BY <1>k, <1>s DEF Shape
  <1>i. ASSUME th'[s] = Idle PROVE Shape(s)'
    BY <1>i, IdleFields DEF Shape
  <1>1. ASSUME NEW n \in Names, Lookup(t, n) PROVE Shape(s)'
    <2>1. CASE s = t
      BY <1>1, <2>1, LookupEffect DEF Shape
    <2> QED BY <1>1, <1>k, <2>1, LookupEffect DEF Others
  <1>2. CASE Create(t)
    <2>1. DOMAIN vars \subseteq DOMAIN vars' /\ \A v \in DOMAIN vars : vars[v].cbs \subseteq vars'[v].cbs
      <3>1. CASE SameVars
        BY <3>1 DEF SameVars
      <3>2. CASE ~SameVars
        <4>1. DOMAIN vars' = 1 .. (Len(vars) + 1) /\ \A v \in DOMAIN vars : vars'[v] = vars[v]
          BY <1>2, <3>2, CreateEffect, Zenon
        <4> QED BY <4>1, VarsFields
      <3> QED BY <3>1, <3>2
    <2> QED BY <1>2, <1>i, <1>k, <2>1, CreateEffect DEF Others
  <1>3. ASSUME NEW l \in Listeners, CopyValue(t, l) PROVE Shape(s)'
    <2>1. CASE s = t
      BY <1>3, <2>1, CopyEffect DEF Shape, SameVars
    <2> QED BY <1>3, <1>k, <2>1, CopyEffect DEF Others, SameVars
  <1>4. CASE AddListener(t)
    BY <1>4, <1>i, <1>k, AddEffect DEF Others
  <1>5. CASE DelListener(t)
    <2>1. PICK d \in DOMAIN vars :
                /\ Readers(d) = {}
                /\ \A v \in DOMAIN vars \ {d} : vars'[v] = vars[v]
      BY <1>5, DelEffect
    <2>2. th[s].pc = "notify" => th[s].var # d
      BY <2>1 DEF Readers
    <2> QED BY <1>5, <1>s, <2>1, <2>2, DelEffect DEF Shape
  <1>6. CASE LoadFromYaml(t)
    <2>1. CASE s = t
      BY <1>6, <2>1, YamlEffect, DocsAssumption DEF Shape, IsFile
    <2> QED BY <1>6, <1>s, <2>1, YamlEffect DEF Shape, SameVars
  <1>7. CASE LoadNext(t)
    <2>1. CASE s = t
      BY <1>7, <1>s, <2>1, LoadNextEffect DEF Shape, SameVars
    <2> QED BY <1>7, <1>k, <2>1, LoadNextEffect DEF Others, SameVars
  <1>8. CASE Notify(t)
    <2>1. CASE s = t
      BY <1>8, <1>s, <2>1, NotifyEffect DEF Shape, SameVars
    <2> QED BY <1>8, <1>k, <2>1, NotifyEffect DEF Others, SameVars
  <1>9. CASE Unlock(t)
    <2>1. CASE s = t
      BY <1>9, <1>s, <2>1, UnlockEffect DEF Shape, SameVars
    <2> QED BY <1>9, <1>k, <2>1, UnlockEffect DEF Others, SameVars
  <1>10. CASE Store(t)
    <2>1. CASE s = t
      BY <1>10, <1>s, <2>1, StoreEffect DEF Shape
    <2>2. \A v \in DOMAIN vars : vars[v].cbs \subseteq vars'[v].cbs
      BY <1>10, StoreEffect
    <2> QED BY <1>10, <1>k, <2>1, <2>2, StoreEffect DEF Others
  <1>11. CASE LoadDone(t)
    BY <1>11, <1>i, <1>k, DoneEffect DEF Others, SameVars
  <1> QED BY <1>1, <1>2, <1>3, <1>4, <1>5, <1>6, <1>7, <1>8, <1>9, <1>10, <1>11 DEF Acts

(* A second call on a variable is recorded as an overlap. *)
LEMMA BusyNext ==
    ASSUME CfgTypeOK, MapShape, WorkShape, OneBusy, NEW t \in Threads, Acts(t)
    PROVE  OneBusy'
  <1> DEFINE On(s, v) == th[s].pc \in {"notify", "store", "subscribe"} /\ th[s].var = v
  <1>0. \A v \in DOMAIN vars \ overlap : \A s, u \in Threads : On(s, v) /\ On(u, v) => s = u
    BY DEF OneBusy, Busy
  <1>a. ASSUME UNCHANGED overlap,
               \A s \in Threads, v \in DOMAIN vars' : On(s, v)' => On(s, v) /\ v \in DOMAIN vars
        PROVE  OneBusy'
    BY <1>0, <1>a DEF OneBusy, Busy
  <1>b. ASSUME Others(t), SameVars, NEW v \in DOMAIN vars, th'[t].var = v, ~On(t, v),
               overlap' = IF Busy(v) = {} THEN overlap ELSE overlap \union {v}
        PROVE  OneBusy'
    <2> SUFFICES ASSUME NEW w \in DOMAIN vars, w \notin overlap', NEW s \in Threads, NEW u \in Threads,
                        On(s, w)', On(u, w)'
                 PROVE  s = u
      BY <1>b DEF OneBusy, Busy, SameVars
    <2>1. w \notin overlap
      BY <1>b
    <2>2. CASE w = v
      <3>1. Busy(v) = {}
        BY <1>b, <2>2
      <3>2. \A x \in Threads : x # t => ~On(x, v)'
        BY <1>b, <3>1 DEF Busy, Others
      <3> QED BY <2>2, <3>2
    <2>3. CASE w # v
      <3>1. s # t /\ u # t
        BY <1>b, <2>3
      <3>2. On(s, w) /\ On(u, w)
        BY <1>b, <3>1 DEF Others
      <3> QED BY <1>0, <2>1, <3>2
    <2> QED BY <2>2, <2>3
  <1>w. \A s \in Threads : th[s].pc \in {"notify", "store", "subscribe"} => th[s].var \in DOMAIN vars
    BY DEF WorkShape
  <1>1. ASSUME NEW n \in Names, Lookup(t, n) PROVE OneBusy'
    <2>1. \A s \in Threads : s # t => th'[s] = th[s]
      BY <1>1, LookupEffect DEF Others
    <2> QED BY <1>1, <1>a, <1>w, <2>1, LookupEffect
  <1>2. CASE Create(t)
    <2>1. \A s \in Threads : s # t => th'[s] = th[s]
      BY <1>2, CreateEffect DEF Others
    <2>2. th'[t].pc = "idle" /\ UNCHANGED overlap
      BY <1>2, CreateEffect, IdleFields
    <2> QED BY <1>a, <1>w, <2>1, <2>2
  <1>3. ASSUME NEW l \in Listeners, CopyValue(t, l) PROVE OneBusy'
    <2>1. ~On(t, th'[t].var)
      BY <1>3, CopyEffect
    <2> HIDE DEF On
    <2> QED BY <1>3, <1>b, <2>1, CopyEffect
  <1>4. CASE AddListener(t)
    <2>1. \A s \in Threads : s # t => th'[s] = th[s]
      BY <1>4, AddEffect DEF Others
    <2>2. th'[t].pc = "idle" /\ UNCHANGED overlap
      BY <1>4, AddEffect, IdleFields
    <2> QED BY <1>a, <1>w, <2>1, <2>2
  <1>5. CASE DelListener(t)
    BY <1>5, <1>a, <1>w, DelEffect
  <1>6. CASE LoadFromYaml(t)
    <2>1. \A s \in Threads : s # t => th'[s].pc = th[s].pc /\ th'[s].var = th[s].var
      BY <1>6, YamlEffect
    <2>2. th'[t].pc = "load" /\ UNCHANGED overlap
      BY <1>6, YamlEffect
    <2> QED BY <1>a, <1>w, <2>1, <2>2
  <1>7. CASE LoadNext(t)
    <2>1. CASE th'[t].pc = "load"
      <3>1. \A s \in Threads : s # t => th'[s] = th[s]
        BY <1>7, LoadNextEffect DEF Others
      <3>2. UNCHANGED overlap
        BY <1>7, <2>1, LoadNextEffect
      <3> QED BY <1>a, <1>w, <2>1, <3>1, <3>2
    <2>2. CASE th'[t].pc # "load"
      <3>1. ~On(t, th'[t].var)
        BY <1>7, LoadNextEffect
      <3>2. th'[t].var \in DOMAIN vars
            /\ overlap' = IF Busy(th'[t].var) = {} THEN overlap ELSE overlap \union {th'[t].var}
        BY <1>7, <2>2, LoadNextEffect
      <3> HIDE DEF On
      <3> QED BY <1>7, <1>b, <3>1, <3>2, LoadNextEffect
    <2> QED BY <2>1, <2>2
  <1>8. CASE Notify(t)
    <2>1. \A s \in Threads : s # t => th'[s] = th[s]
      BY <1>8, NotifyEffect DEF Others
    <2>2. th'[t].pc = th[t].pc /\ th'[t].var = th[t].var /\ UNCHANGED overlap
      BY <1>8, NotifyEffect
    <2> QED BY <1>a, <1>w, <2>1, <2>2
  <1>9. CASE Unlock(t)
    <2>1. \A s \in Threads : s # t => th'[s] = th[s]
      BY <1>9, UnlockEffect DEF Others
    <2>2. th[t].pc = "notify" /\ th'[t].var = th[t].var /\ UNCHANGED overlap
      BY <1>9, UnlockEffect
    <2> QED BY <1>a, <1>w, <2>1, <2>2
  <1>10. CASE Store(t)
    <2>1. \A s \in Threads : s # t => th'[s] = th[s]
      BY <1>10, StoreEffect DEF Others
    <2>2. th'[t].pc = "load" /\ UNCHANGED overlap
      BY <1>10, StoreEffect
    <2> QED BY <1>a, <1>w, <2>1, <2>2
  <1>11. CASE LoadDone(t)
    <2>1. \A s \in Threads : s # t => th'[s] = th[s]
      BY <1>11, DoneEffect DEF Others
    <2>2. th'[t].pc = "idle" /\ UNCHANGED overlap
      BY <1>11, DoneEffect, IdleFields
    <2> QED BY <1>a, <1>w, <2>1, <2>2
  <1> QED BY <1>1, <1>2, <1>3, <1>4, <1>5, <1>6, <1>7, <1>8, <1>9, <1>10, <1>11 DEF Acts

-----------------------------------------------------------------------------
(* Listeners *)

(* A listener subscribes once: only addListener() after a copy gives it a  *)
(* variable.                                                               *)
LEMMA OwnerNext ==
    ASSUME CfgTypeOK, MapShape, WorkShape, OneOwner, NEW t \in Threads, Acts(t)
    PROVE  OneOwner'
  <1>a. ASSUME \A l \in Listeners : copy[l] # NoVal => copy'[l] # NoVal,
               \A l \in Listeners : \A v \in DOMAIN vars' : Owns(v, l)' => v \in DOMAIN vars /\ Owns(v, l)
        PROVE  OneOwner'
    <2> SUFFICES ASSUME NEW l \in Listeners, NEW v \in DOMAIN vars', Owns(v, l)'
                 PROVE  copy'[l] # NoVal /\ \A w \in DOMAIN vars' : Owns(w, l)' => w = v
      BY DEF OneOwner
    <2> QED BY <1>a DEF OneOwner
  <1>b. ASSUME \A l \in Listeners : copy[l] # NoVal => copy'[l] # NoVal,
               DOMAIN vars' = DOMAIN vars, \A v \in DOMAIN vars : vars'[v].cbs \subseteq vars[v].cbs,
               \A s \in Threads : th'[s].pc = "subscribe" =>
                  th[s].pc = "subscribe" /\ th[s].var = th'[s].var /\ th[s].left = th'[s].left
        PROVE  OneOwner'
    <2>1. \A l \in Listeners : \A v \in DOMAIN vars' : Owns(v, l)' => v \in DOMAIN vars /\ Owns(v, l)
      BY <1>b DEF Owns
    <2> QED BY <1>a, <1>b, <2>1
  <1>w. \A s \in Threads : th[s].pc = "subscribe" => th[s].var \in DOMAIN vars
    BY DEF WorkShape
  <1>1. ASSUME NEW n \in Names, Lookup(t, n) PROVE OneOwner'
    <2>1. \A s \in Threads : s # t => th'[s] = th[s]
      BY <1>1, LookupEffect DEF Others
    <2> QED BY <1>1, <1>b, <2>1, LookupEffect
  <1>2. CASE Create(t)
    <2>1. \A s \in Threads : s # t => th'[s] = th[s]
      BY <1>2, CreateEffect DEF Others
    <2>2. th'[t].pc = "idle" /\ UNCHANGED copy
      BY <1>2, CreateEffect, IdleFields
    <2>3. CASE SameVars
      BY <1>b, <2>1, <2>2, <2>3 DEF SameVars
    <2>4. CASE ~SameVars
      <3>1. /\ DOMAIN vars' = 1 .. (Len(vars) + 1) /\ \A v \in DOMAIN vars : vars'[v] = vars[v]
            /\ vars'[Len(vars) + 1] = [name |-> th[t].name, val |-> Default, cbs |-> {}]
        BY <1>2, <2>4, CreateEffect, Zenon
      <3>2. vars'[Len(vars) + 1].cbs = {}
        BY <3>1
      <3>3. \A v \in DOMAIN vars' : v \in DOMAIN vars \/ v = Len(vars) + 1
        BY <3>1, VarsFields
      <3>4. \A l \in Listeners : \A v \in DOMAIN vars' : Owns(v, l)' => v \in DOMAIN vars /\ Owns(v, l)
        BY <1>w, <2>1, <2>2, <3>1, <3>2, <3>3 DEF Owns
      <3> QED BY <1>a, <2>2, <3>4
    <2> QED BY <2>3, <2>4
  <1>3. ASSUME NEW c \in Listeners, CopyValue(t, c) PROVE OneOwner'
    <2> DEFINE d == th'[t].var
    <2>1. \A s \in Threads : s # t => th'[s] = th[s]
      BY <1>3, CopyEffect DEF Others
    <2>2. /\ copy[c] = NoVal /\ SameVars /\ th'[t].pc = "subscribe" /\ th'[t].left = {c} /\ d \in DOMAIN vars
          /\ copy' = [copy EXCEPT ![c] = vars[d].val]
      BY <1>3, CopyEffect
    <2>3. vars[d].val # NoVal
      BY <2>2, VarsFields, ConfigAssumption
    <2>4. \A l \in Listeners : copy'[l] = IF l = c THEN vars[d].val ELSE copy[l]
      BY <2>2 DEF CfgTypeOK
    <2> HIDE DEF d
    <2>5. \A v \in DOMAIN vars : ~Owns(v, c)
      BY <2>2 DEF OneOwner
    <2>6. \A l \in Listeners \ {c} : \A v \in DOMAIN vars : Owns(v, l)' => Owns(v, l)
      BY <2>1, <2>2 DEF Owns, SameVars
    <2>7. \A v \in DOMAIN vars : Owns(v, c)' => v = d
      BY <2>1, <2>2, <2>5 DEF Owns, SameVars, d
    <2>8. DOMAIN vars' = DOMAIN vars
      BY <2>2 DEF SameVars
    <2> SUFFICES ASSUME NEW l \in Listeners, NEW v \in DOMAIN vars, Owns(v, l)'
                 PROVE  copy'[l] # NoVal /\ \A w \in DOMAIN vars : Owns(w, l)' => w = v
      BY <2>8 DEF OneOwner
    <2>9. CASE l = c
      BY <2>3, <2>4, <2>7, <2>9
    <2>10. CASE l # c
      BY <2>4, <2>6, <2>10 DEF OneOwner
    <2> QED BY <2>9, <2>10
  <1>4. CASE AddListener(t)
    <2>1. \A s \in Threads : s # t => th'[s] = th[s]
      BY <1>4, AddEffect DEF Others
    <2>2. th'[t].pc = "idle" /\ UNCHANGED copy
      BY <1>4, AddEffect, IdleFields
    <2>3. /\ DOMAIN vars' = DOMAIN vars /\ th[t].pc = "subscribe"
          /\ \A v \in DOMAIN vars : v # th[t].var => vars'[v].cbs = vars[v].cbs
          /\ vars'[th[t].var].cbs = vars[th[t].var].cbs \union th[t].left
      BY <1>4, AddEffect
    <2>4. \A l \in Listeners : \A v \in DOMAIN vars' : Owns(v, l)' => v \in DOMAIN vars /\ Owns(v, l)
      BY <2>1, <2>2, <2>3 DEF Owns
    <2> QED BY <1>a, <2>2, <2>4
  <1>5. CASE DelListener(t)
    <2>1. DOMAIN vars' = DOMAIN vars /\ UNCHANGED <<copy, th>>
          /\ \A v \in DOMAIN vars : vars'[v].cbs \subseteq vars[v].cbs
      BY <1>5, DelEffect
    <2> QED BY <1>b, <2>1
  <1>6. CASE LoadFromYaml(t)
    BY <1>6, <1>b, YamlEffect DEF SameVars
  <1>7. CASE LoadNext(t)
    <2>1. \A s \in Threads : s # t => th'[s] = th[s]
      BY <1>7, LoadNextEffect DEF Others
    <2>2. th'[t].pc \in {"load", "notify"} /\ UNCHANGED copy /\ SameVars
      BY <1>7, LoadNextEffect
    <2> QED BY <1>b, <2>1, <2>2 DEF SameVars
  <1>8. CASE Notify(t)
    <2>1. \A s \in Threads : s # t => th'[s] = th[s]
      BY <1>8, NotifyEffect DEF Others
    <2>2. th'[t].pc = "notify" /\ SameVars
      BY <1>8, NotifyEffect
    <2>3. PICK l \in th[t].left : copy' = [copy EXCEPT ![l] = th[t].new]
      BY <1>8, NotifyEffect
    <2>4. th[t].new # NoVal
      BY <1>8, NotifyEffect DEF WorkShape
    <2>5. \A m \in Listeners : copy[m] # NoVal => copy'[m] # NoVal
      BY <2>3, <2>4 DEF CfgTypeOK
    <2> QED BY <1>b, <2>1, <2>2, <2>5 DEF SameVars
  <1>9. CASE Unlock(t)
    <2>1. \A s \in Threads : s # t => th'[s] = th[s]
      BY <1>9, UnlockEffect DEF Others
    <2> QED BY <1>9, <1>b, <2>1, UnlockEffect DEF SameVars
  <1>10. CASE Store(t)
    <2>1. \A s \in Threads : s # t => th'[s] = th[s]
      BY <1>10, StoreEffect DEF Others
    <2>2. \A v \in DOMAIN vars : vars'[v].cbs = vars[v].cbs
      BY <1>10, StoreEffect
    <2> QED BY <1>10, <1>b, <2>1, <2>2, StoreEffect
  <1>11. CASE LoadDone(t)
    <2>1. \A s \in Threads : s # t => th'[s] = th[s]
      BY <1>11, DoneEffect DEF Others
    <2>2. th'[t].pc = "idle" /\ UNCHANGED copy /\ SameVars
      BY <1>11, DoneEffect, IdleFields
    <2> QED BY <1>b, <2>1, <2>2 DEF SameVars
  <1> QED BY <1>1, <1>2, <1>3, <1>4, <1>5, <1>6, <1>7, <1>8, <1>9, <1>10, <1>11 DEF Acts

(* Thread s works on variable v. *)
On(s, v) == th[s].pc \in {"notify", "store", "subscribe"} /\ th[s].var = v

\* Follow of one variable
Told(v) ==
    /\ (\A s \in Threads : ~On(s, v)) => \A l \in vars[v].cbs : copy[l] = vars[v].val
    /\ \A s \in Threads : On(s, v) => Knows(v, s)

(* On a variable without overlap every listener has been told the new      *)
(* value when it is stored, and nothing else changes what it was told.     *)
LEMMA FollowNext ==
    ASSUME CfgTypeOK, MapShape, WorkShape, OneBusy, OneOwner, Follow, NEW t \in Threads, Acts(t)
    PROVE  Follow'
  <1>0. \A v \in DOMAIN vars \ overlap : Told(v)
    BY DEF Follow, Told, AtRest, Busy, On
  <1>v. \A v \in DOMAIN vars \ overlap : \A s, u \in Threads : On(s, v) /\ On(u, v) => s = u
    BY DEF OneBusy, Busy, On
  <1> SUFFICES ASSUME NEW w \in DOMAIN vars', w \notin overlap' PROVE Told(w)'
    BY DEF Follow, Told, AtRest, Busy, On
  <1>w. \A s \in Threads : th[s].pc \in {"notify", "store", "subscribe"} => th[s].var \in DOMAIN vars
    BY DEF WorkShape
  <1>o. \A s \in Threads : th[s] \in Work /\ th[s].left \subseteq Listeners
    BY WorkFields DEF CfgTypeOK
  <1>k. ASSUME w \in DOMAIN vars, w \notin overlap,
               vars'[w].val = vars[w].val, vars'[w].cbs \subseteq vars[w].cbs,
               \A s \in Threads : On(s, w)' <=> On(s, w),
               \A s \in Threads : On(s, w) =>
                 th'[s].pc = th[s].pc /\ th'[s].new = th[s].new /\ th'[s].left = th[s].left,
               \A l \in Listeners : Owns(w, l) => copy'[l] = copy[l]
        PROVE  Told(w)'
    <2>1. Told(w)
      BY <1>0, <1>k
    <2>2. vars[w].cbs \subseteq Listeners
      BY <1>k, VarsFields
    <2>3. \A l \in vars[w].cbs : copy'[l] = copy[l]
      BY <1>k, <2>2 DEF Owns
    <2>4. (\A s \in Threads : ~On(s, w)') => \A l \in vars'[w].cbs : copy'[l] = vars'[w].val
      BY <1>k, <2>1, <2>3 DEF Told
    <2>5. ASSUME NEW s \in Threads, On(s, w) PROVE Knows(w, s)'
      <3>1. Knows(w, s)
        BY <2>1, <2>5 DEF Told
      <3>2. th'[s].pc = th[s].pc /\ th'[s].new = th[s].new /\ th'[s].left = th[s].left
        BY <1>k, <2>5
      <3>3. th[s].pc = "subscribe" => \A l \in th[s].left : copy'[l] = copy[l]
        BY <1>k, <1>o, <2>5 DEF On, Owns
      <3> QED BY <1>k, <2>3, <3>1, <3>2, <3>3 DEF Knows
    <2> QED BY <1>k, <2>4, <2>5 DEF Told
  <1>1. ASSUME NEW n \in Names, Lookup(t, n) PROVE Told(w)'
    <2>1. \A s \in Threads : s # t => th'[s] = th[s]
      BY <1>1, LookupEffect DEF Others
    <2>2. \A s \in Threads : On(s, w)' <=> On(s, w)
      BY <1>1, <2>1, LookupEffect DEF On
    <2>3. ~On(t, w)
      BY <1>1, LookupEffect DEF On
    <2> QED BY <1>1, <1>k, <2>1, <2>2, <2>3, LookupEffect
  <1>2. CASE Create(t)
    <2>1. \A s \in Threads : s # t => th'[s] = th[s]
      BY <1>2, CreateEffect DEF Others
    <2>2. th[t].pc = "create" /\ th'[t].pc = "idle" /\ UNCHANGED <<copy, overlap>>
      BY <1>2, CreateEffect, IdleFields
    <2>3. \A s \in Threads : On(s, w)' <=> On(s, w)
      BY <2>1, <2>2 DEF On
    <2>4. ~On(t, w)
      BY <2>2 DEF On
    <2>5. CASE SameVars
      BY <1>k, <2>1, <2>2, <2>3, <2>4, <2>5 DEF SameVars
    <2>6. CASE ~SameVars
      <3>1. /\ DOMAIN vars' = 1 .. (Len(vars) + 1) /\ \A v \in DOMAIN vars : vars'[v] = vars[v]
            /\ vars'[Len(vars) + 1] = [name |-> th[t].name, val |-> Default, cbs |-> {}]
        BY <1>2, <2>6, CreateEffect, Zenon
      <3>2. vars'[Len(vars) + 1].cbs = {}
        BY <3>1
      <3>3. CASE w \in DOMAIN vars
        BY <1>k, <2>1, <2>2, <2>3, <2>4, <3>1, <3>3
      <3>4. CASE w \notin DOMAIN vars
        <4>1. w = Len(vars) + 1
          BY <3>1, <3>4, VarsFields
        <4>2. \A s \in Threads : ~On(s, w)
          BY <1>w, <3>4 DEF On
        <4> QED BY <2>3, <3>2, <4>1, <4>2 DEF Told
      <3> QED BY <3>3, <3>4
    <2> QED BY <2>5, <2>6
  <1>3. ASSUME NEW c \in Listeners, CopyValue(t, c) PROVE Told(w)'
    <2> DEFINE d == th'[t].var
    <2>1. \A s \in Threads : s # t => th'[s] = th[s]
      BY <1>3, CopyEffect DEF Others
    <2>2. /\ th[t].pc = "idle" /\ copy[c] = NoVal /\ SameVars
          /\ th'[t].pc = "subscribe" /\ th'[t].left = {c} /\ d \in DOMAIN vars
          /\ copy' = [copy EXCEPT ![c] = vars[d].val]
          /\ overlap' = IF Busy(d) = {} THEN overlap ELSE overlap \union {d}
      BY <1>3, CopyEffect
    <2>3. \A l \in Listeners : copy'[l] = IF l = c THEN vars[d].val ELSE copy[l]
      BY <2>2 DEF CfgTypeOK
    <2>4. \A v \in DOMAIN vars : ~Owns(v, c)
      BY <2>2 DEF OneOwner
    <2>5. w \in DOMAIN vars /\ w \notin overlap
      BY <2>2 DEF SameVars
    <2>6. CASE w # d
      <3>1. \A s \in Threads : On(s, w)' <=> On(s, w)
        BY <2>1, <2>2, <2>6 DEF On
      <3>2. ~On(t, w)
        BY <2>2 DEF On
      <3>3. \A l \in Listeners : Owns(w, l) => copy'[l] = copy[l]
        BY <2>3, <2>4, <2>5
      <3> QED BY <1>k, <2>1, <2>2, <2>5, <3>1, <3>2, <3>3 DEF SameVars
    <2>7. CASE w = d
      <3>1. Busy(w) = {}
        BY <2>2, <2>7
      <3>2. \A s \in Threads : ~On(s, w)
        BY <3>1 DEF Busy, On
      <3>3. \A l \in vars[w].cbs : copy[l] = vars[w].val
        BY <1>0, <2>5, <3>2 DEF Told
      <3>4. vars[w].cbs \subseteq Listeners /\ vars'[w] = vars[w]
        BY <2>2, <2>5, VarsFields DEF SameVars
      <3>5. \A l \in vars[w].cbs \union {c} : copy'[l] = vars[w].val
        BY <2>3, <2>7, <3>3, <3>4
      <3>6. \A s \in Threads : s # t => ~On(s, w)'
        BY <2>1, <3>2 DEF On
      <3>7. On(t, w)' /\ Knows(w, t)'
        BY <2>2, <2>7, <3>4, <3>5 DEF On, Knows
      <3> QED BY <3>6, <3>7 DEF Told
    <2> QED BY <2>6, <2>7
  <1>4. CASE AddListener(t)
    <2> DEFINE d == th[t].var
    <2>1. \A s \in Threads : s # t => th'[s] = th[s]
      BY <1>4, AddEffect DEF Others
    <2>2. th[t].pc = "subscribe" /\ th'[t].pc = "idle" /\ UNCHANGED <<copy, overlap>> /\ d \in DOMAIN vars
          /\ DOMAIN vars' = DOMAIN vars
      BY <1>4, AddEffect, IdleFields
    <2>3. /\ \A v \in DOMAIN vars \ {d} : vars'[v] = vars[v]
          /\ vars'[d].val = vars[d].val /\ vars'[d].cbs = vars[d].cbs \union th[t].left
      BY <1>4, AddEffect
    <2>4. CASE w # d
      <3>1. \A s \in Threads : On(s, w)' <=> On(s, w)
        BY <2>1, <2>2, <2>4 DEF On
      <3>2. ~On(t, w)
        BY <2>4 DEF On
      <3> QED BY <1>k, <2>1, <2>2, <2>3, <2>4, <3>1, <3>2
    <2>5. CASE w = d
      <3>1. On(t, w) /\ Knows(w, t)
        BY <1>0, <2>2, <2>5 DEF On, Told
      <3>2. \A s \in Threads : ~On(s, w)'
        BY <1>v, <2>1, <2>2, <2>5, <3>1 DEF On
      <3> QED BY <2>2, <2>3, <2>5, <3>1, <3>2 DEF Told, Knows
    <2> QED BY <2>4, <2>5
  <1>5. CASE DelListener(t)
    <2>1. DOMAIN vars' = DOMAIN vars /\ UNCHANGED <<copy, th, overlap>>
          /\ \A v \in DOMAIN vars : vars'[v].cbs \subseteq vars[v].cbs /\ vars'[v].val = vars[v].val
      BY <1>5, DelEffect
    <2>2. \A s \in Threads : On(s, w)' <=> On(s, w)
      BY <2>1 DEF On
    <2> QED BY <1>k, <2>1, <2>2
  <1>6. CASE LoadFromYaml(t)
    <2>1. \A s \in Threads : On(s, w)' <=> On(s, w)
      BY <1>6, YamlEffect DEF On
    <2>2. ~On(t, w)
      BY <1>6, YamlEffect DEF On
    <2> QED BY <1>6, <1>k, <2>1, <2>2, YamlEffect DEF SameVars
  <1>7. CASE LoadNext(t)
    <2>1. \A s \in Threads : s # t => th'[s] = th[s]
      BY <1>7, LoadNextEffect DEF Others
    <2>2. th[t].pc = "load" /\ UNCHANGED copy /\ SameVars
      BY <1>7, LoadNextEffect
    <2>3. ~On(t, w)
      BY <2>2 DEF On
    <2>4. CASE th'[t].pc = "load" \/ th'[t].var # w
      <3>1. \A s \in Threads : On(s, w)' <=> On(s, w)
        <4>1. ~On(t, w)'
          BY <2>4 DEF On
        <4> QED BY <2>1, <2>3, <4>1 DEF On
      <3>2. w \notin overlap
        BY <1>7, LoadNextEffect
      <3> QED BY <1>k, <2>1, <2>2, <2>3, <3>1, <3>2 DEF SameVars
    <2>5. CASE th'[t].pc # "load" /\ th'[t].var = w
      <3>1. /\ th'[t].pc = "notify" /\ w \in DOMAIN vars /\ th'[t].left = vars[w].cbs
            /\ overlap' = IF Busy(w) = {} THEN overlap ELSE overlap \union {w}
        BY <1>7, <2>5, LoadNextEffect
      <3>2. Busy(w) = {}
        BY <3>1
      <3>3. \A s \in Threads : s # t => ~On(s, w)'
        BY <2>1, <3>2 DEF Busy, On
      <3>4. On(t, w)' /\ Knows(w, t)'
        BY <2>2, <2>5, <3>1 DEF On, Knows, SameVars
      <3> QED BY <3>3, <3>4 DEF Told
    <2> QED BY <2>4, <2>5
  <1>8. CASE Notify(t)
    <2> DEFINE d == th[t].var
    <2>1. \A s \in Threads : s # t => th'[s] = th[s]
      BY <1>8, NotifyEffect DEF Others
    <2>2. /\ th[t].pc = "notify" /\ th'[t].pc = "notify" /\ th'[t].var = d /\ th'[t].new = th[t].new
          /\ SameVars /\ UNCHANGED overlap /\ d \in DOMAIN vars
      BY <1>8, <1>w, NotifyEffect
    <2>3. PICK c \in th[t].left :
            th'[t].left = th[t].left \ {c} /\ copy' = [copy EXCEPT ![c] = th[t].new]
      BY <1>8, NotifyEffect
    <2>4. c \in Listeners /\ c \in vars[d].cbs
      BY <1>o, <2>2 DEF WorkShape
    <2>5. \A l \in Listeners : copy'[l] = IF l = c THEN th[t].new ELSE copy[l]
      BY <2>3 DEF CfgTypeOK
    <2>6. w \in DOMAIN vars /\ w \notin overlap /\ vars'[w] = vars[w]
      BY <2>2 DEF SameVars
    <2>7. CASE w # d
      <3>1. \A s \in Threads : On(s, w)' <=> On(s, w)
        BY <2>1, <2>2, <2>7 DEF On
      <3>2. ~On(t, w)
        BY <2>7 DEF On
      <3>3. ~Owns(w, c)
        BY <2>2, <2>4, <2>6, <2>7 DEF OneOwner, Owns
      <3> QED BY <1>k, <2>1, <2>5, <2>6, <3>1, <3>2, <3>3
    <2>8. CASE w = d
      <3>1. On(t, w) /\ Knows(w, t)
        BY <1>0, <2>2, <2>6, <2>8 DEF On, Told
      <3>2. \A s \in Threads : s # t => ~On(s, w)'
        BY <1>v, <2>1, <2>6, <3>1 DEF On
      <3>3. vars[w].cbs \subseteq Listeners
        BY <2>6, VarsFields
      <3>4. \A l \in vars[w].cbs \ th'[t].left : copy'[l] = th[t].new
        BY <2>2, <2>3, <2>5, <3>1, <3>3 DEF Knows
      <3>5. On(t, w)' /\ Knows(w, t)'
        BY <2>2, <2>6, <2>8, <3>4 DEF On, Knows
      <3> QED BY <3>2, <3>5 DEF Told
    <2> QED BY <2>7, <2>8
  <1>9. CASE Unlock(t)
    <2> DEFINE d == th[t].var
    <2>1. \A s \in Threads : s # t => th'[s] = th[s]
      BY <1>9, UnlockEffect DEF Others
    <2>2. /\ th[t].pc = "notify" /\ th[t].left = {} /\ th'[t].pc = "store" /\ th'[t].var = d
          /\ th'[t].new = th[t].new /\ SameVars /\ UNCHANGED <<copy, overlap>>
      BY <1>9, UnlockEffect
    <2>3. \A s \in Threads : On(s, w)' <=> On(s, w)
      BY <2>1, <2>2 DEF On
    <2>4. w \in DOMAIN vars /\ w \notin overlap /\ vars'[w] = vars[w]
      BY <2>2 DEF SameVars
    <2>5. CASE w # d
      <3>1. ~On(t, w)
        BY <2>5 DEF On
      <3> QED BY <1>k, <2>1, <2>2, <2>3, <2>4, <3>1
    <2>6. CASE w = d
      <3>1. On(t, w) /\ Knows(w, t)
        BY <1>0, <2>2, <2>4, <2>6 DEF On, Told
      <3>2. \A s \in Threads : s # t => ~On(s, w)'
        BY <1>v, <2>3, <2>4, <3>1
      <3>3. Knows(w, t)'
        BY <2>2, <2>4, <3>1 DEF Knows
      <3> QED BY <2>3, <3>1, <3>2, <3>3 DEF Told
    <2> QED BY <2>5, <2>6
  <1>10. CASE Store(t)
    <2> DEFINE d == th[t].var
    <2>1. \A s \in Threads : s # t => th'[s] = th[s]
      BY <1>10, StoreEffect DEF Others
    <2>2. /\ th[t].pc = "store" /\ th'[t].pc = "load" /\ UNCHANGED <<copy, overlap>> /\ d \in DOMAIN vars
          /\ DOMAIN vars' = DOMAIN vars
      BY <1>10, StoreEffect
    <2>3. /\ \A v \in DOMAIN vars \ {d} : vars'[v] = vars[v]
          /\ vars'[d].val = th[t].new /\ vars'[d].cbs = vars[d].cbs
      BY <1>10, StoreEffect
    <2>4. CASE w # d
      <3>1. \A s \in Threads : On(s, w)' <=> On(s, w)
        BY <2>1, <2>2, <2>4 DEF On
      <3>2. ~On(t, w)
        BY <2>4 DEF On
      <3> QED BY <1>k, <2>1, <2>2, <2>3, <2>4, <3>1, <3>2
    <2>5. CASE w = d
      <3>1. On(t, w) /\ Knows(w, t)
        BY <1>0, <2>2, <2>5 DEF On, Told
      <3>2. \A s \in Threads : ~On(s, w)'
        BY <1>v, <2>1, <2>2, <2>5, <3>1 DEF On
      <3> QED BY <2>2, <2>3, <2>5, <3>1, <3>2 DEF Told, Knows
    <2> QED BY <2>4, <2>5
  <1>11. CASE LoadDone(t)
    <2>1. \A s \in Threads : s # t => th'[s] = th[s]
      BY <1>11, DoneEffect DEF Others
    <2>2. th[t].pc = "load" /\ th'[t].pc = "idle" /\ UNCHANGED <<copy, overlap>> /\ SameVars
      BY <1>11, DoneEffect, IdleFields
    <2>3. \A s \in Threads : On(s, w)' <=> On(s, w)
      BY <2>1, <2>2 DEF On
    <2>4. ~On(t, w)
      BY <2>2 DEF On
    <2> QED BY <1>k, <2>1, <2>2, <2>3, <2>4 DEF SameVars
  <1> QED BY <1>1, <1>2, <1>3, <1>4, <1>5, <1>6, <1>7, <1>8, <1>9, <1>10, <1>11 DEF Acts

-----------------------------------------------------------------------------
(* Loads *)

(* A name keeps its variable, a variable its name, and only a store        *)
(* changes a value.                                                        *)
LEMMA NamesKept ==
    ASSUME CfgTypeOK, MapShape, WorkShape, NEW t \in Threads, Acts(t)
    PROVE  /\ \A n \in Names : s_data[n] # 0 => s_data'[n] = s_data[n]
           /\ \A v \in DOMAIN vars : v \in DOMAIN vars' /\ vars'[v].name = vars[v].name
           /\ ~Store(t) => \A v \in DOMAIN vars : vars'[v].val = vars[v].val
  <1>0. \/ SameVars \/ Create(t) \/ AddListener(t) \/ DelListener(t) \/ Store(t)
    BY DEF Acts, Lookup, CopyValue, LoadFromYaml, LoadNext, Notify, Unlock, LoadDone, SameVars
  <1>1. CASE SameVars
    BY <1>1 DEF SameVars
  <1>2. CASE Create(t) /\ ~SameVars
    <2>1. /\ th[t].name \in Names /\ s_data[th[t].name] = 0
          /\ s_data' = [s_data EXCEPT ![th[t].name] = Len(vars) + 1]
          /\ DOMAIN vars' = 1 .. (Len(vars) + 1) /\ \A v \in DOMAIN vars : vars'[v] = vars[v]
      BY <1>2, CreateEffect, Zenon
    <2>2. \A v \in DOMAIN vars : v \in DOMAIN vars'
      BY <2>1, VarsFields
    <2>3. \A n \in Names : s_data[n] # 0 => s_data'[n] = s_data[n]
      BY <2>1 DEF CfgTypeOK
    <2> QED BY <2>1, <2>2, <2>3
  <1>3. CASE AddListener(t)
    BY <1>3, AddEffect
  <1>4. CASE DelListener(t)
    BY <1>4, DelEffect
  <1>5. CASE Store(t)
    BY <1>5, StoreEffect
  <1> QED BY <1>0, <1>1, <1>2, <1>3, <1>4, <1>5

(* A load that goes on is the load it was. *)
LEMMA LoadingKept ==
    ASSUME CfgTypeOK, MapShape, WorkShape, NEW t \in Threads, Acts(t), ~LoadFromYaml(t)
    PROVE  /\ \A s \in Threads : th'[s].doc # <<>> => th'[s].doc = th[s].doc /\ th'[s].alone = th[s].alone
           /\ \A s \in Threads : th'[s].had = th[s].had \/ th'[s].had = {}
           /\ ~LoadDone(t) => ran' = ran
  <1>s. ASSUME Others(t), \/ th'[t].doc = <<>> /\ th'[t].had = {}
                          \/ th'[t].doc = th[t].doc /\ th'[t].alone = th[t].alone /\ th'[t].had = th[t].had
        PROVE  /\ \A s \in Threads : th'[s].doc # <<>> => th'[s].doc = th[s].doc /\ th'[s].alone = th[s].alone
               /\ \A s \in Threads : th'[s].had = th[s].had \/ th'[s].had = {}
    BY <1>s DEF Others
  <1>1. ASSUME NEW n \in Names, Lookup(t, n) PROVE Others(t) /\ th'[t].doc = <<>> /\ th'[t].had = {} /\ ran' = ran
    BY <1>1, LookupEffect
  <1>2. CASE Create(t)
    BY <1>2, <1>s, CreateEffect, IdleFields
  <1>3. ASSUME NEW l \in Listeners, CopyValue(t, l)
        PROVE  Others(t) /\ th'[t].doc = <<>> /\ th'[t].had = {} /\ ran' = ran
    BY <1>3, CopyEffect
  <1>4. CASE AddListener(t)
    BY <1>4, <1>s, AddEffect, IdleFields
  <1>5. CASE DelListener(t)
    BY <1>5, DelEffect
  <1>6. CASE LoadNext(t)
    BY <1>6, <1>s, LoadNextEffect
  <1>7. CASE Notify(t)
    BY <1>7, <1>s, NotifyEffect
  <1>8. CASE Unlock(t)
    BY <1>8, <1>s, UnlockEffect
  <1>9. CASE Store(t)
    BY <1>9, <1>s, StoreEffect
  <1>10. CASE LoadDone(t)
    BY <1>10, <1>s, DoneEffect, IdleFields
  <1> QED BY <1>s, <1>1, <1>2, <1>3, <1>4, <1>5, <1>6, <1>7, <1>8, <1>9, <1>10 DEF Acts

(* Who loads alone is the only one, and after a recorded load nobody       *)
(* loads.                                                                  *)
LEMMA LoadNextShape ==
    ASSUME CfgTypeOK, MapShape, WorkShape, LoadShape, NEW t \in Threads, Acts(t)
    PROVE  LoadShape'
  <1>0. /\ \A s \in Threads : th[s].had \subseteq Names /\ \A n \in th[s].had : s_data[n] # 0
        /\ \A r \in ran : r.had \subseteq Names /\ \A n \in r.had : s_data[n] # 0
        /\ \A s, u \in Threads : th[s].doc # <<>> /\ th[u].doc # <<>> /\ th[s].alone => u = s
        /\ \A u \in Threads : ran # {} => th[u].doc = <<>>
    <2>1. \A s \in Threads : th[s].had \subseteq Names
      BY WorkFields DEF CfgTypeOK
    <2>2. \A r \in ran : r.had \subseteq Names
      BY DEF CfgTypeOK
    <2> QED BY <2>1, <2>2 DEF LoadShape, Loading
  <1>a. ASSUME \A s \in Threads : \A n \in th'[s].had : s_data'[n] # 0,
               \A r \in ran' : \A n \in r.had : s_data'[n] # 0,
               \A s, u \in Threads : th'[s].doc # <<>> /\ th'[u].doc # <<>> /\ th'[s].alone => u = s,
               \A u \in Threads : ran' # {} => th'[u].doc = <<>>
        PROVE  LoadShape'
    BY <1>a DEF LoadShape, Loading
  <1>k. \A n \in Names : s_data[n] # 0 => s_data'[n] = s_data[n]
    BY NamesKept
  <1>1. CASE LoadFromYaml(t)
    <2>1. \A s \in Threads : \A n \in th'[s].had : s_data'[n] # 0
      BY <1>0, <1>1, <1>k, YamlEffect DEF SameVars
    <2>2. \A s, u \in Threads : th'[s].doc # <<>> /\ th'[u].doc # <<>> /\ th'[s].alone => u = s
      <3>1. \A s \in Threads \ {t} : th'[s].doc = th[s].doc /\ th'[s].alone = (s \notin Loading)
        BY <1>1, YamlEffect
      <3>2. th'[t].alone => \A u \in Threads : th[u].doc = <<>>
        BY <1>1, YamlEffect DEF Loading
      <3>3. \A s \in Threads \ {t} : th'[s].doc # <<>> => ~th'[s].alone
        BY <3>1 DEF Loading
      <3> QED BY <3>1, <3>2, <3>3
    <2>3. ran' = {}
      BY <1>1, YamlEffect
    <2> QED BY <1>a, <2>1, <2>2, <2>3
  <1>2. CASE LoadDone(t)
    <2>1. \A s \in Threads : s # t => th'[s] = th[s]
      BY <1>2, DoneEffect DEF Others
    <2>2. /\ th[t].pc = "load" /\ th'[t].doc = <<>> /\ th'[t].had = {}
          /\ ran' = IF th[t].alone THEN {[doc |-> th[t].doc, had |-> th[t].had]} ELSE {}
      BY <1>2, DoneEffect, IdleFields
    <2>3. th[t].doc # <<>>
      BY <2>2 DEF WorkShape
    <2>4. \A s \in Threads : \A n \in th'[s].had : s_data'[n] # 0
      BY <1>0, <1>k, <2>1, <2>2
    <2>5. \A r \in ran' : \A n \in r.had : s_data'[n] # 0
      BY <1>0, <1>k, <2>2
    <2>6. \A u \in Threads : ran' # {} => th'[u].doc = <<>>
      BY <1>0, <2>1, <2>2, <2>3
    <2> QED BY <1>0, <1>a, <2>1, <2>2, <2>4, <2>5, <2>6
  <1>3. CASE ~LoadFromYaml(t) /\ ~LoadDone(t)
    <2>1. /\ \A s \in Threads : th'[s].doc # <<>> => th'[s].doc = th[s].doc /\ th'[s].alone = th[s].alone
          /\ \A s \in Threads : th'[s].had = th[s].had \/ th'[s].had = {}
          /\ ran' = ran
      BY <1>3, LoadingKept
    <2>2. \A s \in Threads : \A n \in th'[s].had : s_data'[n] # 0
      BY <1>0, <1>k, <2>1
    <2>3. \A r \in ran' : \A n \in r.had : s_data'[n] # 0
      BY <1>0, <1>k, <2>1
    <2>4. \A s, u \in Threads : th'[s].doc # <<>> /\ th'[u].doc # <<>> /\ th'[s].alone => u = s
      BY <1>0, <2>1
    <2>5. \A u \in Threads : ran' # {} => th'[u].doc = <<>>
      BY <1>0, <2>1
    <2> QED BY <1>a, <2>2, <2>3, <2>4, <2>5
  <1> QED BY <1>1, <1>2, <1>3

\* LoadKept of one thread
Kept(s) ==
    th[s].doc # <<>> /\ OneRoot(th[s].doc) =>
      /\ OnPath(s)
      /\ th[s].alone => \A p \in Paths(th[s].doc) : p.name \in th[s].had => Reaches(s, p)

(* Every value of the file that is loaded is still on the list, being set, *)
(* or stored; and what is stored later under the same name is the same     *)
(* value.                                                                  *)
LEMMA KeptNext ==
    ASSUME CfgTypeOK, MapShape, WorkShape, LoadShape, LoadKept, NEW t \in Threads, Acts(t)
    PROVE  LoadKept'
  <1>0. \A s \in Threads : Kept(s)
    BY DEF LoadKept, Kept, Loading
  <1> SUFFICES ASSUME NEW s \in Threads PROVE Kept(s)'
    BY DEF LoadKept, Kept, Loading
  <1>w. /\ th[s] \in Work /\ th[s].todo \in Seq(Listed) /\ th[s].had \subseteq Names
        /\ th[s].doc \in Docs \union {<<>>}
        /\ \A n \in th[s].had : s_data[n] # 0 /\ n \in Names /\ s_data[n] \in DOMAIN vars
        /\ th[s].pc \in {"notify", "store"} => th[s].var \in DOMAIN vars
    <2>1. th[s] \in Work
      BY DEF CfgTypeOK
    <2>2. /\ th[s].todo \in Seq(Listed) /\ th[s].had \subseteq Names /\ th[s].doc \in Docs \union {<<>>}
      BY <2>1, WorkFields
    <2> QED BY <2>1, <2>2 DEF WorkShape, LoadShape, MapShape
  <1>n. /\ \A n \in Names : s_data[n] # 0 => s_data'[n] = s_data[n]
        /\ \A v \in DOMAIN vars : v \in DOMAIN vars' /\ vars'[v].name = vars[v].name
        /\ ~Store(t) => \A v \in DOMAIN vars : vars'[v].val = vars[v].val
    BY NamesKept
  \* neither the thread's locals nor the values it has stored change
  <1>k. ASSUME th'[s].doc = th[s].doc, th'[s].had = th[s].had, th'[s].todo = th[s].todo,
               th'[s].pc \in {"notify", "store"} <=> th[s].pc \in {"notify", "store"},
               th[s].pc \in {"notify", "store"} => th'[s].var = th[s].var /\ th'[s].new = th[s].new,
               th'[s].doc # <<>> /\ th'[s].alone =>
                 th[s].alone /\ \A v \in DOMAIN vars : vars'[v].val = vars[v].val
        PROVE  Kept(s)'
    <2> SUFFICES ASSUME th'[s].doc # <<>>, OneRoot(th'[s].doc)
                 PROVE  /\ OnPath(s)'
                        /\ th'[s].alone => \A p \in Paths(th'[s].doc) : p.name \in th'[s].had => Reaches(s, p)'
      BY DEF Kept
    <2>1. OnPath(s)
      BY <1>0, <1>k DEF Kept
    <2>2. OnPath(s)'
      BY <1>k, <1>n, <1>w, <2>1 DEF OnPath
    <2>3. ASSUME th'[s].alone, NEW p \in Paths(th'[s].doc), p.name \in th'[s].had
          PROVE  Reaches(s, p)'
      <3>1. Reaches(s, p)
        BY <1>0, <1>k, <2>3 DEF Kept
      <3>2. s_data'[p.name] = s_data[p.name] /\ s_data[p.name] \in DOMAIN vars
        BY <1>k, <1>n, <1>w, <2>3
      <3>3. vars'[s_data[p.name]].val = vars[s_data[p.name]].val
        BY <1>k, <2>3, <3>2
      <3> QED BY <1>k, <3>1, <3>2, <3>3 DEF Reaches
    <2> QED BY <2>2, <2>3
  <1>i. ASSUME th'[s].doc = <<>> PROVE Kept(s)'
    BY <1>i DEF Kept
  \* another thread moves
  <1>o. ASSUME s # t, th'[s] = th[s] PROVE Kept(s)'
    <2>1. CASE Store(t)
      <3>1. th[t].doc # <<>>
        BY <2>1 DEF Store, WorkShape
      <3>2. ~(th[s].doc # <<>> /\ th[s].alone)
        BY <1>o, <3>1 DEF LoadShape, Loading
      <3> QED BY <1>k, <1>o, <3>2
    <2>2. CASE ~Store(t)
      BY <1>k, <1>n, <1>o, <2>2
    <2> QED BY <2>1, <2>2
  <1>1. ASSUME NEW n \in Names, Lookup(t, n) PROVE Kept(s)'
    <2>1. CASE s = t
      BY <1>1, <1>i, <2>1, LookupEffect
    <2> QED BY <1>1, <1>o, <2>1, LookupEffect DEF Others
  <1>2. CASE Create(t)
    <2>1. CASE s = t
      BY <1>2, <1>i, <2>1, CreateEffect, IdleFields
    <2> QED BY <1>2, <1>o, <2>1, CreateEffect DEF Others
  <1>3. ASSUME NEW l \in Listeners, CopyValue(t, l) PROVE Kept(s)'
    <2>1. CASE s = t
      BY <1>3, <1>i, <2>1, CopyEffect
    <2> QED BY <1>3, <1>o, <2>1, CopyEffect DEF Others
  <1>4. CASE AddListener(t)
    <2>1. CASE s = t
      BY <1>4, <1>i, <2>1, AddEffect, IdleFields
    <2> QED BY <1>4, <1>o, <2>1, AddEffect DEF Others
  <1>5. CASE DelListener(t)
    <2>1. UNCHANGED th /\ \A v \in DOMAIN vars : vars'[v].val = vars[v].val
      BY <1>5, DelEffect
    <2> QED BY <1>k, <2>1
  <1>6. CASE LoadFromYaml(t)
    <2>1. CASE s # t
      <3>1. \A v \in DOMAIN vars : vars'[v].val = vars[v].val
        BY <1>6, YamlEffect DEF SameVars
      <3>2. /\ th'[s].pc = th[s].pc /\ th'[s].var = th[s].var
            /\ th'[s].new = th[s].new /\ th'[s].todo = th[s].todo
            /\ th'[s].doc = th[s].doc /\ th'[s].had = th[s].had /\ th'[s].alone = (s \notin Loading)
        BY <1>6, <2>1, YamlEffect
      <3>3. th'[s].doc # <<>> => ~th'[s].alone
        BY <3>2 DEF Loading
      <3> QED BY <1>k, <3>2, <3>3
    <2>2. CASE s = t
      <3> DEFINE doc == th'[s].doc
      <3>1. th'[s].pc = "load" /\ doc \in Docs /\ th'[s].todo = ListAllNodes(doc)
        BY <1>6, <2>2, YamlEffect
      <3> SUFFICES ASSUME OneRoot(doc)
                   PROVE  OnPath(s)' /\ \A p \in Paths(doc) : Reaches(s, p)'
        BY DEF Kept
      <3>2. /\ \A p \in Paths(doc) : \E i \in DOMAIN ListAllNodes(doc) : ListAllNodes(doc)[i] = p
            /\ \A i \in DOMAIN ListAllNodes(doc) :
                 Takes(ListAllNodes(doc)[i].name, ListAllNodes(doc)[i].val) =>
                   ListAllNodes(doc)[i] \in Paths(doc)
        BY <3>1, PathsListed
      <3>3. OnPath(s)'
        BY <3>1, <3>2 DEF OnPath
      <3>4. \A p \in Paths(doc) : Reaches(s, p)'
        BY <3>1, <3>2 DEF Reaches
      <3> QED BY <3>3, <3>4
    <2> QED BY <2>1, <2>2
  <1>7. CASE LoadNext(t)
    <2>1. CASE s # t
      BY <1>7, <1>o, <2>1, LoadNextEffect DEF Others
    <2>2. CASE s = t
      <3> DEFINE todo == th[s].todo
                 h == Head(todo)
                 doc == th[s].doc
      <3>1. /\ th[s].pc = "load" /\ todo # <<>> /\ SameVars
            /\ th'[s].todo = Tail(todo) /\ th'[s].doc = doc /\ th'[s].had = th[s].had
            /\ th'[s].alone = th[s].alone
        BY <1>7, <2>2, LoadNextEffect
      <3>2. \/ /\ th'[s].pc = "load"
               /\ \/ h.name \notin Names \/ s_data[h.name] = 0 \/ ~Takes(h.name, h.val)
                  \/ vars[s_data[h.name]].val = h.val
            \/ /\ th'[s].pc = "notify" /\ th'[s].var \in DOMAIN vars
               /\ h.name \in Names /\ th'[s].var = s_data[h.name]
               /\ th'[s].new = h.val /\ Takes(h.name, h.val)
        BY <1>7, <2>2, LoadNextEffect
      <3>3. /\ h = todo[1] /\ Len(todo) \in Nat \ {0} /\ DOMAIN todo = 1 .. Len(todo)
            /\ DOMAIN Tail(todo) = 1 .. (Len(todo) - 1)
            /\ \A i \in 1 .. (Len(todo) - 1) : Tail(todo)[i] = todo[i + 1]
        <4>1. todo \in Seq(Listed) /\ todo # <<>>
          BY <1>w, <3>1
        <4> HIDE DEF todo, h
        <4>2. Tail(todo) \in Seq(Listed) /\ Len(Tail(todo)) = Len(todo) - 1
          BY <4>1, NextNode
        <4> QED BY <4>1, <4>2, NextNode DEF h
      <3> SUFFICES ASSUME doc # <<>>, OneRoot(doc)
                   PROVE  /\ OnPath(s)'
                          /\ th[s].alone => \A p \in Paths(doc) : p.name \in th[s].had => Reaches(s, p)'
        BY <3>1 DEF Kept
      <3>4. OnPath(s) /\ (th[s].alone => \A p \in Paths(doc) : p.name \in th[s].had => Reaches(s, p))
        BY <1>0 DEF Kept
      <3>5. 1 \in DOMAIN todo /\ \A i \in DOMAIN Tail(todo) : i + 1 \in DOMAIN todo /\ Tail(todo)[i] = todo[i + 1]
        BY <3>3
      <3>6. Takes(h.name, h.val) => h \in Paths(doc)
        BY <3>3, <3>4, <3>5 DEF OnPath
      <3>7. \A i \in DOMAIN Tail(todo) :
              Takes(Tail(todo)[i].name, Tail(todo)[i].val) => Tail(todo)[i] \in Paths(doc)
        BY <3>4, <3>5 DEF OnPath
      <3>8. th'[s].pc \in {"notify", "store"} =>
              [name |-> vars[th'[s].var].name, val |-> th'[s].new] \in Paths(doc)
        <4> HIDE DEF h
        <4>1. th'[s].pc \in {"notify", "store"} => vars[th'[s].var].name = h.name /\ th'[s].new = h.val
                /\ Takes(h.name, h.val)
          BY <3>2, VarsFields DEF MapShape
        <4>2. h \in Paths(doc) => h = [name |-> h.name, val |-> h.val]
          BY <1>w, PathsDiffer
        <4> QED BY <3>6, <4>1, <4>2
      <3>9. OnPath(s)'
        <4> HIDE DEF todo
        <4> QED BY <3>1, <3>7, <3>8 DEF OnPath, SameVars
      <3>10. ASSUME th[s].alone, NEW p \in Paths(doc), p.name \in th[s].had PROVE Reaches(s, p)'
        <4>1. Reaches(s, p)
          BY <3>4, <3>10
        <4>2. p.name \in Names /\ s_data[p.name] # 0
          BY <1>w, <3>10
        <4>3. Takes(p.name, p.val)
          BY <1>w, PathsDiffer
        <4>4. CASE vars[s_data[p.name]].val = p.val
          BY <3>1, <4>4 DEF Reaches, SameVars
        <4>5. CASE h = p
          <5> HIDE DEF h
          <5>0. s_data[h.name] = s_data[p.name] /\ h.name \in Names /\ s_data[h.name] # 0 /\ Takes(h.name, h.val)
            BY <4>2, <4>3, <4>5
          <5>1. \/ vars[s_data[p.name]].val = p.val
                \/ th'[s].pc = "notify" /\ th'[s].var = s_data[p.name] /\ th'[s].new = p.val
            BY <3>2, <4>5, <5>0
          <5> QED BY <3>1, <5>1 DEF Reaches, SameVars
        <4>6. CASE h # p /\ vars[s_data[p.name]].val # p.val
          <5>1. PICK i \in DOMAIN todo : todo[i] = p
            BY <3>1, <4>1, <4>6 DEF Reaches
          <5>2. i # 1
            BY <3>3, <4>6, <5>1
          <5>3. i - 1 \in DOMAIN Tail(todo) /\ (i - 1) + 1 = i
            BY <3>3, <5>2
          <5>4. Tail(todo)[i - 1] = todo[i]
            BY <3>5, <5>3
          <5> HIDE DEF todo
          <5> QED BY <3>1, <5>1, <5>3, <5>4 DEF Reaches
        <4> QED BY <4>4, <4>5, <4>6
      <3> QED BY <3>9, <3>10
    <2> QED BY <2>1, <2>2
  <1>8. CASE Notify(t)
    <2>1. CASE s = t
      <3>1. \A v \in DOMAIN vars : vars'[v].val = vars[v].val
        BY <1>8, NotifyEffect DEF SameVars
      <3> QED BY <1>8, <1>k, <2>1, <3>1, NotifyEffect
    <2> QED BY <1>8, <1>o, <2>1, NotifyEffect DEF Others
  <1>9. CASE Unlock(t)
    <2>1. CASE s = t
      <3>1. \A v \in DOMAIN vars : vars'[v].val = vars[v].val
        BY <1>9, UnlockEffect DEF SameVars
      <3> QED BY <1>9, <1>k, <2>1, <3>1, UnlockEffect
    <2> QED BY <1>9, <1>o, <2>1, UnlockEffect DEF Others
  <1>10. CASE Store(t)
    <2>1. CASE s # t
      BY <1>10, <1>o, <2>1, StoreEffect DEF Others
    <2>2. CASE s = t
      <3> DEFINE d == th[s].var
                 doc == th[s].doc
      <3>1. /\ th[s].pc = "store" /\ th'[s].pc = "load" /\ th'[s].todo = th[s].todo /\ th'[s].doc = doc
            /\ th'[s].had = th[s].had /\ th'[s].alone = th[s].alone /\ UNCHANGED s_data
            /\ d \in DOMAIN vars /\ \A v \in DOMAIN vars \ {d} : vars'[v] = vars[v]
            /\ vars'[d].val = th[s].new
        BY <1>10, <2>2, StoreEffect
      <3> SUFFICES ASSUME doc # <<>>, OneRoot(doc)
                   PROVE  /\ OnPath(s)'
                          /\ th[s].alone => \A p \in Paths(doc) : p.name \in th[s].had => Reaches(s, p)'
        BY <3>1 DEF Kept
      <3>2. OnPath(s) /\ (th[s].alone => \A p \in Paths(doc) : p.name \in th[s].had => Reaches(s, p))
        BY <1>0 DEF Kept
      <3>3. OnPath(s)'
        BY <3>1, <3>2 DEF OnPath
      <3> DEFINE q == [name |-> vars[d].name, val |-> th[s].new]
      <3>4. q \in Paths(doc)
        BY <3>1, <3>2 DEF OnPath
      <3>5. ASSUME th[s].alone, NEW p \in Paths(doc), p.name \in th[s].had PROVE Reaches(s, p)'
        <4>1. Reaches(s, p)
          BY <3>2, <3>5
        <4>2. p.name \in Names /\ s_data[p.name] \in DOMAIN vars /\ vars[s_data[p.name]].name = p.name
          BY <1>w, <3>5 DEF MapShape
        <4>3. CASE s_data[p.name] = d
          <5>1. q.name = p.name /\ q.val = th[s].new
            BY <4>2, <4>3
          <5> HIDE DEF q
          <5>2. p.val = th[s].new
            BY <1>w, <3>4, <5>1, PathsDiffer
          <5> QED BY <3>1, <4>3, <5>2 DEF Reaches
        <4>4. CASE s_data[p.name] # d
          <5>1. vars'[s_data[p.name]] = vars[s_data[p.name]]
            BY <3>1, <4>2, <4>4
          <5> QED BY <3>1, <4>1, <4>4, <5>1 DEF Reaches
        <4> QED BY <4>3, <4>4
      <3> QED BY <3>3, <3>5
    <2> QED BY <2>1, <2>2
  <1>11. CASE LoadDone(t)
    <2>1. CASE s = t
      BY <1>11, <1>i, <2>1, DoneEffect, IdleFields
    <2> QED BY <1>11, <1>o, <2>1, DoneEffect DEF Others
  <1> QED BY <1>1, <1>2, <1>3, <1>4, <1>5, <1>6, <1>7, <1>8, <1>9, <1>10, <1>11 DEF Acts

(* When the list is empty every value has been stored, and only another    *)
(* load can change it.                                                     *)
LEMMA ReachesNext ==
    ASSUME CfgTypeOK, MapShape, WorkShape, LoadShape, LoadKept, LoadReaches, NEW t \in Threads, Acts(t)
    PROVE  LoadReaches'
  <1>n. /\ \A n \in Names : s_data[n] # 0 => s_data'[n] = s_data[n]
        /\ ~Store(t) => \A v \in DOMAIN vars : vars'[v].val = vars[v].val
    BY NamesKept
  <1>1. CASE LoadFromYaml(t)
    BY <1>1, YamlEffect DEF LoadReaches
  <1>2. CASE LoadDone(t)
    <2>1. /\ th[t].pc = "load" /\ th[t].todo = <<>> /\ SameVars
          /\ ran' = IF th[t].alone THEN {[doc |-> th[t].doc, had |-> th[t].had]} ELSE {}
      BY <1>2, DoneEffect
    <2>2. t \in Loading
      BY <2>1 DEF Loading, WorkShape
    <2>3. ASSUME th[t].alone, OneRoot(th[t].doc), NEW p \in Paths(th[t].doc), p.name \in th[t].had
          PROVE  vars[s_data[p.name]].val = p.val
      <3>1. Reaches(t, p)
        BY <2>2, <2>3 DEF LoadKept
      <3>2. DOMAIN th[t].todo = {}
        BY <2>1
      <3> QED BY <2>1, <3>1, <3>2 DEF Reaches
    <2>4. CASE th[t].alone
      <3> DEFINE r == [doc |-> th[t].doc, had |-> th[t].had]
      <3>1. ran' = {r} /\ r.doc = th[t].doc /\ r.had = th[t].had
        BY <2>1, <2>4
      <3> HIDE DEF r
      <3> QED BY <2>1, <2>3, <2>4, <3>1 DEF LoadReaches, SameVars
    <2>5. CASE ~th[t].alone
      BY <2>1, <2>5 DEF LoadReaches
    <2> QED BY <2>4, <2>5
  <1>3. CASE ~LoadFromYaml(t) /\ ~LoadDone(t)
    <2>1. ran' = ran
      BY <1>3, LoadingKept
    <2> SUFFICES ASSUME NEW r \in ran, OneRoot(r.doc), NEW p \in Paths(r.doc), p.name \in r.had
                 PROVE  vars'[s_data'[p.name]].val = p.val
      BY <2>1 DEF LoadReaches
    <2>2. r.had \subseteq Names
      BY DEF CfgTypeOK
    <2>3. s_data'[p.name] = s_data[p.name] /\ s_data[p.name] \in DOMAIN vars
      BY <1>n, <2>2 DEF LoadShape, MapShape
    <2>4. ~Store(t)
      <3>1. SUFFICES ASSUME Store(t) PROVE FALSE
        OBVIOUS
      <3>2. t \in Loading
        BY <3>1 DEF Store, WorkShape, Loading
      <3> QED BY <3>2 DEF LoadShape
    <2>5. vars[s_data[p.name]].val = p.val
      BY DEF LoadReaches
    <2> QED BY <1>n, <2>3, <2>4, <2>5
  <1> QED BY <1>1, <1>2, <1>3

(* The inductive invariant. *)
ConfigInv ==
    /\ CfgTypeOK /\ MapShape /\ WorkShape
    /\ OneBusy /\ OneOwner /\ Follow
    /\ LoadShape /\ LoadKept /\ LoadReaches

(* The configuration begins empty. *)
LEMMA ConfigInit == CfgInit => ConfigInv
  <1> SUFFICES ASSUME CfgInit PROVE ConfigInv
    OBVIOUS
  <1>1. /\ s_data = [n \in Names |-> 0] /\ vars = <<>> /\ copy = [l \in Listeners |-> NoVal]
        /\ th = [t \in Threads |-> Idle] /\ loads = 0 /\ ran = {} /\ overlap = {}
    BY DEF CfgInit
  <1>2. DOMAIN vars = {} /\ vars \in Seq([name : Names, val : Values, cbs : SUBSET Listeners])
    BY <1>1
  <1>3. \A t \in Threads : th[t] = Idle
    BY <1>1
  <1>4. CfgTypeOK
    BY <1>1, <1>2, IdleWork DEF CfgTypeOK
  <1>5. \A t \in Threads : th[t].pc = "idle" /\ th[t].doc = <<>> /\ th[t].had = {}
    BY <1>3, IdleFields
  <1>6. MapShape /\ WorkShape
    BY <1>1, <1>2, <1>5 DEF MapShape, WorkShape
  <1>7. OneBusy /\ OneOwner /\ Follow
    BY <1>2 DEF OneBusy, OneOwner, Follow
  <1>8. Loading = {}
    BY <1>5 DEF Loading
  <1>9. LoadShape /\ LoadKept /\ LoadReaches
    BY <1>1, <1>5, <1>8 DEF LoadShape, LoadKept, LoadReaches
  <1> QED BY <1>4, <1>6, <1>7, <1>9 DEF ConfigInv

(* The inductive invariant is kept by every step. *)
LEMMA ConfigNext == ConfigInv /\ [CfgNext]_cfgVars => ConfigInv'
  <1> SUFFICES ASSUME ConfigInv, [CfgNext]_cfgVars PROVE ConfigInv'
    OBVIOUS
  <1>1. CASE UNCHANGED cfgVars
    BY <1>1 DEF cfgVars, ConfigInv, CfgTypeOK, MapShape, WorkShape, OneBusy, OneOwner, Owns, Busy, Follow,
                Knows, AtRest, LoadShape, LoadKept, OnPath, Reaches, LoadReaches, Loading
  <1>2. CASE CfgNext
    <2>1. PICK t \in Threads : Acts(t)
      BY <1>2 DEF CfgNext, Acts
    <2>2. CfgTypeOK'
      BY TypeNext DEF ConfigInv
    <2> QED BY <2>1, <2>2, MapNext, WorkNext, BusyNext, OwnerNext, FollowNext, LoadNextShape,
               KeptNext, ReachesNext DEF ConfigInv
  <1> QED BY <1>1, <1>2

(* Lookup(), the listeners and LoadFromYaml() keep the types, whatever the *)
(* files: in particular ListAllNodes() gives every node of a file, however *)
(* deep it is, a name.                                                     *)
THEOREM ConfigTypeCorrect == CfgSpec => []CfgTypeOK
  <1>1. ConfigInv => CfgTypeOK
    BY DEF ConfigInv
  <1> QED BY <1>1, ConfigInit, ConfigNext, PTL DEF CfgSpec

(* For any number of threads, names, listeners and files: a name has one   *)
(* variable, and a listener that is subscribed knows the value of a        *)
(* variable that no setValue() is working on, unless two calls have        *)
(* overlapped on it.                                                       *)
THEOREM ListenersKnow == CfgSpec => []ListenersFollow
  <1>1. ConfigInv => ListenersFollow
    BY DEF ConfigInv, MapShape, Follow, ListenersFollow
  <1> QED BY <1>1, ConfigInit, ConfigNext, PTL DEF CfgSpec

(* For any number of threads, names, listeners and files with one root     *)
(* key, however deep: a file loaded with no other load at the same time leaves in every  *)
(* variable it names, of those that existed, the value it gives.           *)
THEOREM FilesReach == CfgSpec => []LoadReaches
  <1>1. ConfigInv => LoadReaches
    BY DEF ConfigInv
  <1> QED BY <1>1, ConfigInit, ConfigNext, PTL DEF CfgSpec

=============================================================================
