-------------------------- MODULE EnvRegistryProofs --------------------------
(***************************************************************************)
(* Proofs about EnvRegistry, for every set of environments, list of the    *)
(* first agent_init, number of commands and of connections: the types, with *)
(* the bounds of the slices; that what is synchronised is managed and has  *)
(* its host in the configuration; that the list and Namespaces follow the  *)
(* commands; how many environments a listener may pass over.               *)
(***************************************************************************)
EXTENDS EnvRegistry, SequenceTheorems, FiniteSetTheorems, WellFoundedInduction, TLAPS

-----------------------------------------------------------------------------
\* Induction and recursion over the natural numbers, without operators as
\* parameters: for a set of numbers and for a step that is a function.

LEMMA LeastNumber ==
  ASSUME NEW S \in SUBSET Nat, S # {}
  PROVE  \E n \in S : \A m \in S : n <= m
<1>1. PICK n \in S : \A m \in S : ~(<<m, n>> \in OpToRel(<, Nat))
  BY NatLessThanWellFounded, WFMin
<1>2. ASSUME NEW m \in S PROVE n <= m
  <2>1. ~(<<m, n>> \in OpToRel(<, Nat))
    BY <1>1
  <2>2. <<m, n>> \in Nat \X Nat
    OBVIOUS
  <2>3. ~(m < n)
    BY <2>1, <2>2 DEF OpToRel
  <2>4. QED
    BY <2>3
<1>3. QED
  BY <1>2

LEMMA SetInduction ==
  ASSUME NEW S, 0 \in S, \A n \in Nat : n \in S => n + 1 \in S
  PROVE  \A n \in Nat : n \in S
<1> DEFINE Others == {n \in Nat : n \notin S}
<1> SUFFICES ASSUME Others # {} PROVE FALSE
  OBVIOUS
<1>1. PICK n \in Others : \A m \in Others : n <= m
  BY LeastNumber
<1>2. n \in Nat /\ n # 0 /\ n - 1 \in Nat
  OBVIOUS
<1>3. n - 1 \in S
  BY <1>1, <1>2
<1>4. (n - 1) + 1 \in S /\ (n - 1) + 1 = n
  BY <1>2, <1>3
<1>5. QED
  BY <1>4

LEMMA RecursiveFunction ==
  ASSUME NEW G, NEW b \in G, NEW n \in Nat, NEW St \in [G \X (1 .. n) -> G]
  PROVE  \E f \in [0 .. n -> G] :
           f[0] = b /\ \A i \in 1 .. n : f[i] = St[<<f[i - 1], i>>]
<1> DEFINE Solves(f, m) ==
      f \in [0 .. m -> G] /\ f[0] = b /\ \A i \in 1 .. m : f[i] = St[<<f[i - 1], i>>]
    S == {m \in Nat : m <= n => \E f : Solves(f, m)}
<1>1. 0 \in S
  <2>1. Solves([i \in 0 .. 0 |-> b], 0)
    OBVIOUS
  <2>2. QED
    BY <2>1
<1>2. ASSUME NEW m \in Nat, m \in S PROVE m + 1 \in S
  <2> SUFFICES ASSUME m + 1 <= n PROVE \E g : Solves(g, m + 1)
    OBVIOUS
  <2>1. PICK f : Solves(f, m)
    BY <1>2
  <2> DEFINE g == [i \in 0 .. m + 1 |-> IF i = m + 1 THEN St[<<f[m], m + 1>>] ELSE f[i]]
  <2>2. f[m] \in G /\ m + 1 \in 1 .. n
    BY <2>1
  <2>3. St[<<f[m], m + 1>>] \in G
    BY <2>2
  <2>4. g \in [0 .. m + 1 -> G] /\ g[0] = b /\ g[m + 1] = St[<<f[m], m + 1>>] /\ g[m] = f[m]
    BY <2>1, <2>3
  <2>5. \A i \in 1 .. m : g[i] = f[i] /\ g[i - 1] = f[i - 1]
    OBVIOUS
  <2>6. \A i \in 1 .. m + 1 : g[i] = St[<<g[i - 1], i>>]
    <3> SUFFICES ASSUME NEW i \in 1 .. m + 1 PROVE g[i] = St[<<g[i - 1], i>>]
      OBVIOUS
    <3>1. CASE i = m + 1
      <4>1. i - 1 = m
        BY <3>1
      <4>2. QED
        BY <2>4, <3>1, <4>1
    <3>2. CASE i \in 1 .. m
      BY <2>1, <2>5, <3>2
    <3>3. QED
      BY <3>1, <3>2
  <2>7. QED
    BY <2>4, <2>6
<1> HIDE DEF S
<1>3. n \in S
  BY <1>1, <1>2, SetInduction
<1>4. QED
  BY <1>3 DEF S

-----------------------------------------------------------------------------
\* The deletion from an array: what is in its first n entries stays there or
\* goes, and what is behind them is not touched.
Scanned(a, n, V) ==
  {b \in [1 .. Len(a) -> V] : /\ \A j \in 1 .. n : \E h \in 1 .. n : b[j] = a[h]
                              /\ \A j \in 1 .. Len(a) : j > n => b[j] = a[j]}

LEMMA ShiftScanned ==
  ASSUME NEW V, NEW a \in Seq(V), NEW n \in 0 .. Len(a), NEW b \in Scanned(a, n, V),
         NEW i \in 1 .. n
  PROVE  Shift(b, n, i) \in Scanned(a, n, V)
<1>1. DOMAIN b = 1 .. Len(a) /\ Len(a) \in Nat
  BY LenProperties DEF Scanned
<1>2. \A j \in 1 .. Len(a) : Shift(b, n, i)[j] = IF j \in i .. n - 1 THEN b[j + 1] ELSE b[j]
  BY <1>1 DEF Shift
<1>3. Shift(b, n, i) \in [1 .. Len(a) -> V]
  <2>1. \A j \in 1 .. Len(a) : (IF j \in i .. n - 1 THEN b[j + 1] ELSE b[j]) \in V
    <3>1. b \in [1 .. Len(a) -> V]
      BY DEF Scanned
    <3>2. \A j \in i .. n - 1 : j + 1 \in 1 .. Len(a)
      BY <1>1
    <3>3. QED
      BY <3>1, <3>2
  <2>2. QED
    BY <1>1, <2>1 DEF Shift
<1>4. \A j \in 1 .. n : \E h \in 1 .. n : Shift(b, n, i)[j] = a[h]
  <2> SUFFICES ASSUME NEW j \in 1 .. n PROVE \E h \in 1 .. n : Shift(b, n, i)[j] = a[h]
    OBVIOUS
  <2>1. PICK m \in 1 .. n : Shift(b, n, i)[j] = b[m]
    <3>1. CASE j \in i .. n - 1
      BY <1>1, <1>2, <3>1
    <3>2. CASE j \notin i .. n - 1
      BY <1>1, <1>2, <3>2
    <3>3. QED
      BY <3>1, <3>2
  <2>2. QED
    BY <2>1 DEF Scanned
<1>5. \A j \in 1 .. Len(a) : j > n => Shift(b, n, i)[j] = a[j]
  BY <1>1, <1>2 DEF Scanned
<1>6. QED
  BY <1>3, <1>4, <1>5 DEF Scanned

\* Scan goes through the entries one by one.
ScanRun(s, a, n, e, V) ==
  /\ s \in [0 .. n -> Scanned(a, n, V)]
  /\ s[0] = a /\ Scan(a, n, e) = s[n]
  /\ \A i \in 1 .. n : s[i] = IF s[i - 1][i] = e THEN Shift(s[i - 1], n, i) ELSE s[i - 1]

LEMMA ScanSteps ==
  ASSUME NEW V, NEW a \in Seq(V), NEW n \in 0 .. Len(a), NEW e
  PROVE  \E s : ScanRun(s, a, n, e, V)
<1> DEFINE
      G == Scanned(a, n, V)
      St == [p \in G \X (1 .. n) |-> IF p[1][p[2]] = e THEN Shift(p[1], n, p[2]) ELSE p[1]]
      Eq(f) == f = [i \in 0 .. n |-> IF i = 0 THEN a
                                     ELSE IF f[i - 1][i] = e THEN Shift(f[i - 1], n, i)
                                     ELSE f[i - 1]]
      s == CHOOSE f : Eq(f)
<1>0. n \in Nat
  BY LenProperties
<1>1. a \in G
  BY LenProperties DEF Scanned
<1>2. St \in [G \X (1 .. n) -> G]
  <2>1. \A p \in G \X (1 .. n) : (IF p[1][p[2]] = e THEN Shift(p[1], n, p[2]) ELSE p[1]) \in G
    BY ShiftScanned
  <2> HIDE DEF G
  <2>2. QED
    BY <2>1
<1>3. PICK f \in [0 .. n -> G] : f[0] = a /\ \A i \in 1 .. n : f[i] = St[<<f[i - 1], i>>]
  <2> HIDE DEF G, St
  <2>1. QED
    BY <1>1, <1>2, RecursiveFunction
<1>4. Eq(f)
  <2> HIDE DEF G
  <2>1. \A i \in 1 .. n : f[i] = IF f[i - 1][i] = e THEN Shift(f[i - 1], n, i) ELSE f[i - 1]
    <3> SUFFICES ASSUME NEW i \in 1 .. n
                 PROVE  f[i] = IF f[i - 1][i] = e THEN Shift(f[i - 1], n, i) ELSE f[i - 1]
      OBVIOUS
    <3>1. f[i - 1] \in G
      BY <1>0
    <3>2. f[i] = St[<<f[i - 1], i>>] /\ <<f[i - 1], i>> \in G \X (1 .. n)
      BY <1>3, <3>1
    <3>3. QED
      BY <3>2
  <2>2. QED
    BY <1>3, <2>1
<1>5. Eq(s)
  <2> HIDE DEF Eq
  <2>1. QED
    BY <1>4
<1>6. Scan(a, n, e) = s[n]
  BY DEF Scan
<1> DEFINE S == {m \in Nat : m <= n => s[m] \in G}
<1> HIDE DEF s, G
<1>7. 0 \in S
  BY <1>1, <1>5
<1>8. ASSUME NEW m \in Nat, m \in S PROVE m + 1 \in S
  <2> SUFFICES ASSUME m + 1 <= n PROVE s[m + 1] \in G
    OBVIOUS
  <2>1. s[m] \in G /\ m + 1 \in 1 .. n
    BY <1>8
  <2>2. s[m + 1] = IF s[m][m + 1] = e THEN Shift(s[m], n, m + 1) ELSE s[m]
    BY <1>5, <2>1
  <2>3. Shift(s[m], n, m + 1) \in G
    BY <2>1, ShiftScanned DEF G
  <2>4. QED
    BY <2>1, <2>2, <2>3
<1> HIDE DEF S
<1>9. \A m \in Nat : m \in S
  BY <1>7, <1>8, SetInduction
<1>10. \A m \in 0 .. n : s[m] \in G
  BY <1>0, <1>9 DEF S
<1>11. s = [m \in 0 .. n |-> s[m]]
  BY <1>5
<1>12. s[0] = a /\ \A i \in 1 .. n : s[i] = IF s[i - 1][i] = e THEN Shift(s[i - 1], n, i) ELSE s[i - 1]
  BY <1>0, <1>5
<1>13. s \in [0 .. n -> G]
  BY <1>10, <1>11
<1>14. ScanRun(s, a, n, e, V)
  BY <1>6, <1>12, <1>13 DEF G, ScanRun
<1>15. QED
  BY <1>14

LEMMA ScanScanned ==
  ASSUME NEW V, NEW a \in Seq(V), NEW n \in 0 .. Len(a), NEW e
  PROVE  Scan(a, n, e) \in Scanned(a, n, V)
<1>1. n \in 0 .. n
  BY LenProperties
<1>2. QED
  BY <1>1, ScanSteps DEF ScanRun

\* What is not there is not removed.
LEMMA ScanNone ==
  ASSUME NEW V, NEW a \in Seq(V), NEW n \in 0 .. Len(a), NEW e, \A j \in 1 .. n : a[j] # e
  PROVE  Scan(a, n, e) = a
<1>0. PICK s : ScanRun(s, a, n, e, V)
  BY ScanSteps
<1>1. /\ s \in [0 .. n -> Scanned(a, n, V)] /\ s[0] = a /\ Scan(a, n, e) = s[n]
      /\ \A i \in 1 .. n : s[i] = IF s[i - 1][i] = e THEN Shift(s[i - 1], n, i) ELSE s[i - 1]
  BY <1>0 DEF ScanRun
<1> DEFINE S == {m \in Nat : m <= n => s[m] = a}
<1>2. 0 \in S
  BY <1>1
<1>3. ASSUME NEW m \in Nat, m \in S PROVE m + 1 \in S
  <2> SUFFICES ASSUME m + 1 <= n PROVE s[m + 1] = a
    OBVIOUS
  <2>1. n \in Nat
    BY LenProperties
  <2>2. m + 1 \in 1 .. n /\ s[m] = a /\ (m + 1) - 1 = m
    BY <1>3, <2>1
  <2>3. QED
    BY <1>1, <2>2
<1> HIDE DEF S
<1>4. n \in Nat
  BY LenProperties
<1>5. n \in S
  BY <1>2, <1>3, <1>4, SetInduction
<1>6. QED
  BY <1>1, <1>4, <1>5 DEF S

\* What is there once is shifted out, and nothing else is.
LEMMA ScanOnce ==
  ASSUME NEW V, NEW a \in Seq(V), NEW n \in 0 .. Len(a), NEW e,
         NEW p \in 1 .. n, a[p] = e, \A j \in 1 .. n : a[j] = e => j = p
  PROVE  Scan(a, n, e) = Shift(a, n, p)
<1>0. PICK s : ScanRun(s, a, n, e, V)
  BY ScanSteps
<1>1. /\ s \in [0 .. n -> Scanned(a, n, V)] /\ s[0] = a /\ Scan(a, n, e) = s[n]
      /\ \A i \in 1 .. n : s[i] = IF s[i - 1][i] = e THEN Shift(s[i - 1], n, i) ELSE s[i - 1]
  BY <1>0 DEF ScanRun
<1>2. n \in Nat /\ p \in Nat /\ p <= n /\ p >= 1 /\ n <= Len(a) /\ Len(a) \in Nat
      /\ DOMAIN a = 1 .. Len(a)
  BY LenProperties
<1> DEFINE b == Shift(a, n, p)
           S == {m \in Nat : m <= n => s[m] = IF m < p THEN a ELSE b}
<1>3. \A j \in 1 .. n : j > p => b[j] # e
  <2> SUFFICES ASSUME NEW j \in 1 .. n, j > p PROVE b[j] # e
    OBVIOUS
  <2>1. j \in DOMAIN a
    BY <1>2
  <2>2. b[j] = IF j \in p .. n - 1 THEN a[j + 1] ELSE a[j]
    BY <2>1 DEF Shift
  <2>3. CASE j \in p .. n - 1
    <3>1. j + 1 \in 1 .. n /\ j + 1 # p
      BY <1>2, <2>3
    <3>2. QED
      BY <2>2, <2>3, <3>1
  <2>4. CASE j \notin p .. n - 1
    BY <1>2, <2>2, <2>4
  <2>5. QED
    BY <2>3, <2>4
<1> HIDE DEF b
<1>4. 0 \in S
  BY <1>1, <1>2
<1>5. ASSUME NEW m \in Nat, m \in S PROVE m + 1 \in S
  <2> SUFFICES ASSUME m + 1 <= n PROVE s[m + 1] = IF m + 1 < p THEN a ELSE b
    OBVIOUS
  <2>1. m + 1 \in 1 .. n /\ s[m] = (IF m < p THEN a ELSE b) /\ (m + 1) - 1 = m
    BY <1>2, <1>5
  <2>2. s[m + 1] = IF s[m][m + 1] = e THEN Shift(s[m], n, m + 1) ELSE s[m]
    BY <1>1, <2>1
  <2>3. CASE m + 1 < p
    <3>1. s[m] = a /\ m + 1 # p
      BY <1>2, <2>1, <2>3
    <3>2. a[m + 1] # e
      BY <2>1, <3>1
    <3>3. QED
      BY <2>2, <2>3, <3>1, <3>2
  <2>4. CASE m + 1 = p
    <3>1. s[m] = a
      BY <1>2, <2>1, <2>4
    <3>2. QED
      BY <1>2, <2>2, <2>4, <3>1 DEF b
  <2>5. CASE m + 1 > p
    <3>1. s[m] = b
      BY <1>2, <2>1, <2>5
    <3>2. b[m + 1] # e
      BY <1>3, <2>1, <2>5
    <3>3. QED
      BY <1>2, <2>2, <2>5, <3>1, <3>2
  <2>6. QED
    BY <1>2, <2>3, <2>4, <2>5
<1> HIDE DEF S
<1>6. n \in S
  BY <1>2, <1>4, <1>5, SetInduction
<1>7. QED
  BY <1>1, <1>2, <1>6 DEF S, b

Holds(b, n, x) == \E j \in 1 .. n : b[j] = x

\* Whatever is removed, all others are found before the last of the entries:
\* that one is another's equal, once something has been shifted out.
LEMMA ScanKeeps ==
  ASSUME NEW V, NEW a \in Seq(V), NEW n \in 0 .. Len(a), NEW e,
         NEW p \in 1 .. n, a[p] = e, NEW q \in 1 .. n, a[q] # e
  PROVE  Holds(Scan(a, n, e), n - 1, a[q])
<1>0. PICK s : ScanRun(s, a, n, e, V)
  BY ScanSteps
<1>1. /\ s \in [0 .. n -> Scanned(a, n, V)] /\ s[0] = a /\ Scan(a, n, e) = s[n]
      /\ \A i \in 1 .. n : s[i] = IF s[i - 1][i] = e THEN Shift(s[i - 1], n, i) ELSE s[i - 1]
  BY <1>0 DEF ScanRun
<1>2. n \in Nat /\ n >= 1 /\ n <= Len(a) /\ Len(a) \in Nat /\ DOMAIN a = 1 .. Len(a)
  BY LenProperties
<1> DEFINE Has(b) == \E j \in 1 .. n : b[j] = a[q]
           Spare(b) == b[n] = e \/ \E j \in 1 .. n - 1 : b[j] = b[n]
           S == {m \in Nat : m <= n => /\ Has(s[m])
                                       /\ Spare(s[m]) \/ (s[m] = a /\ \A j \in 1 .. m : a[j] # e)}
<1>3. 0 \in S
  BY <1>1, <1>2
<1>4. ASSUME NEW m \in Nat, m \in S PROVE m + 1 \in S
  <2> SUFFICES ASSUME m + 1 <= n
               PROVE  /\ Has(s[m + 1])
                      /\ Spare(s[m + 1]) \/ (s[m + 1] = a /\ \A j \in 1 .. m + 1 : a[j] # e)
    OBVIOUS
  <2> DEFINE i == m + 1
             b == s[m]
             c == Shift(b, n, i)
  <2>1. /\ i \in 1 .. n /\ m \in 0 .. n /\ i - 1 = m
        /\ Has(b) /\ (Spare(b) \/ (b = a /\ \A j \in 1 .. m : a[j] # e))
    BY <1>2, <1>4
  <2>2. s[i] = IF b[i] = e THEN c ELSE b
    BY <1>1, <2>1
  <2>3. DOMAIN b = 1 .. Len(a)
    BY <1>1, <2>1 DEF Scanned
  <2> HIDE DEF i, b
  <2>4. CASE b[i] # e
    <3>1. b = a => \A j \in 1 .. m + 1 : j \in 1 .. m \/ j = i
      BY DEF i
    <3>2. QED
      BY <2>1, <2>2, <2>4, <3>1 DEF i
  <2>5. CASE b[i] = e
    <3>1. \A j \in 1 .. n : c[j] = IF j \in i .. n - 1 THEN b[j + 1] ELSE b[j]
      BY <1>2, <2>3 DEF Shift
    <3>2. Has(c)
      <4>1. PICK j \in 1 .. n : b[j] = a[q]
        BY <2>1
      <4>2. j # i
        BY <2>5, <4>1
      <4>3. CASE j < i
        <5>1. c[j] = b[j]
          BY <1>2, <2>1, <3>1, <4>3
        <5>2. QED
          BY <4>1, <5>1
      <4>4. CASE j > i
        <5>1. j - 1 \in 1 .. n /\ j - 1 \in i .. n - 1 /\ (j - 1) + 1 = j
          BY <1>2, <2>1, <4>4
        <5>2. c[j - 1] = b[j]
          BY <3>1, <5>1
        <5>3. QED
          BY <4>1, <5>1, <5>2
      <4>5. QED
        BY <1>2, <2>1, <4>2, <4>3, <4>4
    <3>3. Spare(c)
      <4>1. c[n] = b[n]
        BY <1>2, <3>1
      <4>2. CASE i = n
        BY <2>5, <4>1, <4>2
      <4>3. CASE i # n
        <5>1. n - 1 \in 1 .. n - 1 /\ n - 1 \in 1 .. n /\ n - 1 \in i .. n - 1 /\ (n - 1) + 1 = n
          BY <1>2, <2>1, <4>3
        <5>2. c[n - 1] = b[n]
          BY <3>1, <5>1
        <5>3. QED
          BY <4>1, <5>1, <5>2
      <4>4. QED
        BY <4>2, <4>3
    <3>4. QED
      BY <2>2, <2>5, <3>2, <3>3 DEF i
  <2>6. QED
    BY <2>4, <2>5
<1> HIDE DEF S
<1>5. n \in S
  BY <1>2, <1>3, <1>4, SetInduction
<1>6. Has(s[n]) /\ Spare(s[n])
  BY <1>2, <1>5 DEF S
<1>7. PICK j \in 1 .. n : s[n][j] = a[q]
  BY <1>6
<1> USE DEF Holds
<1>8. CASE j = n
  BY <1>1, <1>6, <1>7, <1>8
<1>9. CASE j # n
  <2>1. j \in 1 .. n - 1
    BY <1>2, <1>9
  <2>2. QED
    BY <1>1, <1>7, <2>1
<1>10. QED
  BY <1>8, <1>9

-----------------------------------------------------------------------------
\* The types of all variables, and the slices that are within their arrays.

SliceType == [arr : Nat, len : Nat]
InitType == [pc : {"idle", "keys", "create", "mgrs", "store", "done"}, list : Seq(Envs)]
ListenType == [pc : {"none", "range", "slot", "done"}, slice : SliceType, pos : Nat,
               cur : Envs \cup {None}, cut : BOOLEAN]
AddType ==
  [pc : {"idle", "check", "append", "create", "keys", "write", "mgr", "failed", "listen",
         "slot", "watched", "done"},
   held : SliceType, content : SUBSET Envs, cut : BOOLEAN]
DelType == [pc : {"idle", "list", "store", "signal", "namespace", "done"}, left : SliceType]

\* The sets, the goroutines and the commands.
SetsType ==
  /\ config \subseteq Envs /\ namespaces \subseteq Envs /\ mgrs \subseteq Envs
  /\ cluster \subseteq Envs /\ repos \subseteq Envs /\ stops \subseteq Envs
  /\ failed \subseteq Envs
ScalarsType ==
  /\ loops \in [Envs -> {"none", "on", "told"}]
  /\ conn \in Inits /\ known \in Seq(Envs) /\ adds \in [Envs -> Nat]
  /\ running \in BOOLEAN /\ met \in BOOLEAN /\ process \in {"up", "crashed"}
CommandsType ==
  /\ init \in [Inits -> InitType]
  /\ add \in [Envs -> AddType]
  /\ del \in [Envs -> DelType]
ListenersType ==
  /\ listen \in [Inits -> ListenType]
  /\ \A i \in Inits : listen[i].pc = "slot" => listen[i].cur \in Envs
HeapType == arrays \in Seq(Seq(Envs \cup {None})) /\ envs \in SliceType

\* Every slice that somebody holds is filled with environments: they are only
\* replaced by others, and never taken away from an array.
SliceOK(s) ==
  /\ s.arr \in DOMAIN arrays /\ s.len <= Len(arrays[s.arr])
  /\ \A j \in 1 .. s.len : arrays[s.arr][j] \in Envs
SliceInv ==
  /\ SliceOK(envs)
  /\ \A i \in Inits : SliceOK(listen[i].slice)
  /\ \A e \in Envs : SliceOK(del[e].left) /\ SliceOK(add[e].held)

Types == SetsType /\ ScalarsType /\ CommandsType /\ ListenersType /\ HeapType /\ SliceInv

-----------------------------------------------------------------------------
\* Which actions change a variable.
LEMMA WhoChanges ==
  ASSUME [Next]_vars
  PROVE  /\ \/ \E i \in Inits : InitStores(i)
            \/ \E e \in Envs : AddAppends(e) \/ DeleteShifts(e)
            \/ UNCHANGED arrays
         /\ \/ \E i \in Inits : InitStores(i)
            \/ \E e \in Envs : AddAppends(e) \/ DeleteStores(e)
            \/ UNCHANGED envs
         /\ \/ \E i \in Inits : InitWrites(i)
            \/ \E e \in Envs : AddWrites(e)
            \/ UNCHANGED config
         /\ \/ \E i \in Inits : InitCreates(i)
            \/ \E e \in Envs : AddAppends(e) \/ DeleteShifts(e)
            \/ UNCHANGED namespaces
         /\ \/ \E i \in Inits : InitManages(i) \/ InitFails(i)
            \/ \E e \in Envs : AddManages(e) \/ DeleteStores(e)
            \/ UNCHANGED mgrs
         /\ \/ \E i \in Inits : InitCreates(i) \/ InitFails(i)
            \/ \E e \in Envs : AddCreates(e) \/ DeleteFinishes(e)
            \/ UNCHANGED cluster
         /\ \/ \E i \in Inits : ListenAcquires(i)
            \/ \E e \in Envs : AddAcquires(e) \/ DeleteSignals(e)
            \/ UNCHANGED repos
         /\ \/ \E i \in Inits : ListenVisits(i)
            \/ \E e \in Envs : AddListens(e) \/ DeleteSignals(e)
            \/ Reconnects \/ UNCHANGED stops
         /\ \/ \E i \in Inits : ListenAcquires(i)
            \/ \E e \in Envs : AddAcquires(e) \/ DeleteSignals(e) \/ LoopEnds(e)
            \/ Reconnects \/ UNCHANGED loops
         /\ \/ \E i \in Inits : InitFails(i)
            \/ \E e \in Envs : AddFails(e)
            \/ UNCHANGED failed
         /\ \/ \E e \in Envs : AddArrives(e) \/ DeleteArrives(e)
            \/ UNCHANGED known
         /\ \/ \E i \in Inits : InitStores(i) \/ ListenVisits(i) \/ ListenAcquires(i) \/ ListenFinishes(i)
            \/ Reconnects \/ UNCHANGED listen
         /\ (\E i \in Inits : InitStep(i)) \/ UNCHANGED init
         /\ (\E e \in Envs : AddStep(e)) \/ Reconnects \/ UNCHANGED add
         /\ (\E e \in Envs : DeleteStep(e)) \/ UNCHANGED del
<1> USE DEF heapVars, setVars, gitVars, srvVars, histVars
<1>1. ASSUME NEW i \in Inits, InitStep(i)
      PROVE  /\ InitStores(i) \/ UNCHANGED <<arrays, envs, listen>>
             /\ InitWrites(i) \/ UNCHANGED config
             /\ InitCreates(i) \/ UNCHANGED namespaces
             /\ InitManages(i) \/ InitFails(i) \/ UNCHANGED mgrs
             /\ InitCreates(i) \/ InitFails(i) \/ UNCHANGED cluster
             /\ InitFails(i) \/ UNCHANGED failed
             /\ UNCHANGED <<known, repos, stops, loops, add, del>>
  BY <1>1 DEF InitStep, InitArrives, InitWrites, InitCreates, InitManages, InitStores, InitFails
<1>2. ASSUME NEW e \in Envs, AddStep(e)
      PROVE  /\ AddAppends(e) \/ UNCHANGED <<arrays, envs, namespaces>>
             /\ AddWrites(e) \/ UNCHANGED config
             /\ AddManages(e) \/ UNCHANGED mgrs
             /\ AddCreates(e) \/ UNCHANGED cluster
             /\ AddAcquires(e) \/ UNCHANGED <<repos, loops>>
             /\ AddListens(e) \/ UNCHANGED stops
             /\ AddFails(e) \/ UNCHANGED failed
             /\ AddArrives(e) \/ UNCHANGED known
             /\ UNCHANGED <<init, listen, del>>
  BY <1>2 DEF AddStep, AddArrives, AddChecks, AddAppends, AddCreates, AddReads, AddWrites,
     AddManages, AddFails, AddListens, AddAcquires, AddFinishes
<1>3. ASSUME NEW e \in Envs, DeleteStep(e)
      PROVE  /\ DeleteShifts(e) \/ UNCHANGED <<arrays, namespaces>>
             /\ DeleteStores(e) \/ UNCHANGED <<envs, mgrs>>
             /\ DeleteSignals(e) \/ UNCHANGED <<repos, stops, loops>>
             /\ DeleteFinishes(e) \/ UNCHANGED cluster
             /\ DeleteArrives(e) \/ UNCHANGED known
             /\ UNCHANGED <<config, failed, init, listen, add>>
  BY <1>3 DEF DeleteStep, DeleteArrives, DeleteShifts, DeleteStores, DeleteSignals, DeleteFinishes
<1>4. ASSUME NEW i \in Inits, ListenVisits(i) \/ ListenAcquires(i) \/ ListenFinishes(i)
      PROVE  /\ UNCHANGED <<arrays, envs, config, namespaces, mgrs, cluster, failed, known, init, add, del>>
             /\ ListenAcquires(i) \/ UNCHANGED <<repos, loops>>
             /\ ListenVisits(i) \/ UNCHANGED stops
  BY <1>4 DEF ListenVisits, ListenAcquires, ListenFinishes
<1>5. ASSUME NEW e \in Envs, ExportPanics(e) \/ LoopEnds(e)
      PROVE  /\ UNCHANGED <<arrays, envs, config, namespaces, mgrs, cluster, repos, stops, failed, known,
                            init, listen, add, del>>
             /\ LoopEnds(e) \/ UNCHANGED loops
  BY <1>5 DEF ExportPanics, LoopEnds
<1>6. ASSUME Reconnects
      PROVE  UNCHANGED <<arrays, envs, config, namespaces, mgrs, cluster, repos, failed, known, init, del>>
  BY <1>6 DEF Reconnects
<1>7. ASSUME UNCHANGED vars
      PROVE  UNCHANGED <<arrays, envs, config, namespaces, mgrs, cluster, repos, stops, loops, failed, known,
                         init, listen, add, del>>
  BY <1>7 DEF vars
<1>8. QED
  BY <1>1, <1>2, <1>3, <1>4, <1>5, <1>6, <1>7 DEF Next

-----------------------------------------------------------------------------
\* The lists of the service.

LEMMA ListSet ==
  ASSUME NEW s \in Seq(Envs)
  PROVE  /\ ToSet(s) \subseteq Envs
         /\ \A n \in 0 .. Len(s) : ToSet(SubSeq(s, 1, n)) \subseteq ToSet(s)
         /\ \A e : Contains(s, e) <=> e \in ToSet(s)
<1>1. DOMAIN s = 1 .. Len(s) /\ Len(s) \in Nat /\ \A j \in 1 .. Len(s) : s[j] \in Envs
  BY LenProperties
<1>2. ToSet(s) \subseteq Envs
  BY <1>1 DEF ToSet
<1>3. ASSUME NEW n \in 0 .. Len(s) PROVE ToSet(SubSeq(s, 1, n)) \subseteq ToSet(s)
  <2>1. Len(SubSeq(s, 1, n)) = n /\ \A j \in 1 .. n : SubSeq(s, 1, n)[j] = s[j]
    BY <1>1
  <2>2. DOMAIN SubSeq(s, 1, n) = 1 .. n
    BY <1>1, <2>1
  <2>3. QED
    BY <1>1, <2>1, <2>2 DEF ToSet
<1>4. \A e : Contains(s, e) <=> e \in ToSet(s)
  BY <1>1 DEF Contains, ToSet
<1>5. QED
  BY <1>2, <1>3, <1>4

LEMMA ListAppend ==
  ASSUME NEW s \in Seq(Envs), NEW e \in Envs
  PROVE  Append(s, e) \in Seq(Envs) /\ ToSet(Append(s, e)) = ToSet(s) \cup {e}
<1>1. /\ DOMAIN s = 1 .. Len(s) /\ Len(s) \in Nat
      /\ Append(s, e) \in Seq(Envs) /\ Len(Append(s, e)) = Len(s) + 1
      /\ DOMAIN Append(s, e) = 1 .. Len(s) + 1
      /\ \A j \in 1 .. Len(s) : Append(s, e)[j] = s[j]
      /\ Append(s, e)[Len(s) + 1] = e
  BY LenProperties, AppendProperties
<1>2. ToSet(Append(s, e)) \subseteq ToSet(s) \cup {e}
  <2> SUFFICES ASSUME NEW j \in 1 .. Len(s) + 1 PROVE Append(s, e)[j] \in ToSet(s) \cup {e}
    BY <1>1 DEF ToSet
  <2>1. CASE j \in 1 .. Len(s)
    BY <1>1, <2>1 DEF ToSet
  <2>2. CASE j = Len(s) + 1
    BY <1>1, <2>2
  <2>3. QED
    BY <1>1, <2>1, <2>2
<1>3. ToSet(s) \cup {e} \subseteq ToSet(Append(s, e))
  <2>1. \A j \in 1 .. Len(s) : s[j] \in ToSet(Append(s, e))
    BY <1>1 DEF ToSet
  <2>2. e \in ToSet(Append(s, e))
    <3>1. Len(s) + 1 \in 1 .. Len(s) + 1
      BY <1>1
    <3>2. QED
      BY <1>1, <3>1 DEF ToSet
  <2>3. QED
    BY <1>1, <2>1, <2>2 DEF ToSet
<1>4. QED
  BY <1>1, <1>2, <1>3

LEMMA ListRemove ==
  ASSUME NEW s \in Seq(Envs), NEW n \in 1 .. Len(s)
  PROVE  /\ RemoveAt(s, n) \in Seq(Envs)
         /\ \A e \in ToSet(s) : e # s[n] => e \in ToSet(RemoveAt(s, n))
         /\ ToSet(RemoveAt(s, n)) \subseteq ToSet(s)
         /\ IsInjective(s) => IsInjective(RemoveAt(s, n)) /\ s[n] \notin ToSet(RemoveAt(s, n))
<1> DEFINE p == SubSeq(s, 1, n - 1)
           q == SubSeq(s, n + 1, Len(s))
<1>1. DOMAIN s = 1 .. Len(s) /\ Len(s) \in Nat /\ n \in Nat
  BY LenProperties
<1>2. /\ p \in Seq(Envs) /\ Len(p) = n - 1
      /\ \A j \in 1 .. n - 1 : p[j] = s[j]
  BY <1>1
<1>3. /\ q \in Seq(Envs) /\ Len(q) = Len(s) - n
      /\ \A j \in 1 .. Len(s) - n : q[j] = s[n + j]
  <2>1. \A j \in n + 1 .. Len(s) : s[j] \in Envs
    BY <1>1
  <2>2. /\ q \in Seq(Envs) /\ Len(q) = IF n + 1 <= Len(s) THEN Len(s) - (n + 1) + 1 ELSE 0
        /\ \A j \in 1 .. Len(s) - (n + 1) + 1 : q[j] = s[n + 1 + j - 1]
    BY <1>1, <2>1, SubSeqProperties
  <2>3. Len(s) - (n + 1) + 1 = Len(s) - n /\ \A j \in 1 .. Len(s) - n : n + 1 + j - 1 = n + j
    BY <1>1
  <2> HIDE DEF q
  <2>4. \A j \in 1 .. Len(s) - n : q[j] = s[n + j]
    BY <2>2, <2>3
  <2>5. Len(q) = Len(s) - n
    <3>1. CASE n + 1 <= Len(s)
      BY <2>2, <2>3, <3>1
    <3>2. CASE ~(n + 1 <= Len(s))
      <4>1. Len(s) \in Nat /\ n \in Nat /\ n <= Len(s)
        BY <1>1
      <4>2. \A l, k \in Nat : k <= l /\ ~(k + 1 <= l) => l - k = 0
        OBVIOUS
      <4>3. Len(s) - n = 0
        BY <3>2, <4>1, <4>2
      <4>4. QED
        BY <2>2, <3>2, <4>3
    <3>3. QED
      BY <3>1, <3>2
  <2>6. QED
    BY <2>2, <2>4, <2>5
<1>4. RemoveAt(s, n) = p \o q
  BY DEF RemoveAt
<1> HIDE DEF p, q
<1>5. /\ p \o q \in Seq(Envs) /\ Len(p \o q) = Len(s) - 1
      /\ \A j \in 1 .. n - 1 : (p \o q)[j] = p[j]
      /\ \A j \in 1 .. Len(s) - n : (p \o q)[n - 1 + j] = q[j]
  <2>1. /\ p \o q \in Seq(Envs) /\ Len(p \o q) = Len(p) + Len(q)
        /\ \A j \in 1 .. Len(p) + Len(q) : (p \o q)[j] = IF j <= Len(p) THEN p[j] ELSE q[j - Len(p)]
    BY <1>2, <1>3, ConcatProperties
  <2>2. Len(p) + Len(q) = Len(s) - 1
    BY <1>1, <1>2, <1>3
  <2>3. ASSUME NEW j \in 1 .. n - 1 PROVE (p \o q)[j] = p[j]
    <3>1. j \in 1 .. Len(p) + Len(q) /\ j <= Len(p)
      BY <1>1, <1>2, <1>3
    <3>2. QED
      BY <2>1, <3>1
  <2>4. ASSUME NEW j \in 1 .. Len(s) - n PROVE (p \o q)[n - 1 + j] = q[j]
    <3>1. n - 1 + j \in 1 .. Len(p) + Len(q) /\ ~(n - 1 + j <= Len(p)) /\ (n - 1 + j) - Len(p) = j
      BY <1>1, <1>2, <1>3
    <3>2. QED
      BY <2>1, <3>1
  <2>5. QED
    BY <2>1, <2>2, <2>3, <2>4
<1>6. ASSUME NEW j \in 1 .. Len(s), j # n
      PROVE  s[j] \in ToSet(p \o q)
  <2>1. DOMAIN (p \o q) = 1 .. Len(s) - 1
    BY <1>5, LenProperties
  <2>2. CASE j < n
    <3>1. j \in 1 .. n - 1 /\ j \in 1 .. Len(s) - 1
      BY <1>1, <2>2
    <3>2. QED
      BY <1>2, <1>5, <2>1, <3>1 DEF ToSet
  <2>3. CASE j > n
    <3>1. j - n \in 1 .. Len(s) - n /\ j - 1 \in 1 .. Len(s) - 1 /\ n - 1 + (j - n) = j - 1
          /\ n + (j - n) = j
      BY <1>1, <2>3
    <3>2. (p \o q)[j - 1] = s[j]
      BY <1>3, <1>5, <3>1
    <3>3. QED
      BY <2>1, <3>1, <3>2 DEF ToSet
  <2>4. QED
    BY <1>1, <1>6, <2>2, <2>3
<1>7. \A e \in ToSet(s) : \E j \in 1 .. Len(s) : e = s[j]
  BY <1>1 DEF ToSet
<1> DEFINE r == p \o q
           old(j) == IF j < n THEN j ELSE j + 1
<1>8. ASSUME NEW j \in 1 .. Len(s) - 1
      PROVE  r[j] = s[old(j)] /\ old(j) \in 1 .. Len(s) /\ old(j) # n
  <2>1. CASE j < n
    <3>1. j \in 1 .. n - 1 /\ j \in 1 .. Len(s)
      BY <1>1, <2>1
    <3>2. QED
      BY <1>2, <1>5, <2>1, <3>1
  <2>2. CASE ~(j < n)
    <3>1. j - n + 1 \in 1 .. Len(s) - n /\ n - 1 + (j - n + 1) = j /\ n + (j - n + 1) = j + 1
          /\ j + 1 \in 1 .. Len(s) /\ j + 1 # n
      BY <1>1, <2>2
    <3>2. r[j] = s[j + 1]
      <4>1. PICK k \in 1 .. Len(s) - n : n - 1 + k = j /\ n + k = j + 1
        BY <3>1
      <4>2. r[n - 1 + k] = q[k] /\ q[k] = s[n + k]
        BY <1>3, <1>5
      <4>3. QED
        BY <4>1, <4>2
    <3>3. QED
      BY <2>2, <3>1, <3>2
  <2>3. QED
    BY <2>1, <2>2
<1>9. \A j, k \in 1 .. Len(s) - 1 : old(j) = old(k) => j = k
  BY <1>1
<1>10. DOMAIN r = 1 .. Len(s) - 1
  BY <1>5, LenProperties
<1> HIDE DEF r, old
<1>11. ToSet(r) \subseteq ToSet(s)
  BY <1>1, <1>8, <1>10 DEF ToSet
<1>12. ASSUME IsInjective(s) PROVE IsInjective(r) /\ s[n] \notin ToSet(r)
  <2>1. \A j, k \in 1 .. Len(s) : s[j] = s[k] => j = k
    BY <1>1, <1>12 DEF IsInjective
  <2>2. \A j, k \in 1 .. Len(s) - 1 : r[j] = r[k] => j = k
    BY <1>8, <1>9, <2>1
  <2>3. \A j \in 1 .. Len(s) - 1 : r[j] # s[n]
    BY <1>8, <2>1
  <2>4. QED
    BY <1>10, <2>2, <2>3 DEF IsInjective, ToSet
<1>13. QED
  BY <1>4, <1>5, <1>6, <1>7, <1>11, <1>12 DEF r

-----------------------------------------------------------------------------
\* The types are kept.

LEMMA StepSets ==
  ASSUME Types, [Next]_vars
  PROVE  SetsType'
<1> USE DEF Types, SetsType
<1>1. /\ \A i \in Inits : init[i].list \in Seq(Envs) /\ ToSet(init[i].list) \subseteq Envs
      /\ \A e \in Envs : add[e].content \subseteq Envs
  <2>1. \A i \in Inits : init[i].list \in Seq(Envs)
    BY DEF CommandsType, InitType
  <2>2. \A e \in Envs : add[e].content \subseteq Envs
    BY DEF CommandsType, AddType
  <2>3. QED
    BY <2>1, <2>2, ListSet
<1>2. ASSUME NEW i \in Inits, InitFails(i)
      PROVE  cluster' \subseteq Envs /\ mgrs' \subseteq Envs /\ failed' \subseteq Envs
  <2>1. PICK n \in 0 .. Len(init[i].list) :
          LET some == ToSet(SubSeq(init[i].list, 1, n)) IN
          /\ cluster' \in {cluster, cluster \cup some}
          /\ mgrs' \in {mgrs, mgrs \cup some}
    BY <1>2 DEF InitFails
  <2>2. ToSet(SubSeq(init[i].list, 1, n)) \subseteq Envs
    BY <1>1, ListSet
  <2>3. failed' = failed \cup ToSet(init[i].list)
    BY <1>2 DEF InitFails
  <2>4. QED
    BY <1>1, <2>1, <2>2, <2>3
<1>3. config' \subseteq Envs
  BY <1>1, WhoChanges DEF InitWrites, AddWrites
<1>4. namespaces' \subseteq Envs
  BY <1>1, WhoChanges DEF InitCreates, AddAppends, DeleteShifts
<1>5. mgrs' \subseteq Envs
  BY <1>1, <1>2, WhoChanges DEF InitManages, AddManages, DeleteStores
<1>6. cluster' \subseteq Envs
  BY <1>1, <1>2, WhoChanges DEF InitCreates, AddCreates, DeleteFinishes
<1>7. repos' \subseteq Envs
  <2>1. ASSUME NEW i \in Inits, ListenAcquires(i) PROVE repos' \subseteq Envs
    <3>1. listen[i].cur \in Envs
      BY <2>1 DEF ListenAcquires, ListenersType
    <3>2. QED
      BY <2>1, <3>1 DEF ListenAcquires, Starts
  <2>2. QED
    BY <2>1, WhoChanges DEF AddAcquires, DeleteSignals, Starts
<1>8. stops' \subseteq Envs
  <2>1. ASSUME NEW i \in Inits, ListenVisits(i) PROVE stops' \subseteq Envs
    <3>1. /\ listen[i].pos \in Nat /\ listen[i].slice.len \in Nat
          /\ listen[i].pos < listen[i].slice.len
          /\ stops' = stops \cup {arrays[listen[i].slice.arr][listen[i].pos + 1]}
      BY <2>1 DEF ListenVisits, ListenersType, ListenType, SliceType
    <3>2. listen[i].pos + 1 \in 1 .. listen[i].slice.len
      BY <3>1
    <3>3. QED
      BY <3>1, <3>2 DEF SliceInv, SliceOK
  <2>2. QED
    BY <2>1, WhoChanges DEF AddListens, DeleteSignals, Reconnects
<1>9. failed' \subseteq Envs
  BY <1>2, WhoChanges DEF AddFails
<1>10. QED
  BY <1>3, <1>4, <1>5, <1>6, <1>7, <1>8, <1>9

LEMMA StepKnown ==
  ASSUME Types, [Next]_vars
  PROVE  /\ known' \in Seq(Envs)
         /\ \A e \in ToSet(known) : e \in ToSet(known') \/ DeleteArrives(e)
         /\ \A e \in Envs : AddArrives(e) => e \in ToSet(known')
<1>1. known \in Seq(Envs) /\ DOMAIN known = 1 .. Len(known)
  BY LenProperties DEF Types, ScalarsType
<1>2. ASSUME NEW e \in Envs, AddArrives(e)
      PROVE  known' \in Seq(Envs) /\ ToSet(known') = ToSet(known) \cup {e}
  BY <1>1, <1>2, ListSet, ListAppend DEF AddArrives
<1>3. ASSUME NEW e \in Envs, DeleteArrives(e)
      PROVE  known' \in Seq(Envs) /\ \A h \in ToSet(known) : h # e => h \in ToSet(known')
  <2> DEFINE n == CHOOSE n \in DOMAIN known : known[n] = e
  <2>1. \E m \in DOMAIN known : known[m] = e
    BY <1>1, <1>3 DEF DeleteArrives, Contains
  <2>2. n \in 1 .. Len(known) /\ known[n] = e
    BY <1>1, <2>1
  <2>3. known' = RemoveAt(known, n)
    BY <1>3 DEF DeleteArrives
  <2> HIDE DEF n
  <2>4. QED
    BY <1>1, <2>2, <2>3, ListRemove
<1>4. \A e \in Envs : ~(AddArrives(e) /\ UNCHANGED known) \/ e \in ToSet(known')
  BY <1>1, <1>2
<1>5. QED
  BY <1>1, <1>2, <1>3, WhoChanges

LEMMA WhoAdds ==
  ASSUME [Next]_vars
  PROVE  (\E e \in Envs : AddArrives(e)) \/ UNCHANGED adds
<1> USE DEF srvVars
<1>1. ASSUME NEW i \in Inits, InitStep(i) \/ ListenVisits(i) \/ ListenAcquires(i) \/ ListenFinishes(i)
      PROVE  UNCHANGED adds
  BY <1>1 DEF InitStep, InitArrives, InitWrites, InitCreates, InitManages, InitStores, InitFails,
     ListenVisits, ListenAcquires, ListenFinishes
<1>2. ASSUME NEW e \in Envs, AddStep(e), ~AddArrives(e) PROVE UNCHANGED adds
  BY <1>2 DEF AddStep, AddChecks, AddAppends, AddCreates, AddReads, AddWrites, AddManages, AddFails,
     AddListens, AddAcquires, AddFinishes
<1>3. ASSUME NEW e \in Envs, DeleteStep(e) \/ ExportPanics(e) \/ LoopEnds(e) PROVE UNCHANGED adds
  BY <1>3 DEF DeleteStep, DeleteArrives, DeleteShifts, DeleteStores, DeleteSignals, DeleteFinishes,
     ExportPanics, LoopEnds
<1>4. ASSUME Reconnects \/ UNCHANGED vars PROVE UNCHANGED adds
  BY <1>4 DEF Reconnects, vars
<1>5. QED
  BY <1>1, <1>2, <1>3, <1>4 DEF Next

LEMMA StepScalars ==
  ASSUME Types, [Next]_vars
  PROVE  ScalarsType'
<1> USE DEF Types, ScalarsType
<1>1. loops' \in [Envs -> {"none", "on", "told"}]
  <2>1. CASE Reconnects
    BY <2>1 DEF Reconnects
  <2>2. ASSUME NEW i \in Inits, ListenAcquires(i) PROVE loops' \in [Envs -> {"none", "on", "told"}]
    BY <2>2 DEF ListenAcquires, Starts
  <2>3. ASSUME NEW e \in Envs, AddAcquires(e) \/ DeleteSignals(e) \/ LoopEnds(e)
        PROVE  loops' \in [Envs -> {"none", "on", "told"}]
    <3>1. CASE AddAcquires(e)
      BY <3>1 DEF AddAcquires, Starts
    <3>2. CASE DeleteSignals(e)
      BY <3>2 DEF DeleteSignals
    <3>3. CASE LoopEnds(e)
      BY <3>3 DEF LoopEnds
    <3>4. QED
      BY <2>3, <3>1, <3>2, <3>3
  <2>4. QED
    BY <2>1, <2>2, <2>3, WhoChanges
<1>2. /\ conn' \in Inits
      /\ running' \in BOOLEAN
      /\ met' \in BOOLEAN
      /\ process' \in {"up", "crashed"}
  <2> USE DEF heapVars, setVars, gitVars, srvVars, histVars
  <2>1. CASE UNCHANGED vars
    BY <2>1 DEF vars
  <2>2. CASE Reconnects
    <3>1. conn' \in Inits
      <4>1. conn' = conn + 1 /\ conn < MaxInits
        BY <2>2 DEF Reconnects
      <4>2. MaxInits \in Nat /\ conn \in 1 .. MaxInits
        BY RegistryAssumption DEF Inits
      <4>3. QED
        BY <4>1, <4>2 DEF Inits
    <3>2. running' = FALSE /\ met' = met /\ process' = process
      BY <2>2 DEF Reconnects
    <3>3. QED
      BY <3>1, <3>2
  <2>3. ASSUME NEW i \in Inits, InitStep(i) \/ ListenVisits(i) \/ ListenAcquires(i) \/ ListenFinishes(i)
        PROVE  UNCHANGED <<conn, process>> /\ running' \in BOOLEAN /\ met' \in BOOLEAN
    BY <2>3 DEF InitStep, InitArrives, InitWrites, InitCreates, InitManages, InitStores, InitFails,
       ListenVisits, ListenAcquires, ListenFinishes, Arrives
  <2>4. ASSUME NEW e \in Envs, AddStep(e)
        PROVE  UNCHANGED <<conn, process>> /\ running' \in BOOLEAN /\ met' \in BOOLEAN
    BY <2>4 DEF AddStep, AddArrives, AddChecks, AddAppends, AddCreates, AddReads, AddWrites,
       AddManages, AddFails, AddListens, AddAcquires, AddFinishes, Arrives
  <2>5. ASSUME NEW e \in Envs, DeleteStep(e) \/ ExportPanics(e) \/ LoopEnds(e)
        PROVE  /\ UNCHANGED <<conn, running>> /\ met' \in BOOLEAN
               /\ process' \in {"up", "crashed"}
    BY <2>5 DEF DeleteStep, DeleteArrives, DeleteShifts, DeleteStores, DeleteSignals, DeleteFinishes,
       ExportPanics, LoopEnds, Arrives
  <2>6. QED
    BY <2>1, <2>2, <2>3, <2>4, <2>5 DEF Next
<1>3. adds' \in [Envs -> Nat]
  BY WhoAdds DEF AddArrives
<1>4. QED
  BY <1>1, <1>2, <1>3, StepKnown

LEMMA StepInit ==
  ASSUME Types, [Next]_vars
  PROVE  init' \in [Inits -> InitType]
<1> USE DEF Types, CommandsType, InitType
<1>1. ASSUME NEW i \in Inits, InitArrives(i) PROVE init' \in [Inits -> InitType]
  BY <1>1 DEF InitArrives, ScalarsType
<1>2. ASSUME NEW i \in Inits, InitWrites(i) \/ InitCreates(i) \/ InitManages(i) \/ InitStores(i) \/ InitFails(i)
      PROVE  init' \in [Inits -> InitType]
  BY <1>2 DEF InitGoes, InitWrites, InitCreates, InitManages, InitStores, InitFails
<1>3. QED
  BY <1>1, <1>2, WhoChanges DEF InitStep

LEMMA StepAdd ==
  ASSUME Types, [Next]_vars
  PROVE  add' \in [Envs -> AddType]
<1> USE DEF Types, CommandsType, AddType
<1>1. ASSUME NEW e \in Envs, AddReads(e) PROVE add' \in [Envs -> AddType]
  <2>1. Elements(envs) \subseteq Envs
    <3>1. \A j \in 1 .. envs.len : arrays[envs.arr][j] \in Envs
      BY DEF SliceInv, SliceOK
    <3>2. QED
      BY <3>1 DEF Elements
  <2>2. add' = [add EXCEPT ![e].pc = "write", ![e].content = Elements(envs)]
    BY <1>1 DEF AddReads
  <2>3. ASSUME NEW c \in SUBSET Envs, add' = [add EXCEPT ![e].pc = "write", ![e].content = c]
        PROVE  add' \in [Envs -> AddType]
    <3> DEFINE r == [pc |-> "write", held |-> add[e].held, content |-> c, cut |-> add[e].cut]
    <3>1. add[e] \in AddType
      OBVIOUS
    <3>2. r \in AddType
      BY <2>3, <3>1
    <3>3. add'[e] = r
      BY <2>3, <3>1
    <3>4. \A h \in Envs : h # e => add'[h] = add[h]
      BY <2>3
    <3>5. add' = [h \in Envs |-> add'[h]]
      BY <2>3
    <3> HIDE DEF r, AddType
    <3>6. QED
      BY <3>2, <3>3, <3>4, <3>5
  <2>4. QED
    BY <2>1, <2>2, <2>3
<1>2. ASSUME NEW e \in Envs, AddChecks(e) PROVE add' \in [Envs -> AddType]
  <2> DEFINE r == [pc |-> "append", held |-> envs, content |-> add[e].content, cut |-> add[e].cut]
  <2>1. add[e] \in AddType /\ envs \in SliceType
    BY DEF HeapType
  <2>2. r \in AddType
    BY <2>1
  <2>3. add' = [add EXCEPT ![e].pc = "append", ![e].held = envs]
    BY <1>2 DEF AddChecks
  <2>4. add'[e] = r
    BY <2>1, <2>3
  <2>5. \A h \in Envs : h # e => add'[h] = add[h]
    BY <2>3
  <2>6. add' = [h \in Envs |-> add'[h]]
    BY <2>3
  <2> HIDE DEF r, AddType
  <2>7. QED
    BY <2>2, <2>4, <2>5, <2>6
<1>3. ASSUME NEW e \in Envs, AddStep(e), ~AddReads(e), ~AddChecks(e)
      PROVE  add' \in [Envs -> AddType]
  <2>1. \E pc \in {"check", "create", "keys", "mgr", "failed", "listen", "slot", "watched", "done"} :
          add' = [add EXCEPT ![e].pc = pc]
    BY <1>3 DEF AddStep, AddGoes, AddArrives, AddAppends, AddCreates, AddWrites, AddManages, AddFails,
       AddListens, AddAcquires, AddFinishes
  <2>2. QED
    BY <2>1
<1>4. CASE Reconnects
  <2>1. ASSUME NEW e \in Envs PROVE add'[e] \in AddType
    <3>1. PICK b \in BOOLEAN : b = (add[e].cut \/ (add[e].pc = "slot" /\ e \in stops))
      OBVIOUS
    <3>2. add[e] \in AddType
      OBVIOUS
    <3>3. add'[e] = [add[e] EXCEPT !.cut = b]
      BY <1>4, <3>1 DEF Reconnects
    <3>4. QED
      BY <3>2, <3>3
  <2>2. add' = [e \in Envs |-> add'[e]]
    BY <1>4 DEF Reconnects
  <2> HIDE DEF AddType
  <2>3. QED
    BY <2>1, <2>2
<1>5. QED
  BY <1>1, <1>2, <1>3, <1>4, WhoChanges

LEMMA StepDel ==
  ASSUME Types, [Next]_vars
  PROVE  del' \in [Envs -> DelType]
<1> USE DEF Types, CommandsType, DelType
<1>1. ASSUME NEW e \in Envs, DeleteShifts(e) PROVE del' \in [Envs -> DelType]
  <2>1. envs \in SliceType /\ Empty \in SliceType
    BY DEF HeapType, SliceType, Empty
  <2>2. e \in Elements(envs) => [envs EXCEPT !.len = @ - 1] \in SliceType
    <3> SUFFICES ASSUME e \in Elements(envs) PROVE [envs EXCEPT !.len = @ - 1] \in SliceType
      OBVIOUS
    <3>1. \E j \in 1 .. envs.len : TRUE
      BY DEF Elements
    <3>2. envs.len - 1 \in Nat
      BY <2>1, <3>1 DEF SliceType
    <3>3. QED
      BY <2>1, <3>2 DEF SliceType
  <2>3. PICK s \in SliceType : del' = [del EXCEPT ![e].pc = "store", ![e].left = s]
    BY <1>1, <2>1, <2>2 DEF DeleteShifts
  <2>4. QED
    BY <2>3
<1>2. ASSUME NEW e \in Envs, DeleteStep(e), ~DeleteShifts(e)
      PROVE  del' \in [Envs -> DelType]
  <2>1. \E pc \in {"list", "signal", "namespace", "done"} : del' = [del EXCEPT ![e].pc = pc]
    BY <1>2 DEF DeleteStep, DeleteGoes, DeleteArrives, DeleteStores, DeleteSignals, DeleteFinishes
  <2>2. QED
    BY <2>1
<1>3. QED
  BY <1>1, <1>2, WhoChanges

LEMMA StepListeners ==
  ASSUME Types, [Next]_vars
  PROVE  ListenersType'
<1> USE DEF Types, ListenersType, ListenType
<1>1. ASSUME NEW i \in Inits, InitStores(i) PROVE ListenersType'
  <2>1. PICK s \in SliceType : listen' = [listen EXCEPT ![i].pc = "range", ![i].slice = s]
    <3>1. Len(init[i].list) \in Nat /\ Len(arrays) + 1 \in Nat
      BY LenProperties DEF CommandsType, InitType, HeapType
    <3>2. [arr |-> Len(arrays) + 1, len |-> Len(init[i].list)] \in SliceType
      BY <3>1 DEF SliceType
    <3>3. listen' = [listen EXCEPT ![i].pc = "range",
                                   ![i].slice = [arr |-> Len(arrays) + 1, len |-> Len(init[i].list)]]
      BY <1>1 DEF InitStores
    <3>4. QED
      BY <3>2, <3>3
  <2>2. QED
    BY <2>1
<1>2. ASSUME NEW i \in Inits, ListenVisits(i) PROVE ListenersType'
  <2>1. PICK e \in Envs : e = arrays[listen[i].slice.arr][listen[i].pos + 1]
    <3>1. /\ listen[i].pos \in Nat /\ listen[i].slice.len \in Nat
          /\ listen[i].pos < listen[i].slice.len
      BY <1>2 DEF ListenVisits, SliceType
    <3>2. listen[i].pos + 1 \in 1 .. listen[i].slice.len
      BY <3>1
    <3>3. QED
      BY <3>2 DEF SliceInv, SliceOK
  <2>2. PICK pc \in {"range", "slot"} :
          listen' = [listen EXCEPT ![i].pos = listen[i].pos + 1, ![i].cur = e, ![i].cut = FALSE, ![i].pc = pc]
    BY <1>2, <2>1 DEF ListenVisits
  <2> DEFINE r == [pc |-> pc, slice |-> listen[i].slice, pos |-> listen[i].pos + 1, cur |-> e, cut |-> FALSE]
  <2>3. listen[i] \in ListenType /\ listen[i].pos + 1 \in Nat
    OBVIOUS
  <2>4. r \in ListenType /\ r.cur \in Envs
    BY <2>3
  <2>5. listen'[i] = r
    BY <2>2, <2>3
  <2>6. \A j \in Inits : j # i => listen'[j] = listen[j]
    BY <2>2
  <2>7. listen' = [j \in Inits |-> listen'[j]]
    BY <2>2
  <2> HIDE DEF r, ListenType
  <2>8. QED
    BY <2>4, <2>5, <2>6, <2>7
<1>3. ASSUME NEW i \in Inits, ListenAcquires(i) \/ ListenFinishes(i) PROVE ListenersType'
  BY <1>3 DEF ListenAcquires, ListenFinishes
<1>4. CASE Reconnects
  <2>1. ASSUME NEW i \in Inits
        PROVE  listen'[i] \in ListenType /\ listen'[i].pc = listen[i].pc /\ listen'[i].cur = listen[i].cur
    <3>1. PICK b \in BOOLEAN : b = (listen[i].cut \/ (listen[i].pc = "slot" /\ listen[i].cur \in stops))
      OBVIOUS
    <3>2. listen[i] \in ListenType
      OBVIOUS
    <3>3. listen'[i] = [listen[i] EXCEPT !.cut = b]
      BY <1>4, <3>1 DEF Reconnects
    <3>4. QED
      BY <3>2, <3>3
  <2>2. listen' = [i \in Inits |-> listen'[i]]
    BY <1>4 DEF Reconnects
  <2> HIDE DEF ListenType
  <2>3. QED
    BY <2>1, <2>2
<1>5. QED
  BY <1>1, <1>2, <1>3, <1>4, WhoChanges

-----------------------------------------------------------------------------
\* What each action does to the arrays.
Cells == Envs \cup {None}

\* The environments that some array holds, in an entry of a slice or behind it.
Entries == {e \in Envs : \E k \in DOMAIN arrays : \E j \in 1 .. Len(arrays[k]) : arrays[k][j] = e}

\* Arrays keep their lengths, and entries that are environments remain so.
ArraysKept ==
  /\ arrays' \in Seq(Seq(Cells))
  /\ \A k \in DOMAIN arrays :
       /\ k \in DOMAIN arrays' /\ Len(arrays'[k]) = Len(arrays[k])
       /\ \A j \in 1 .. Len(arrays[k]) : arrays[k][j] \in Envs => arrays'[k][j] \in Envs

LEMMA MaxOfTwo ==
  ASSUME NEW a \in Nat, NEW b \in Nat
  PROVE  Max({a, b}) \in Nat /\ Max({a, b}) >= a /\ Max({a, b}) >= b
<1>1. \E x \in {a, b} : \A y \in {a, b} : x >= y
  OBVIOUS
<1>2. QED
  BY <1>1 DEF Max

LEMMA FunctionIsArray ==
  ASSUME NEW m \in Nat, NEW b \in [1 .. m -> Cells]
  PROVE  b \in Seq(Cells) /\ Len(b) = m
<1>1. b \in Seq(Cells)
  BY SeqDef
<1>2. Len(b) \in Nat /\ 1 .. Len(b) = 1 .. m
  BY <1>1, LenProperties
<1>3. QED
  BY <1>1, <1>2

LEMMA ArrayReplaced ==
  ASSUME arrays \in Seq(Seq(Cells)), NEW k \in DOMAIN arrays,
         NEW b \in [1 .. Len(arrays[k]) -> Cells], arrays' = [arrays EXCEPT ![k] = b],
         \A j \in 1 .. Len(arrays[k]) : arrays[k][j] \in Envs => b[j] \in Envs
  PROVE  ArraysKept /\ DOMAIN arrays' = DOMAIN arrays /\ arrays'[k] = b /\ Len(b) = Len(arrays[k])
         /\ \A m \in DOMAIN arrays : m # k => arrays'[m] = arrays[m]
<1>1. DOMAIN arrays = 1 .. Len(arrays) /\ arrays[k] \in Seq(Cells) /\ Len(arrays[k]) \in Nat
  BY LenProperties, ElementOfSeq
<1>2. b \in Seq(Cells) /\ Len(b) = Len(arrays[k])
  BY <1>1, FunctionIsArray
<1>3. arrays' \in Seq(Seq(Cells)) /\ Len(arrays') = Len(arrays)
  BY <1>1, <1>2, ExceptSeq
<1>4. DOMAIN arrays' = DOMAIN arrays /\ arrays'[k] = b
      /\ \A m \in DOMAIN arrays : m # k => arrays'[m] = arrays[m]
  OBVIOUS
<1>5. QED
  BY <1>2, <1>3, <1>4 DEF ArraysKept

LEMMA ArrayAppended ==
  ASSUME arrays \in Seq(Seq(Cells)), NEW m \in Nat, NEW b \in [1 .. m -> Cells],
         arrays' = Append(arrays, b)
  PROVE  ArraysKept /\ DOMAIN arrays' = DOMAIN arrays \cup {Len(arrays) + 1}
         /\ arrays'[Len(arrays) + 1] = b /\ Len(b) = m
         /\ \A k \in DOMAIN arrays : arrays'[k] = arrays[k]
<1>1. DOMAIN arrays = 1 .. Len(arrays) /\ Len(arrays) \in Nat
  BY LenProperties
<1>2. b \in Seq(Cells) /\ Len(b) = m
  BY FunctionIsArray
<1>3. arrays' \in Seq(Seq(Cells)) /\ Len(arrays') = Len(arrays) + 1
      /\ (\A k \in 1 .. Len(arrays) : arrays'[k] = arrays[k]) /\ arrays'[Len(arrays) + 1] = b
  BY <1>2, AppendProperties
<1>4. DOMAIN arrays' = 1 .. Len(arrays) + 1
  BY <1>3, LenProperties
<1>5. 1 .. Len(arrays) + 1 = (1 .. Len(arrays)) \cup {Len(arrays) + 1}
  BY <1>1
<1>6. QED
  BY <1>1, <1>2, <1>3, <1>4, <1>5 DEF ArraysKept

\* agent_init stores its list in an array of its own.
LEMMA InitHeap ==
  ASSUME Types, NEW i \in Inits, InitStores(i)
  PROVE  /\ ArraysKept /\ envs' \in SliceType
         /\ envs'.arr \in DOMAIN arrays' /\ envs'.len <= Len(arrays'[envs'.arr])
         /\ \A j \in 1 .. envs'.len : arrays'[envs'.arr][j] \in Envs
         /\ listen' = [listen EXCEPT ![i].pc = "range", ![i].slice = envs']
         /\ Entries' \subseteq Entries \cup ToSet(init[i].list)
         /\ \A k \in DOMAIN arrays : k \in DOMAIN arrays' /\ arrays'[k] = arrays[k]
         /\ envs'.len = Len(init[i].list)
         /\ \A j \in 1 .. Len(init[i].list) : arrays'[envs'.arr][j] = init[i].list[j]
<1> DEFINE list == init[i].list
           m == Max({JsonRoom, Len(list)})
           b == [j \in 1 .. m |-> IF j \in 1 .. Len(list) THEN list[j] ELSE None]
<1>1. list \in Seq(Envs) /\ arrays \in Seq(Seq(Cells))
  BY DEF Types, CommandsType, InitType, HeapType, Cells
<1>2. Len(list) \in Nat /\ DOMAIN list = 1 .. Len(list) /\ \A j \in 1 .. Len(list) : list[j] \in Envs
  BY <1>1, LenProperties, ElementOfSeq
<1>3. m \in Nat /\ m >= Len(list)
  BY <1>2, MaxOfTwo DEF JsonRoom
<1>4. /\ arrays' = Append(arrays, [j \in 1 .. m |-> IF j <= Len(list) THEN list[j] ELSE None])
      /\ envs' = [arr |-> Len(arrays) + 1, len |-> Len(list)]
      /\ listen' = [listen EXCEPT ![i].pc = "range", ![i].slice = envs']
  BY DEF InitStores
<1> HIDE DEF list, m
<1>5. b \in [1 .. m -> Cells] /\ \A j \in 1 .. m : b[j] \in Envs => b[j] \in ToSet(list)
  <2>1. ASSUME NEW j \in 1 .. m
        PROVE  b[j] \in Cells /\ (b[j] \in Envs => b[j] \in ToSet(list))
    <3>1. CASE j \in 1 .. Len(list)
      BY <1>2, <3>1 DEF ToSet, Cells
    <3>2. CASE j \notin 1 .. Len(list)
      BY <3>2, RegistryAssumption DEF Cells
    <3>3. QED
      BY <3>1, <3>2
  <2>2. QED
    BY <2>1
<1>6. arrays' = Append(arrays, b)
  <2>1. \A j \in 1 .. m : j \in 1 .. Len(list) <=> j <= Len(list)
    BY <1>2, <1>3
  <2>2. b = [j \in 1 .. m |-> IF j <= Len(list) THEN list[j] ELSE None]
    BY <2>1
  <2>3. QED
    BY <1>4, <2>2
<1>7. \A j \in 1 .. Len(list) : b[j] \in Envs /\ b[j] = list[j]
  BY <1>2, <1>3
<1> HIDE DEF b
<1>8. /\ ArraysKept /\ DOMAIN arrays' = DOMAIN arrays \cup {Len(arrays) + 1}
      /\ arrays'[Len(arrays) + 1] = b /\ Len(b) = m
      /\ \A k \in DOMAIN arrays : arrays'[k] = arrays[k]
  BY <1>1, <1>3, <1>5, <1>6, ArrayAppended
<1>9. Len(arrays) + 1 \in Nat
  BY <1>1, LenProperties
<1>10. Entries' \subseteq Entries \cup ToSet(list)
  BY <1>5, <1>8 DEF Entries
<1>11. QED
  BY <1>2, <1>3, <1>4, <1>7, <1>8, <1>9, <1>10 DEF SliceType, list

\* append writes one environment behind the slice it was given.
LEMMA AddHeap ==
  ASSUME Types, NEW e \in Envs, AddAppends(e)
  PROVE  /\ ArraysKept /\ envs' \in SliceType
         /\ envs'.arr \in DOMAIN arrays' /\ envs'.len <= Len(arrays'[envs'.arr])
         /\ \A j \in 1 .. envs'.len : arrays'[envs'.arr][j] \in Envs
         /\ Entries' \subseteq Entries \cup {e}
         /\ envs'.len = add[e].held.len + 1 /\ arrays'[envs'.arr][envs'.len] = e
         /\ \A j \in 1 .. add[e].held.len : arrays'[envs'.arr][j] = arrays[add[e].held.arr][j]
<1> DEFINE s == add[e].held
           a == arrays[s.arr]
           m == Max({1, 2 * s.len})
           bigger == [j \in 1 .. m |-> IF j <= s.len THEN a[j] ELSE None]
<1>1. arrays \in Seq(Seq(Cells)) /\ s \in SliceType /\ SliceOK(s)
  BY DEF Types, CommandsType, AddType, HeapType, SliceInv, Cells
<1>2. /\ s.len \in Nat /\ s.arr \in DOMAIN arrays /\ s.len <= Len(a)
      /\ \A j \in 1 .. s.len : a[j] \in Envs
  BY <1>1 DEF SliceType, SliceOK
<1>3. a \in Seq(Cells) /\ Len(a) \in Nat /\ a \in [1 .. Len(a) -> Cells]
  BY <1>1, <1>2, LenProperties, ElementOfSeq
<1>4. IF s.len < Len(a)
      THEN /\ arrays' = [arrays EXCEPT ![s.arr] = [a EXCEPT ![s.len + 1] = e]]
           /\ envs' = [s EXCEPT !.len = s.len + 1]
      ELSE /\ arrays' = Append(arrays, [bigger EXCEPT ![s.len + 1] = e])
           /\ envs' = [arr |-> Len(arrays) + 1, len |-> s.len + 1]
  BY DEF AddAppends
<1>5. m \in Nat /\ s.len + 1 <= m
  <2>1. 2 * s.len \in Nat
    BY <1>2
  <2>2. m \in Nat /\ m >= 1 /\ m >= 2 * s.len
    BY <2>1, MaxOfTwo
  <2>3. QED
    BY <1>2, <2>2
<1> HIDE DEF s, a, m
<1>6. CASE s.len < Len(a)
  <2> DEFINE b == [a EXCEPT ![s.len + 1] = e]
  <2>1. s.len + 1 \in 1 .. Len(a)
    BY <1>2, <1>3, <1>6
  <2>2. b \in [1 .. Len(a) -> Cells]
    BY <1>3 DEF Cells
  <2>3. b[s.len + 1] = e /\ \A j \in 1 .. Len(a) : j # s.len + 1 => b[j] = a[j]
    BY <1>3, <2>1
  <2>4. arrays' = [arrays EXCEPT ![s.arr] = b] /\ envs' = [s EXCEPT !.len = s.len + 1]
    BY <1>4, <1>6
  <2> HIDE DEF b
  <2>5. \A j \in 1 .. Len(a) : a[j] \in Envs => b[j] \in Envs
    BY <2>3
  <2>6. /\ ArraysKept /\ DOMAIN arrays' = DOMAIN arrays /\ arrays'[s.arr] = b /\ Len(b) = Len(a)
        /\ \A k \in DOMAIN arrays : k # s.arr => arrays'[k] = arrays[k]
    BY <1>1, <1>2, <2>2, <2>4, <2>5, ArrayReplaced DEF a
  <2>7. envs' \in SliceType /\ envs'.arr = s.arr /\ envs'.len = s.len + 1
    <3>1. s.arr \in Nat /\ s.len + 1 \in Nat
      BY <1>1, <1>2 DEF SliceType
    <3>2. envs' = [arr |-> s.arr, len |-> s.len + 1]
      BY <1>1, <2>4 DEF SliceType
    <3>3. QED
      BY <3>1, <3>2 DEF SliceType
  <2>8. \A j \in 1 .. s.len + 1 : b[j] \in Envs
    <3>1. \A j \in 1 .. s.len + 1 : j = s.len + 1 \/ j \in 1 .. s.len
      BY <1>2
    <3>2. \A j \in 1 .. s.len : j \in 1 .. Len(a) /\ j # s.len + 1
      BY <1>2, <1>3
    <3>3. QED
      BY <1>2, <2>3, <3>1, <3>2
  <2>9. Entries' \subseteq Entries \cup {e}
    <3>1. \A j \in 1 .. Len(b) : b[j] = e \/ b[j] = a[j]
      BY <2>3, <2>6
    <3>2. QED
      BY <1>2, <2>6, <3>1 DEF Entries, a
  <2>10. \A j \in 1 .. s.len : b[j] = a[j]
    BY <1>2, <1>3, <2>3
  <2>11. QED
    BY <1>2, <2>1, <2>3, <2>6, <2>7, <2>8, <2>9, <2>10 DEF s, a
<1>7. CASE ~(s.len < Len(a))
  <2> DEFINE b == [bigger EXCEPT ![s.len + 1] = e]
  <2>1. s.len = Len(a) /\ s.len + 1 \in 1 .. m
    BY <1>2, <1>3, <1>5, <1>7
  <2>2. /\ b \in [1 .. m -> Cells] /\ b[s.len + 1] = e
        /\ \A j \in 1 .. m : j # s.len + 1 => b[j] = IF j <= s.len THEN a[j] ELSE None
    <3>1. bigger \in [1 .. m -> Cells]
      <4>1. ASSUME NEW j \in 1 .. m PROVE (IF j <= s.len THEN a[j] ELSE None) \in Cells
        <5>1. j <= s.len => j \in 1 .. s.len
          BY <1>2, <1>5
        <5>2. QED
          BY <1>2, <5>1 DEF Cells
      <4>2. QED
        BY <4>1
    <3>2. QED
      BY <2>1, <3>1 DEF Cells
  <2>3. arrays' = Append(arrays, b) /\ envs' = [arr |-> Len(arrays) + 1, len |-> s.len + 1]
    BY <1>4, <1>7
  <2> HIDE DEF b, bigger
  <2>4. /\ ArraysKept /\ DOMAIN arrays' = DOMAIN arrays \cup {Len(arrays) + 1}
        /\ arrays'[Len(arrays) + 1] = b /\ Len(b) = m
        /\ \A k \in DOMAIN arrays : arrays'[k] = arrays[k]
    BY <1>1, <1>5, <2>2, <2>3, ArrayAppended
  <2>5. Len(arrays) + 1 \in Nat
    BY <1>1, LenProperties
  <2>6. \A j \in 1 .. s.len + 1 : b[j] \in Envs
    <3>1. \A j \in 1 .. s.len + 1 : j = s.len + 1 \/ (j \in 1 .. s.len /\ j <= s.len /\ j # s.len + 1)
      BY <1>2
    <3>2. \A j \in 1 .. s.len + 1 : j \in 1 .. m
      BY <1>2, <1>5
    <3>3. QED
      BY <1>2, <2>2, <3>1, <3>2
  <2>7. Entries' \subseteq Entries \cup {e}
    <3>1. \A j \in 1 .. Len(b) : b[j] = e \/ b[j] = None \/ (j \in 1 .. Len(a) /\ b[j] = a[j])
      BY <1>2, <1>5, <2>1, <2>2, <2>4
    <3>2. None \notin Envs
      BY RegistryAssumption
    <3>3. QED
      BY <1>2, <2>4, <3>1, <3>2 DEF Entries, a
  <2>8. \A j \in 1 .. s.len : b[j] = a[j]
    BY <1>2, <1>5, <2>2
  <2>9. QED
    BY <1>2, <1>5, <2>2, <2>3, <2>4, <2>5, <2>6, <2>7, <2>8 DEF SliceType, s, a
<1>8. QED
  BY <1>6, <1>7

\* A deletion shifts entries of the array behind the list.
LEMMA DeleteHeap ==
  ASSUME Types, NEW e \in Envs, DeleteShifts(e)
  PROVE  /\ ArraysKept /\ Entries' \subseteq Entries
         /\ \E s \in SliceType :
              /\ del' = [del EXCEPT ![e].pc = "store", ![e].left = s]
              /\ SliceOK(s)
<1>1. arrays \in Seq(Seq(Cells)) /\ envs \in SliceType /\ SliceOK(envs)
  BY DEF Types, HeapType, SliceInv, Cells
<1> DEFINE a == arrays[envs.arr]
           n == envs.len
           b == Scan(a, n, e)
<1>2. n \in Nat /\ envs.arr \in DOMAIN arrays /\ n <= Len(a) /\ \A j \in 1 .. n : a[j] \in Envs
  BY <1>1 DEF SliceType, SliceOK
<1>3. a \in Seq(Cells) /\ Len(a) \in Nat
  BY <1>1, <1>2, LenProperties, ElementOfSeq
<1>4. arrays' = [arrays EXCEPT ![envs.arr] = b]
  BY DEF DeleteShifts
<1> HIDE DEF a, n
<1>5. b \in Scanned(a, n, Cells)
  BY <1>2, <1>3, ScanScanned
<1> HIDE DEF b
<1>6. /\ b \in [1 .. Len(a) -> Cells]
      /\ \A j \in 1 .. n : \E h \in 1 .. n : b[j] = a[h]
      /\ \A j \in 1 .. Len(a) : j > n => b[j] = a[j]
  BY <1>5 DEF Scanned
<1>7. \A j \in 1 .. Len(a) : /\ a[j] \in Envs => b[j] \in Envs
                             /\ \E h \in 1 .. Len(a) : b[j] = a[h]
  <2> SUFFICES ASSUME NEW j \in 1 .. Len(a)
               PROVE  (a[j] \in Envs => b[j] \in Envs) /\ \E h \in 1 .. Len(a) : b[j] = a[h]
    OBVIOUS
  <2>1. CASE j > n
    BY <1>6, <2>1
  <2>2. CASE ~(j > n)
    <3>1. j \in 1 .. n
      BY <1>2, <1>3, <2>2
    <3>2. PICK h \in 1 .. n : b[j] = a[h]
      BY <1>6, <3>1
    <3>3. h \in 1 .. Len(a)
      BY <1>2, <1>3
    <3>4. QED
      BY <1>2, <3>2, <3>3
  <2>3. QED
    BY <2>1, <2>2
<1>8. /\ ArraysKept /\ DOMAIN arrays' = DOMAIN arrays /\ arrays'[envs.arr] = b /\ Len(b) = Len(a)
      /\ \A k \in DOMAIN arrays : k # envs.arr => arrays'[k] = arrays[k]
  BY <1>1, <1>2, <1>4, <1>6, <1>7, ArrayReplaced DEF a
<1>9. Entries' \subseteq Entries
  BY <1>2, <1>7, <1>8 DEF Entries, a
<1>10. Empty \in SliceType /\ SliceOK(Empty)
  <2>1. DOMAIN arrays = 1 .. Len(arrays) /\ arrays[1] \in Seq(Cells)
    BY <1>1, <1>2, LenProperties, ElementOfSeq
  <2>2. 1 \in DOMAIN arrays /\ Len(arrays[1]) \in Nat
    BY <1>2, <2>1, LenProperties
  <2>3. QED
    BY <2>2 DEF Empty, SliceType, SliceOK
<1>11. e \in Elements(envs) =>
         [envs EXCEPT !.len = @ - 1] \in SliceType /\ SliceOK([envs EXCEPT !.len = @ - 1])
  <2> SUFFICES ASSUME e \in Elements(envs)
               PROVE  [envs EXCEPT !.len = @ - 1] \in SliceType /\ SliceOK([envs EXCEPT !.len = @ - 1])
    OBVIOUS
  <2>1. \E j \in 1 .. n : TRUE
    BY DEF Elements, n
  <2>2. n - 1 \in Nat /\ n - 1 <= Len(a) /\ \A j \in 1 .. n - 1 : j \in 1 .. n
    BY <1>2, <1>3, <2>1
  <2>3. [envs EXCEPT !.len = @ - 1] = [arr |-> envs.arr, len |-> n - 1]
    BY <1>1 DEF SliceType, n
  <2>4. QED
    BY <1>1, <1>2, <2>2, <2>3 DEF SliceType, SliceOK, a
<1>12. QED
  BY <1>8, <1>9, <1>10, <1>11 DEF DeleteShifts

\* The arrays and every slice that somebody holds.
LEMMA StepHeap ==
  ASSUME Types, [Next]_vars
  PROVE  ArraysKept /\ HeapType' /\ SliceInv'
<1> USE DEF Types
<1>1. /\ ArraysKept /\ envs' \in SliceType
      /\ envs'.arr \in DOMAIN arrays' /\ envs'.len <= Len(arrays'[envs'.arr])
      /\ \A j \in 1 .. envs'.len : arrays'[envs'.arr][j] \in Envs
  <2>1. ASSUME UNCHANGED arrays PROVE ArraysKept
    BY <2>1 DEF ArraysKept, HeapType, Cells
  <2>2. ASSUME NEW e \in Envs, DeleteShifts(e) PROVE ArraysKept /\ UNCHANGED envs
    BY <2>2, DeleteHeap DEF DeleteShifts, vars, heapVars
  <2>3. ASSUME NEW e \in Envs, DeleteStores(e)
        PROVE  UNCHANGED arrays /\ envs' = del[e].left /\ del[e].left \in SliceType /\ SliceOK(del[e].left)
    BY <2>3 DEF DeleteStores, SliceInv, CommandsType, DelType
  <2>4. CASE \E i \in Inits : InitStores(i)
    BY <2>4, InitHeap
  <2>5. CASE \E e \in Envs : AddAppends(e)
    BY <2>5, AddHeap
  <2>6. CASE \E e \in Envs : DeleteStores(e)
    <3>1. PICK e \in Envs : DeleteStores(e)
      BY <2>6
    <3>2. PICK s \in SliceType : s = del[e].left /\ SliceOK(s) /\ envs' = s
      BY <2>3, <3>1
    <3>3. QED
      BY <2>1, <2>3, <3>1, <3>2 DEF SliceOK
  <2>7. CASE UNCHANGED envs /\ ArraysKept
    <3>1. envs \in SliceType /\ SliceOK(envs)
      BY DEF HeapType, SliceInv
    <3>2. QED
      BY <2>7, <3>1 DEF SliceOK, ArraysKept, SliceType
  <2>8. QED
    BY <2>1, <2>2, <2>4, <2>5, <2>6, <2>7, WhoChanges
<1>2. \A s \in SliceType : SliceOK(s) =>
         /\ s.arr \in DOMAIN arrays' /\ s.len <= Len(arrays'[s.arr])
         /\ \A j \in 1 .. s.len : arrays'[s.arr][j] \in Envs
  <2> SUFFICES ASSUME NEW s \in SliceType, SliceOK(s)
               PROVE  /\ s.arr \in DOMAIN arrays' /\ s.len <= Len(arrays'[s.arr])
                      /\ \A j \in 1 .. s.len : arrays'[s.arr][j] \in Envs
    OBVIOUS
  <2>1. /\ s.arr \in DOMAIN arrays /\ s.len <= Len(arrays[s.arr]) /\ s.len \in Nat
        /\ \A j \in 1 .. s.len : arrays[s.arr][j] \in Envs
    BY DEF SliceOK, SliceType
  <2>2. Len(arrays[s.arr]) \in Nat
    <3>1. arrays[s.arr] \in Seq(Cells)
      BY <2>1, LenProperties, ElementOfSeq DEF HeapType, Cells
    <3>2. QED
      BY <3>1, LenProperties
  <2>3. \A j \in 1 .. s.len : j \in 1 .. Len(arrays[s.arr])
    BY <2>1, <2>2
  <2>4. QED
    BY <1>1, <2>1, <2>3 DEF ArraysKept
<1>3. \A s \in SliceType : SliceOK(s) => SliceOK(s)'
  BY <1>2 DEF SliceOK
<1>4. ASSUME NEW i \in Inits
      PROVE  \E s \in SliceType : listen'[i].slice = s /\ SliceOK(s)'
  <2>1. listen[i].slice \in SliceType /\ SliceOK(listen[i].slice)
    BY DEF ListenersType, ListenType, SliceInv
  <2>2. CASE listen'[i].slice = listen[i].slice
    BY <1>3, <2>1, <2>2
  <2>3. CASE listen'[i].slice # listen[i].slice
    <3>1. PICK h \in Inits : InitStores(h)
      <4>1. ASSUME NEW h \in Inits, ListenVisits(h) \/ ListenAcquires(h) \/ ListenFinishes(h)
            PROVE  FALSE
        BY <2>3, <4>1 DEF ListenVisits, ListenAcquires, ListenFinishes, ListenersType, ListenType
      <4>2. ~Reconnects
        BY <2>3 DEF Reconnects, ListenersType, ListenType
      <4>3. QED
        BY <2>3, <4>1, <4>2, WhoChanges
    <3>2. PICK s \in SliceType : s = envs'
      BY <1>1
    <3>3. listen' = [listen EXCEPT ![h].pc = "range", ![h].slice = s]
      BY <3>1, <3>2, InitHeap
    <3>4. listen'[i].slice = s
      BY <2>3, <3>3 DEF ListenersType, ListenType
    <3>5. SliceOK(s)'
      BY <1>1, <3>2 DEF SliceOK
    <3>6. QED
      BY <3>4, <3>5
  <2>4. QED
    BY <2>2, <2>3
<1>5. ASSUME NEW e \in Envs
      PROVE  \E s \in SliceType : add'[e].held = s /\ SliceOK(s)'
  <2>1. add[e].held \in SliceType /\ SliceOK(add[e].held)
    BY DEF CommandsType, AddType, SliceInv
  <2>2. CASE add'[e].held = add[e].held
    BY <1>3, <2>1, <2>2
  <2>3. CASE add'[e].held # add[e].held
    <3>1. ASSUME NEW h \in Envs, AddStep(h), ~AddChecks(h) PROVE FALSE
      <4>1. CASE AddReads(h)
        <5>1. ASSUME NEW c, add' = [add EXCEPT ![h].pc = "write", ![h].content = c]
              PROVE  add'[e].held = add[e].held
          BY <5>1 DEF CommandsType, AddType
        <5>2. add' = [add EXCEPT ![h].pc = "write", ![h].content = Elements(envs)]
          BY <4>1 DEF AddReads
        <5>3. QED
          BY <2>3, <5>1, <5>2
      <4>2. CASE ~AddReads(h)
        <5>1. \E pc : add' = [add EXCEPT ![h].pc = pc]
          BY <3>1, <4>2 DEF AddStep, AddGoes, AddArrives, AddAppends, AddCreates, AddWrites,
             AddManages, AddFails, AddListens, AddAcquires, AddFinishes
        <5>2. QED
          BY <2>3, <5>1 DEF CommandsType, AddType
      <4>3. QED
        BY <4>1, <4>2
    <3>2. ~Reconnects
      BY <2>3 DEF Reconnects, CommandsType, AddType
    <3>3. PICK h \in Envs : AddChecks(h)
      BY <2>3, <3>1, <3>2, WhoChanges
    <3>4. add'[e].held = envs
      BY <2>3, <3>3 DEF AddChecks, CommandsType, AddType
    <3>5. PICK s \in SliceType : s = envs /\ SliceOK(s)
      BY DEF HeapType, SliceInv
    <3>6. QED
      BY <1>3, <3>4, <3>5
  <2>4. QED
    BY <2>2, <2>3
<1>6. ASSUME NEW e \in Envs
      PROVE  \E s \in SliceType : del'[e].left = s /\ SliceOK(s)'
  <2>1. del[e].left \in SliceType /\ SliceOK(del[e].left)
    BY DEF CommandsType, DelType, SliceInv
  <2>2. CASE del'[e].left = del[e].left
    BY <1>3, <2>1, <2>2
  <2>3. CASE del'[e].left # del[e].left
    <3>1. ASSUME NEW h \in Envs, DeleteStep(h), ~DeleteShifts(h) PROVE FALSE
      BY <2>3, <3>1 DEF DeleteStep, DeleteGoes, DeleteArrives, DeleteStores, DeleteSignals,
         DeleteFinishes, CommandsType, DelType
    <3>2. PICK h \in Envs : DeleteShifts(h)
      BY <2>3, <3>1, WhoChanges
    <3>3. PICK s \in SliceType : del' = [del EXCEPT ![h].pc = "store", ![h].left = s] /\ SliceOK(s)
      BY <3>2, DeleteHeap
    <3>4. del'[e].left = s
      BY <2>3, <3>3 DEF CommandsType, DelType
    <3>5. QED
      BY <1>3, <3>3, <3>4
  <2>4. QED
    BY <2>2, <2>3
<1>7. HeapType'
  BY <1>1 DEF HeapType, ArraysKept, Cells
<1>8. SliceInv'
  <2>1. SliceOK(envs)'
    BY <1>1 DEF SliceOK
  <2>2. ASSUME NEW i \in Inits PROVE SliceOK(listen[i].slice)'
    BY <1>4 DEF SliceOK
  <2>3. ASSUME NEW e \in Envs PROVE SliceOK(del[e].left)' /\ SliceOK(add[e].held)'
    BY <1>5, <1>6 DEF SliceOK
  <2>4. QED
    BY <2>1, <2>2, <2>3 DEF SliceInv
<1>9. QED
  BY <1>1, <1>7, <1>8

LEMMA InitTypes ==
  ASSUME Init
  PROVE  Types
<1> USE DEF Init
<1>1. SetsType /\ ScalarsType
  <2>1. conn \in Inits
    <3>1. MaxInits \in Nat \ {0}
      BY RegistryAssumption
    <3>2. QED
      BY <3>1 DEF Inits
  <2>2. known \in Seq(Envs)
    BY RegistryAssumption
  <2>3. QED
    BY <2>1, <2>2 DEF SetsType, ScalarsType
<1>2. Empty \in SliceType
  BY DEF Empty, SliceType
<1>3. CommandsType /\ ListenersType
  <2>1. <<>> \in Seq(Envs)
    BY EmptySeq
  <2>2. \A i \in Inits : init[i] = [pc |-> "idle", list |-> <<>>]
    OBVIOUS
  <2>3. init \in [Inits -> InitType]
    BY <2>1 DEF InitType
  <2>4. add \in [Envs -> AddType] /\ del \in [Envs -> DelType]
    BY <1>2 DEF AddType, DelType
  <2>5. ListenersType
    BY <1>2 DEF ListenersType, ListenType
  <2>6. QED
    BY <2>3, <2>4, <2>5 DEF CommandsType
<1>4. arrays \in Seq(Seq(Envs \cup {None})) /\ Len(arrays) = 1 /\ arrays[1] = <<>>
  <2>1. <<>> \in Seq(Envs \cup {None})
    BY EmptySeq
  <2>2. QED
    BY <2>1
<1>5. DOMAIN arrays = 1 .. 1
  BY <1>4, LenProperties
<1>6. SliceOK(Empty)
  <2>1. Len(arrays[1]) = 0 /\ 1 \in DOMAIN arrays
    BY <1>4, <1>5
  <2>2. QED
    BY <2>1 DEF SliceOK, Empty
<1>7. HeapType /\ SliceInv
  BY <1>2, <1>4, <1>6 DEF HeapType, SliceInv
<1>8. QED
  BY <1>1, <1>3, <1>7 DEF Types

LEMMA TypesImplyTypeOK ==
  ASSUME Types
  PROVE  TypeOK
<1> USE DEF Types
<1>1. \A s \in SliceType : SliceOK(s) => s.len <= Len(arrays[s.arr]) /\ Elements(s) \subseteq Envs
  BY DEF SliceOK, Elements
<1>2. \A i \in Inits : listen[i].slice \in SliceType /\ SliceOK(listen[i].slice)
  BY DEF ListenersType, ListenType, SliceInv
<1>3. \A e \in Envs : del[e].left \in SliceType /\ SliceOK(del[e].left)
  BY DEF CommandsType, DelType, SliceInv
<1>4. envs \in SliceType /\ SliceOK(envs)
  BY DEF HeapType, SliceInv
<1>5. \A s \in {envs} \cup {listen[i].slice : i \in Inits} \cup {del[e].left : e \in Envs} :
         s \in SliceType /\ SliceOK(s)
  BY <1>2, <1>3, <1>4
<1>6. \A s \in {envs} \cup {listen[i].slice : i \in Inits} \cup {del[e].left : e \in Envs} :
         s.len <= Len(arrays[s.arr]) /\ Elements(s) \subseteq Envs
  BY <1>1, <1>5
<1>7. envs \in Slices
  BY <1>4 DEF Slices, SliceType, SliceOK
<1>8. QED
  BY <1>6, <1>7 DEF TypeOK, SetsType, ScalarsType, HeapType

LEMMA TypesInvariant == Spec => []Types
<1>1. Init => Types
  BY InitTypes
<1>2. Types /\ [Next]_vars => Types'
  BY StepSets, StepScalars, StepInit, StepAdd, StepDel, StepListeners, StepHeap
     DEF Types, CommandsType
<1>3. QED
  BY <1>1, <1>2, PTL DEF Spec

\* The types of the registry, and no slice that is longer than its array or
\* that holds anything but environments, for every number of commands that
\* overlap: append writes within the array whose header it has read, and a
\* deletion that shifts the array leaves environments behind.
THEOREM RegistryTypeOK == Spec => []TypeOK
<1>1. Types => TypeOK
  BY TypesImplyTypeOK
<1>2. QED
  BY <1>1, TypesInvariant, PTL

-----------------------------------------------------------------------------
\* What is synchronised is managed, when agent_init is handled by itself.

Adding == {"check", "append", "create", "keys", "write", "mgr"}

\* An environment that has its manager and is in Namespaces, or that a command
\* is at, has failed with or has deleted: nothing takes it out of these.
Handled(e) ==
  \/ del[e].pc # "idle" \/ e \in failed \/ add[e].pc \in Adding
  \/ e \in mgrs /\ e \in namespaces

\* The service would name what it added and what the agent is told to keep.
KnownInv ==
  \A e \in Envs :
    del[e].pc = "idle" /\ (e \in namespaces \/ add[e].pc # "idle") => e \in ToSet(known)

\* add_env keeps its namespace until it has a manager.
AddInv ==
  \A e \in Envs :
    /\ add[e].pc \in {"create", "keys", "write", "mgr"} =>
         del[e].pc # "idle" \/ e \in failed \/ e \in namespaces
    /\ add[e].pc \in {"listen", "slot"} => Handled(e)

\* agent_init is handled by itself, with a list that is up to date.
InitInv ==
  \A i \in InitsInFlight :
    /\ i = conn /\ init[i].list = known /\ EnvsInFlight = {}
    /\ init[i].pc \in {"mgrs", "store"} => ToSet(known) \subseteq namespaces
    /\ init[i].pc = "store" => ToSet(known) \subseteq mgrs

\* Whatever a listener may find in an array, entries behind the end of a
\* slice included, has been handled; so has what it waits with or has started.
EntriesInv == \A e \in Entries : Handled(e)
LoopInv ==
  /\ \A e \in Envs : loops[e] = "on" => Handled(e)
  /\ \A i \in Inits : listen[i].pc = "slot" => Handled(listen[i].cur)

ManagedInv == KnownInv /\ AddInv /\ InitInv /\ EntriesInv /\ LoopInv

LEMMA DelStep ==
  ASSUME Types, [Next]_vars, NEW e \in Envs
  PROVE  /\ DeleteStep(e) \/ del'[e] = del[e]
         /\ del[e].pc # "idle" \/ DeleteStep(e) => del'[e].pc # "idle"
         /\ del[e].pc \in {"idle", "done"} /\ del'[e].pc # del[e].pc => DeleteArrives(e)
         /\ DeleteStep(e) => DeleteArrives(e) \/ e \in EnvsInFlight
         /\ del'[e].pc \in {"idle", "list"} => del[e].pc \in {"idle", "list"}
         /\ del[e].pc \in {"idle", "list"} /\ del'[e].pc \notin {"idle", "list"} => DeleteShifts(e)
         /\ del[e].pc = "store" /\ del'[e].pc # "store" => DeleteStores(e)
         /\ del'[e].pc = "store" /\ del[e].pc # "store" => DeleteShifts(e)
         /\ del[e].pc = "signal" /\ del'[e].pc # "signal" => DeleteSignals(e)
         /\ del'[e].left # del[e].left => DeleteShifts(e)
         /\ DeleteShifts(e) => del[e].pc = "list" /\ del'[e].pc = "store"
         /\ DeleteStores(e) => del[e].pc = "store" /\ del'[e].pc = "signal"
<1> USE DEF Types, CommandsType, DelType
<1>1. ASSUME NEW h \in Envs, DeleteStep(h), e # h PROVE del'[e] = del[e]
  BY <1>1 DEF DeleteStep, DeleteGoes, DeleteArrives, DeleteShifts, DeleteStores, DeleteSignals, DeleteFinishes
<1>2. ASSUME DeleteStep(e)
      PROVE  /\ del'[e].pc # "idle"
             /\ del[e].pc \in {"idle", "done"} => DeleteArrives(e)
             /\ DeleteArrives(e) \/ e \in EnvsInFlight
  BY <1>2 DEF DeleteStep, DeleteGoes, DeleteArrives, DeleteShifts, DeleteStores, DeleteSignals,
     DeleteFinishes, EnvsInFlight
<1>3. DeleteStep(e) \/ del'[e] = del[e]
  BY <1>1, WhoChanges
<1>4. /\ DeleteArrives(e) => del[e].pc = "idle" /\ del'[e].pc = "list" /\ del'[e].left = del[e].left
      /\ DeleteShifts(e) => del[e].pc = "list" /\ del'[e].pc = "store"
      /\ DeleteStores(e) => del[e].pc = "store" /\ del'[e].pc = "signal" /\ del'[e].left = del[e].left
      /\ DeleteSignals(e) => del[e].pc = "signal" /\ del'[e].pc = "namespace" /\ del'[e].left = del[e].left
      /\ DeleteFinishes(e) => del[e].pc = "namespace" /\ del'[e].pc = "done" /\ del'[e].left = del[e].left
  BY DEF DeleteGoes, DeleteArrives, DeleteShifts, DeleteStores, DeleteSignals, DeleteFinishes
<1>5. QED
  BY <1>2, <1>3, <1>4 DEF DeleteStep

LEMMA AddStepOf ==
  ASSUME Types, [Next]_vars, NEW e \in Envs
  PROVE  /\ AddStep(e) \/ add'[e].pc = add[e].pc
         /\ AddArrives(e) \/ AddChecks(e) \/ AddAppends(e) \/ AddCreates(e) \/ AddReads(e) \/ AddWrites(e)
              \/ AddManages(e) \/ AddFails(e) \/ add'[e].pc = add[e].pc
              \/ (add[e].pc = "listen" /\ add'[e].pc \in {"slot", "watched"})
              \/ (add[e].pc \in {"slot", "watched"} /\ add'[e].pc \in {"watched", "done"})
         /\ AddArrives(e) => add[e].pc \in {"idle", "failed"} /\ add'[e].pc = "check"
         /\ AddChecks(e) => add[e].pc = "check" /\ add'[e].pc = "append"
         /\ AddAppends(e) => add[e].pc = "append" /\ add'[e].pc = "create"
         /\ AddCreates(e) => add[e].pc = "create" /\ add'[e].pc = "keys"
         /\ AddReads(e) => add[e].pc = "keys" /\ add'[e].pc = "write"
         /\ AddWrites(e) => add[e].pc = "write" /\ add'[e].pc = "mgr"
         /\ AddManages(e) => add[e].pc = "mgr" /\ add'[e].pc = "listen"
         /\ AddFails(e) => add[e].pc \in Adding /\ add'[e].pc = "failed"
         /\ AddChecks(e) => add'[e].held = envs
         /\ AddReads(e) => add'[e].content = Elements(envs)
         /\ AddChecks(e) \/ add'[e].held = add[e].held
         /\ AddReads(e) \/ add'[e].content = add[e].content
<1> USE DEF Types, CommandsType, AddType
<1>1. ASSUME NEW h \in Envs, AddReads(h)
      PROVE  /\ e # h => add'[e] = add[e]
             /\ e = h => add[e].pc = "keys" /\ add'[e].pc = "write" /\ add'[e].content = Elements(envs)
             /\ add'[e].held = add[e].held
  <2>1. ASSUME NEW c, add' = [add EXCEPT ![h].pc = "write", ![h].content = c]
        PROVE  /\ e # h => add'[e] = add[e]
               /\ e = h => add'[e].pc = "write" /\ add'[e].content = c
               /\ add'[e].held = add[e].held
    BY <2>1
  <2>2. add' = [add EXCEPT ![h].pc = "write", ![h].content = Elements(envs)] /\ add[h].pc = "keys"
    BY <1>1 DEF AddReads
  <2>3. QED
    BY <2>1, <2>2
<1>2. ASSUME NEW h \in Envs, AddStep(h), e # h PROVE add'[e] = add[e]
  BY <1>1, <1>2 DEF AddStep, AddGoes, AddArrives, AddChecks, AddAppends, AddCreates, AddWrites,
     AddManages, AddFails, AddListens, AddAcquires, AddFinishes
<1>3. /\ AddArrives(e) => add[e].pc \in {"idle", "failed"} /\ add'[e].pc = "check"
      /\ AddChecks(e) => add[e].pc = "check" /\ add'[e].pc = "append"
      /\ AddAppends(e) => add[e].pc = "append" /\ add'[e].pc = "create"
      /\ AddCreates(e) => add[e].pc = "create" /\ add'[e].pc = "keys"
      /\ AddReads(e) => add[e].pc = "keys" /\ add'[e].pc = "write"
      /\ AddWrites(e) => add[e].pc = "write" /\ add'[e].pc = "mgr"
      /\ AddManages(e) => add[e].pc = "mgr" /\ add'[e].pc = "listen"
      /\ AddFails(e) => add[e].pc \in Adding /\ add'[e].pc = "failed"
  BY <1>1 DEF AddGoes, AddArrives, AddChecks, AddAppends, AddCreates, AddWrites, AddManages, AddFails, Adding
<1>4. AddListens(e) \/ AddAcquires(e) \/ AddFinishes(e) =>
        \/ add[e].pc = "listen" /\ add'[e].pc \in {"slot", "watched"}
        \/ add[e].pc \in {"slot", "watched"} /\ add'[e].pc \in {"watched", "done"}
  BY DEF AddGoes, AddListens, AddAcquires, AddFinishes
<1>5. Reconnects => add'[e].pc = add[e].pc /\ add'[e].held = add[e].held /\ add'[e].content = add[e].content
  BY DEF Reconnects
<1>6. AddStep(e) \/ (add'[e].pc = add[e].pc /\ add'[e].held = add[e].held /\ add'[e].content = add[e].content)
  BY <1>2, <1>5, WhoChanges
<1>7. AddChecks(e) => add'[e].held = envs /\ add'[e].content = add[e].content
  BY DEF AddChecks
<1>8. ASSUME AddStep(e), ~AddChecks(e), ~AddReads(e)
      PROVE  add'[e].held = add[e].held /\ add'[e].content = add[e].content
  BY <1>8 DEF AddStep, AddGoes, AddArrives, AddAppends, AddCreates, AddWrites, AddManages, AddFails,
     AddListens, AddAcquires, AddFinishes
<1>9. /\ AddChecks(e) \/ add'[e].held = add[e].held
      /\ AddReads(e) \/ add'[e].content = add[e].content
      /\ AddReads(e) => add'[e].content = Elements(envs)
  BY <1>1, <1>6, <1>7, <1>8
<1>10. QED
  BY <1>3, <1>4, <1>6, <1>7, <1>9 DEF AddStep

LEMMA InitStepOf ==
  ASSUME Types, [Next]_vars, NEW i \in Inits
  PROVE  /\ InitStep(i) \/ init'[i] = init[i]
         /\ InitStep(i) => InitArrives(i) \/ i \in InitsInFlight
         /\ InitArrives(i) => init'[i] = [pc |-> "keys", list |-> known] /\ init[i].pc = "idle"
         /\ InitStep(i) /\ ~InitArrives(i) => init'[i].list = init[i].list
         /\ InitWrites(i) => init'[i].pc = "create"
         /\ InitCreates(i) => init'[i].pc = "mgrs"
         /\ InitManages(i) => init[i].pc = "mgrs" /\ init'[i].pc = "store"
         /\ InitStores(i) => init[i].pc = "store" /\ init'[i].pc = "done"
         /\ InitFails(i) => init'[i].pc = "done" /\ i \in InitsInFlight
<1> USE DEF Types, CommandsType, InitType
<1>1. ASSUME NEW h \in Inits, InitStep(h), i # h PROVE init'[i] = init[i]
  BY <1>1 DEF InitStep, InitGoes, InitArrives, InitWrites, InitCreates, InitManages, InitStores, InitFails
<1>2. InitArrives(i) => init'[i] = [pc |-> "keys", list |-> known] /\ init[i].pc = "idle"
  BY DEF InitArrives
<1>3. ASSUME InitFails(i)
      PROVE  init'[i].pc = "done" /\ init'[i].list = init[i].list /\ i \in InitsInFlight
  <2>1. init' = [init EXCEPT ![i].pc = "done"] /\ init[i].pc \in {"keys", "create", "mgrs"}
    BY <1>3 DEF InitFails
  <2>2. QED
    BY <2>1 DEF InitsInFlight
<1>4. /\ InitWrites(i) => init'[i].pc = "create" /\ init'[i].list = init[i].list /\ i \in InitsInFlight
      /\ InitCreates(i) => init'[i].pc = "mgrs" /\ init'[i].list = init[i].list /\ i \in InitsInFlight
      /\ InitManages(i) => init[i].pc = "mgrs" /\ init'[i].pc = "store" /\ init'[i].list = init[i].list
                             /\ i \in InitsInFlight
      /\ InitStores(i) => init[i].pc = "store" /\ init'[i].pc = "done" /\ init'[i].list = init[i].list
                            /\ i \in InitsInFlight
  BY DEF InitGoes, InitWrites, InitCreates, InitManages, InitStores, InitsInFlight
<1>5. InitStep(i) \/ init'[i] = init[i]
  BY <1>1, WhoChanges
<1>6. QED
  BY <1>2, <1>3, <1>4, <1>5 DEF InitStep

\* Only a deletion takes an environment out of Namespaces or of the managers:
\* the list that agent_init sets names all the others.
LEMMA NamesStay ==
  ASSUME Types, KnownInv, InitInv, [Next]_vars, NEW e \in Envs, del'[e].pc = "idle"
  PROVE  /\ del[e].pc = "idle" /\ ~DeleteStep(e)
         /\ e \in namespaces => e \in namespaces'
         /\ e \in mgrs => e \in mgrs'
         /\ e \in ToSet(known) => e \in ToSet(known')
<1>1. del[e].pc = "idle" /\ ~DeleteStep(e)
  BY DelStep
<1>2. ASSUME e \in namespaces PROVE e \in namespaces'
  <2>1. ASSUME NEW i \in Inits, InitCreates(i) PROVE e \in namespaces'
    <3>1. i \in InitsInFlight /\ namespaces' = ToSet(init[i].list)
      BY <2>1 DEF InitCreates, InitGoes, InitsInFlight
    <3>2. e \in ToSet(known)
      BY <1>1, <1>2 DEF KnownInv
    <3>3. QED
      BY <3>1, <3>2 DEF InitInv
  <2>2. ASSUME NEW h \in Envs, AddAppends(h) \/ DeleteShifts(h) PROVE e \in namespaces'
    BY <1>1, <1>2, <2>2 DEF AddAppends, DeleteShifts, DeleteStep
  <2>3. QED
    BY <1>2, <2>1, <2>2, WhoChanges
<1>3. ASSUME e \in mgrs PROVE e \in mgrs'
  <2>1. ASSUME NEW h \in Envs, AddManages(h) \/ DeleteStores(h) PROVE e \in mgrs'
    BY <1>1, <1>3, <2>1 DEF AddManages, DeleteStores, DeleteStep
  <2>2. ASSUME NEW i \in Inits, InitManages(i) \/ InitFails(i) PROVE e \in mgrs'
    BY <1>3, <2>2 DEF InitManages, InitFails
  <2>3. QED
    BY <1>3, <2>1, <2>2, WhoChanges
<1>4. e \in ToSet(known) => e \in ToSet(known')
  BY <1>1, StepKnown DEF DeleteStep
<1>5. QED
  BY <1>1, <1>2, <1>3, <1>4

LEMMA FailedStays ==
  ASSUME [Next]_vars
  PROVE  failed \subseteq failed'
BY WhoChanges DEF InitFails, AddFails

LEMMA HandledStays ==
  ASSUME Types, KnownInv, AddInv, InitInv, [Next]_vars, NEW e \in Envs, Handled(e)
  PROVE  Handled(e)'
<1>1. CASE del'[e].pc # "idle"
  BY <1>1 DEF Handled
<1>2. CASE e \in failed
  BY <1>2, FailedStays DEF Handled
<1>3. CASE del'[e].pc = "idle" /\ e \in mgrs /\ e \in namespaces
  BY <1>3, NamesStay DEF Handled
<1>4. CASE del'[e].pc = "idle" /\ e \notin failed /\ add[e].pc \in Adding
  <2>1. CASE AddManages(e)
    <3>1. e \in mgrs'
      BY <2>1 DEF AddManages
    <3>2. e \in namespaces
      BY <1>4, <2>1, AddStepOf, NamesStay DEF AddInv
    <3>3. QED
      BY <1>4, <3>1, <3>2, NamesStay DEF Handled
  <2>2. CASE AddFails(e)
    <3>1. e \in failed'
      BY <2>2 DEF AddFails
    <3>2. QED
      BY <3>1 DEF Handled
  <2>3. CASE ~AddManages(e) /\ ~AddFails(e)
    <3>1. add'[e].pc \in Adding
      BY <1>4, <2>3, AddStepOf DEF Adding
    <3>2. QED
      BY <3>1 DEF Handled
  <2>4. QED
    BY <2>1, <2>2, <2>3
<1>5. QED
  BY <1>1, <1>2, <1>3, <1>4, NamesStay DEF Handled

LEMMA StepKnownInv ==
  ASSUME Types, KnownInv, InitInv, [Next]_vars
  PROVE  KnownInv'
<1> SUFFICES ASSUME NEW e \in Envs, del'[e].pc = "idle", e \in namespaces' \/ add'[e].pc # "idle"
             PROVE  e \in ToSet(known')
  BY DEF KnownInv
<1>1. CASE e \in ToSet(known)
  BY <1>1, NamesStay
<1>2. CASE e \notin ToSet(known)
  <2>1. e \notin namespaces /\ add[e].pc = "idle"
    BY <1>2, NamesStay DEF KnownInv
  <2>2. e \notin namespaces'
    <3>1. ASSUME NEW i \in Inits, InitCreates(i) PROVE e \notin namespaces'
      <4>1. i \in InitsInFlight /\ namespaces' = ToSet(init[i].list)
        BY <3>1 DEF InitCreates, InitGoes, InitsInFlight
      <4>2. QED
        BY <1>2, <4>1 DEF InitInv
    <3>2. ASSUME NEW h \in Envs, AddAppends(h) \/ DeleteShifts(h) PROVE e \notin namespaces'
      BY <2>1, <3>2 DEF AddAppends, AddGoes, DeleteShifts
    <3>3. QED
      BY <2>1, <3>1, <3>2, WhoChanges
  <2>3. AddArrives(e)
    BY <2>1, <2>2, AddStepOf DEF Adding
  <2>4. QED
    BY <2>3, StepKnown
<1>3. QED
  BY <1>1, <1>2

LEMMA StepAddInv ==
  ASSUME Types, KnownInv, AddInv, InitInv, [Next]_vars
  PROVE  AddInv'
<1>1. ASSUME NEW e \in Envs, add'[e].pc \in {"create", "keys", "write", "mgr"}, del'[e].pc = "idle"
      PROVE  e \in failed' \/ e \in namespaces'
  <2>1. CASE AddAppends(e)
    BY <2>1 DEF AddAppends
  <2>2. CASE ~AddAppends(e)
    <3>1. add[e].pc \in {"create", "keys", "write", "mgr"}
      BY <1>1, <2>2, AddStepOf DEF Adding
    <3>2. e \in failed \/ e \in namespaces
      BY <1>1, <3>1, NamesStay DEF AddInv
    <3>3. QED
      BY <1>1, <3>2, NamesStay, FailedStays
  <2>3. QED
    BY <2>1, <2>2
<1>2. ASSUME NEW e \in Envs, add'[e].pc \in {"listen", "slot"}
      PROVE  Handled(e)'
  <2>1. Handled(e)
    <3>1. CASE AddManages(e)
      BY <3>1, AddStepOf DEF Handled, Adding
    <3>2. CASE ~AddManages(e)
      <4>1. add[e].pc \in {"listen", "slot"}
        BY <1>2, <3>2, AddStepOf DEF Adding
      <4>2. QED
        BY <4>1 DEF AddInv
    <3>3. QED
      BY <3>1, <3>2
  <2>2. QED
    BY <2>1, HandledStays
<1>3. QED
  BY <1>1, <1>2 DEF AddInv

\* While agent_init is handled nothing else is, and no other is named.
LEMMA Alone ==
  ASSUME InitAlone = TRUE \/ ~met', Types, InitInv, [Next]_vars, NEW i \in InitsInFlight
  PROVE  /\ i = conn /\ UNCHANGED <<known, conn>> /\ EnvsInFlight' = {}
         /\ \A e \in Envs : ~AddManages(e) /\ ~AddAppends(e) /\ ~DeleteStep(e)
<1>1. i = conn /\ EnvsInFlight = {} /\ InitsInFlight # {}
  BY DEF InitInv
<1>2. \A e \in Envs : ~AddArrives(e) /\ ~DeleteArrives(e)
  BY <1>1 DEF AddArrives, DeleteArrives, Arrives
<1>3. \A e \in Envs : add[e].pc \notin Adding
  BY <1>1 DEF EnvsInFlight, Adding
<1>4. \A e \in Envs : ~DeleteStep(e) /\ add'[e].pc \notin Adding /\ del'[e] = del[e]
  <2> SUFFICES ASSUME NEW e \in Envs
               PROVE  ~DeleteStep(e) /\ add'[e].pc \notin Adding /\ del'[e] = del[e]
    OBVIOUS
  <2>1. ~DeleteStep(e) /\ del'[e] = del[e]
    BY <1>1, <1>2, DelStep
  <2>2. add'[e].pc \notin Adding
    BY <1>2, <1>3, AddStepOf DEF Adding
  <2>3. QED
    BY <2>1, <2>2
<1>5. EnvsInFlight' = {}
  BY <1>1, <1>4 DEF EnvsInFlight, Adding
<1>6. \A e \in Envs : ~AddManages(e) /\ ~AddAppends(e)
  BY <1>3, AddStepOf DEF Adding
<1>7. UNCHANGED known
  BY <1>2, WhoChanges
<1>8. UNCHANGED conn
  <2>1. ~Reconnects
    BY <1>1 DEF Reconnects, InitsInFlight
  <2>2. UNCHANGED conn \/ Reconnects
    BY DEF Next, vars, srvVars, InitStep, AddStep, DeleteStep, InitArrives, InitWrites, InitCreates, InitManages,
       InitStores, InitFails, ListenVisits, ListenAcquires, ListenFinishes, AddArrives, AddChecks,
       AddAppends, AddCreates, AddReads, AddWrites, AddManages, AddFails, AddListens, AddAcquires,
       AddFinishes, DeleteArrives, DeleteShifts, DeleteStores, DeleteSignals, DeleteFinishes,
       ExportPanics, LoopEnds
  <2>3. QED
    BY <2>1, <2>2
<1>9. QED
  BY <1>1, <1>4, <1>5, <1>6, <1>7, <1>8

LEMMA StepInitInv ==
  ASSUME InitAlone = TRUE \/ ~met', Types, InitInv, [Next]_vars
  PROVE  InitInv'
<1> SUFFICES ASSUME NEW i \in InitsInFlight'
             PROVE  /\ i = conn' /\ init'[i].list = known' /\ EnvsInFlight' = {}
                    /\ init'[i].pc \in {"mgrs", "store"} => ToSet(known') \subseteq namespaces'
                    /\ init'[i].pc = "store" => ToSet(known') \subseteq mgrs'
  BY DEF InitInv
<1>1. i \in Inits /\ init'[i].pc \notin {"idle", "done"}
  BY DEF InitsInFlight
<1>2. CASE InitArrives(i)
  <2>1. i = conn /\ UNCHANGED <<conn, known, add, del>> /\ EnvsInFlight = {}
    BY <1>2 DEF InitArrives, Arrives, srvVars
  <2>2. EnvsInFlight' = {}
    BY <2>1 DEF EnvsInFlight
  <2>3. init'[i].pc = "keys" /\ init'[i].list = known
    BY <1>1, <1>2, InitStepOf
  <2>4. QED
    BY <2>1, <2>2, <2>3
<1>3. CASE ~InitArrives(i)
  <2>1. i \in InitsInFlight
    BY <1>1, <1>3, InitStepOf DEF InitsInFlight
  <2>2. i = conn /\ UNCHANGED <<conn, known>> /\ EnvsInFlight' = {}
        /\ \A e \in Envs : ~AddManages(e) /\ ~AddAppends(e) /\ ~DeleteStep(e)
    BY <2>1, Alone
  <2>3. init'[i].list = init[i].list /\ init[i].list = known
    BY <1>1, <1>3, <2>1, InitStepOf DEF InitInv
  <2>4. ASSUME init'[i].pc \in {"mgrs", "store"} PROVE ToSet(known') \subseteq namespaces'
    <3>1. CASE \E j \in Inits : InitCreates(j)
      <4>1. PICK j \in Inits : InitCreates(j)
        BY <3>1
      <4>2. j \in InitsInFlight /\ namespaces' = ToSet(init[j].list)
        BY <4>1 DEF InitCreates, InitGoes, InitsInFlight
      <4>3. QED
        BY <2>2, <4>2 DEF InitInv
    <3>2. CASE \A j \in Inits : ~InitCreates(j)
      <4>1. init[i].pc \in {"mgrs", "store"}
        BY <1>1, <1>3, <2>4, <3>2, InitStepOf DEF InitStep
      <4>2. UNCHANGED namespaces
        BY <2>2, <3>2, WhoChanges DEF DeleteStep
      <4>3. QED
        BY <2>1, <2>2, <4>1, <4>2 DEF InitInv
    <3>3. QED
      BY <3>1, <3>2
  <2>5. ASSUME init'[i].pc = "store" PROVE ToSet(known') \subseteq mgrs'
    <3>1. CASE InitManages(i)
      BY <2>2, <2>3, <3>1 DEF InitManages
    <3>2. CASE ~InitManages(i)
      <4>1. init[i].pc = "store"
        BY <1>1, <1>3, <2>5, <3>2, InitStepOf DEF InitStep
      <4>2. mgrs \subseteq mgrs'
        <5>1. ASSUME NEW j \in Inits, InitManages(j) \/ InitFails(j) PROVE mgrs \subseteq mgrs'
          BY <5>1 DEF InitManages, InitFails
        <5>2. QED
          BY <2>2, <5>1, WhoChanges DEF DeleteStep
      <4>3. QED
        BY <2>1, <2>2, <4>1, <4>2 DEF InitInv
    <3>3. QED
      BY <3>1, <3>2
  <2>6. QED
    BY <2>2, <2>3, <2>4, <2>5
<1>4. QED
  BY <1>2, <1>3

LEMMA StepEntriesInv ==
  ASSUME Types, KnownInv, AddInv, InitInv, EntriesInv, [Next]_vars
  PROVE  EntriesInv'
<1>1. ASSUME NEW e \in Envs, e \in Entries PROVE Handled(e)'
  BY <1>1, HandledStays DEF EntriesInv
<1>2. CASE UNCHANGED arrays
  <2>1. Entries' = Entries
    BY <1>2 DEF Entries
  <2>2. QED
    BY <1>1, <2>1 DEF EntriesInv, Entries
<1>3. ASSUME NEW i \in Inits, InitStores(i) PROVE EntriesInv'
  <2>1. Entries' \subseteq Entries \cup ToSet(init[i].list)
    BY <1>3, InitHeap
  <2>2. i \in InitsInFlight /\ init[i].pc = "store" /\ UNCHANGED <<mgrs, namespaces>>
    BY <1>3 DEF InitStores, InitGoes, InitsInFlight, setVars
  <2>3. ToSet(init[i].list) \subseteq mgrs /\ ToSet(init[i].list) \subseteq namespaces
    BY <2>2 DEF InitInv
  <2>4. \A e \in ToSet(init[i].list) : Handled(e)'
    BY <2>2, <2>3 DEF Handled
  <2>5. QED
    BY <1>1, <2>1, <2>4 DEF EntriesInv, Entries
<1>4. ASSUME NEW h \in Envs, AddAppends(h) PROVE EntriesInv'
  <2>1. Entries' \subseteq Entries \cup {h}
    BY <1>4, AddHeap
  <2>2. Handled(h)'
    BY <1>4, AddStepOf DEF Handled, Adding
  <2>3. QED
    BY <1>1, <2>1, <2>2 DEF EntriesInv, Entries
<1>5. ASSUME NEW h \in Envs, DeleteShifts(h) PROVE EntriesInv'
  <2>1. Entries' \subseteq Entries
    BY <1>5, DeleteHeap
  <2>2. QED
    BY <1>1, <2>1 DEF EntriesInv, Entries
<1>6. QED
  BY <1>2, <1>3, <1>4, <1>5, WhoChanges

LEMMA VisitedFrom ==
  ASSUME Types, [Next]_vars, NEW i \in Inits, listen'[i].pc = "slot"
  PROVE  (listen[i].pc = "slot" /\ listen'[i].cur = listen[i].cur) \/ listen'[i].cur \in Entries
<1> USE DEF Types, ListenersType, ListenType
<1>1. ASSUME NEW h \in Inits, ListenVisits(h)
      PROVE  listen'[i] = listen[i] \/ listen'[i].cur \in Entries
  <2>1. CASE h # i
    BY <1>1, <2>1 DEF ListenVisits
  <2>2. CASE h = i
    <3> DEFINE s == listen[i].slice
               e == arrays[s.arr][listen[i].pos + 1]
    <3>1. s \in SliceType /\ SliceOK(s) /\ listen[i].pos \in Nat /\ listen[i].pos < s.len
      BY <1>1, <2>2 DEF ListenVisits, SliceInv
    <3>2. listen[i].pos + 1 \in 1 .. s.len /\ s.arr \in DOMAIN arrays /\ s.len <= Len(arrays[s.arr])
          /\ s.len \in Nat
      BY <3>1 DEF SliceType, SliceOK
    <3>3. e \in Envs
      BY <3>1, <3>2 DEF SliceOK
    <3>4. Len(arrays[s.arr]) \in Nat
      BY <3>2, LenProperties, ElementOfSeq DEF HeapType
    <3>5. listen[i].pos + 1 \in 1 .. Len(arrays[s.arr])
      BY <3>2, <3>4
    <3>6. e \in Entries
      BY <3>2, <3>3, <3>5 DEF Entries
    <3>7. listen'[i].cur = e
      BY <1>1, <2>2 DEF ListenVisits
    <3>8. QED
      BY <3>6, <3>7
  <2>3. QED
    BY <2>1, <2>2
<1>2. ASSUME NEW h \in Inits, ListenAcquires(h) \/ ListenFinishes(h) PROVE listen'[i] = listen[i]
  BY <1>2 DEF ListenAcquires, ListenFinishes
<1>3. ASSUME NEW h \in Inits, InitStores(h) PROVE listen'[i] = listen[i]
  BY <1>3 DEF InitStores
<1>4. ASSUME Reconnects PROVE listen'[i].pc = listen[i].pc /\ listen'[i].cur = listen[i].cur
  BY <1>4 DEF Reconnects
<1>5. QED
  BY <1>1, <1>2, <1>3, <1>4, WhoChanges

LEMMA StepLoopInv ==
  ASSUME Types, KnownInv, AddInv, InitInv, EntriesInv, LoopInv, [Next]_vars
  PROVE  LoopInv'
<1>1. ASSUME NEW e \in Envs, loops'[e] = "on" PROVE Handled(e)
  <2>1. loops \in [Envs -> {"none", "on", "told"}]
    BY DEF Types, ScalarsType
  <2>2. CASE loops[e] = "on"
    BY <2>2 DEF LoopInv
  <2>3. CASE loops[e] # "on"
    <3>1. ~Reconnects
      BY <1>1, <2>3 DEF Reconnects
    <3>2. ASSUME NEW h \in Envs, DeleteSignals(h) \/ LoopEnds(h) PROVE FALSE
      BY <1>1, <2>1, <2>3, <3>2 DEF DeleteSignals, LoopEnds
    <3>3. ASSUME NEW i \in Inits, ListenAcquires(i) PROVE Handled(e)
      <4>1. e = listen[i].cur /\ listen[i].pc = "slot"
        BY <1>1, <2>1, <2>3, <3>3 DEF ListenAcquires, Starts
      <4>2. QED
        BY <4>1 DEF LoopInv
    <3>4. ASSUME NEW h \in Envs, AddAcquires(h) PROVE Handled(e)
      <4>1. e = h /\ add[h].pc = "slot"
        BY <1>1, <2>1, <2>3, <3>4 DEF AddAcquires, AddGoes, Starts
      <4>2. QED
        BY <4>1 DEF AddInv
    <3>5. QED
      BY <1>1, <2>3, <3>1, <3>2, <3>3, <3>4, WhoChanges
  <2>4. QED
    BY <2>2, <2>3
<1>2. ASSUME NEW i \in Inits, listen'[i].pc = "slot"
      PROVE  \E e \in Envs : e = listen'[i].cur /\ Handled(e)
  <2>1. listen'[i].cur \in Envs
    BY <1>2, StepListeners DEF ListenersType
  <2>2. (listen[i].pc = "slot" /\ listen'[i].cur = listen[i].cur) \/ listen'[i].cur \in Entries
    BY <1>2, VisitedFrom
  <2>3. QED
    BY <2>1, <2>2 DEF LoopInv, EntriesInv
<1>3. ASSUME NEW e \in Envs, loops'[e] = "on" PROVE Handled(e)'
  BY <1>1, <1>3, HandledStays
<1>4. ASSUME NEW i \in Inits, listen'[i].pc = "slot" PROVE Handled(listen[i].cur)'
  <2>1. PICK e \in Envs : e = listen'[i].cur /\ Handled(e)
    BY <1>2, <1>4
  <2>2. Handled(e)'
    BY <2>1, HandledStays
  <2>3. QED
    BY <2>1, <2>2 DEF Handled
<1>5. QED
  BY <1>3, <1>4 DEF LoopInv

LEMMA ManagedInvariant ==
  ASSUME InitAlone = TRUE
  PROVE  Spec => []ManagedInv
<1>1. Init => ManagedInv
  <2> SUFFICES ASSUME Init PROVE ManagedInv
    OBVIOUS
  <2>1. InitsInFlight = {} /\ namespaces = {} /\ \A e \in Envs : add[e].pc = "idle" /\ loops[e] = "none"
    BY DEF Init, InitsInFlight
  <2>2. Entries = {}
    <3>1. DOMAIN arrays = 1 .. 1 /\ arrays[1] = <<>> /\ Len(arrays[1]) = 0
      BY DEF Init
    <3>2. QED
      BY <3>1 DEF Entries
  <2>3. \A i \in Inits : listen[i].pc = "none"
    BY DEF Init
  <2>4. QED
    BY <2>1, <2>2, <2>3 DEF ManagedInv, KnownInv, AddInv, InitInv, EntriesInv, LoopInv
<1>2. Types /\ ManagedInv /\ [Next]_vars => ManagedInv'
  BY StepKnownInv, StepAddInv, StepInitInv, StepEntriesInv, StepLoopInv DEF ManagedInv
<1>3. QED
  BY <1>1, <1>2, TypesInvariant, PTL DEF Spec

\* An environment that is synchronised has its manager and is one of the
\* namespaces that are reported for, whatever commands overlap while
\* agent_init is handled by itself: its list is then up to date, and what a
\* listener finds in an array, shifted or written over, is an environment that
\* some command has seen to, is at, or has failed with.
THEOREM SpecWatchedIsManaged ==
  ASSUME InitAlone = TRUE
  PROVE  Spec => []WatchedIsManaged
<1>1. Types /\ ManagedInv => WatchedIsManaged
  BY DEF ManagedInv, LoopInv, Handled, WatchedIsManaged, EnvsInFlight, Adding
<1>2. QED
  BY <1>1, TypesInvariant, ManagedInvariant, PTL

-----------------------------------------------------------------------------
\* While commands are handled one at a time: the list, Namespaces and the
\* configuration.

\* The list of the service names each environment once.
LEMMA KnownNames ==
  ASSUME Types, [Next]_vars, IsInjective(known)
  PROVE  /\ IsInjective(known')
         /\ \A e \in Envs : DeleteArrives(e) => e \notin ToSet(known')
         /\ \A e \in ToSet(known') : e \in ToSet(known) \/ AddArrives(e)
<1>1. known \in Seq(Envs) /\ DOMAIN known = 1 .. Len(known) /\ Len(known) \in Nat
  BY LenProperties DEF Types, ScalarsType
<1>2. ASSUME NEW e \in Envs, AddArrives(e)
      PROVE  IsInjective(known') /\ ToSet(known') \subseteq ToSet(known) \cup {e}
  <2>1. CASE Contains(known, e)
    BY <1>2, <2>1 DEF AddArrives
  <2>2. CASE ~Contains(known, e)
    <3>1. known' = Append(known, e)
      BY <1>2, <2>2 DEF AddArrives
    <3>2. ToSet(known') = ToSet(known) \cup {e}
      BY <1>1, <3>1, ListAppend
    <3>3. /\ Len(known') = Len(known) + 1 /\ known' \in Seq(Envs)
          /\ \A j \in 1 .. Len(known) : known'[j] = known[j]
          /\ known'[Len(known) + 1] = e
      BY <1>1, <3>1, AppendProperties
    <3>4. DOMAIN known' = 1 .. Len(known) + 1
      BY <3>3, LenProperties
    <3>5. \A j \in 1 .. Len(known) : known[j] # e
      BY <1>1, <2>2 DEF Contains
    <3>6. \A j \in 1 .. Len(known) + 1 : j \in 1 .. Len(known) \/ j = Len(known) + 1
      BY <1>1
    <3>7. \A j, k \in 1 .. Len(known) + 1 : known'[j] = known'[k] => j = k
      BY <1>1, <3>3, <3>5, <3>6 DEF IsInjective
    <3>8. QED
      BY <3>2, <3>4, <3>7 DEF IsInjective
  <2>3. QED
    BY <2>1, <2>2
<1>3. ASSUME NEW e \in Envs, DeleteArrives(e)
      PROVE  IsInjective(known') /\ e \notin ToSet(known') /\ ToSet(known') \subseteq ToSet(known)
  <2> DEFINE n == CHOOSE n \in DOMAIN known : known[n] = e
  <2>1. \E m \in DOMAIN known : known[m] = e
    BY <1>1, <1>3 DEF DeleteArrives, Contains
  <2>2. n \in 1 .. Len(known) /\ known[n] = e
    BY <1>1, <2>1
  <2>3. known' = RemoveAt(known, n)
    BY <1>3 DEF DeleteArrives
  <2> HIDE DEF n
  <2>4. QED
    BY <1>1, <2>2, <2>3, ListRemove
<1>4. QED
  BY <1>2, <1>3, WhoChanges

\* What a deletion does to the list and to the environments that are in it.
LEMMA DeleteShape ==
  ASSUME Types, NEW e \in Envs, DeleteShifts(e)
  PROVE  /\ \A x \in Entries : x # e => x \in Entries'
         /\ e \notin Elements(envs) => del'[e].left = Empty /\ Entries' = Entries
         /\ e \in Elements(envs) =>
              /\ del'[e].left = [arr |-> envs.arr, len |-> envs.len - 1] /\ envs.len - 1 \in Nat
              /\ \A x \in Elements(envs) : x # e =>
                   \E j \in 1 .. envs.len - 1 : arrays'[envs.arr][j] = x
         /\ \A p \in 1 .. envs.len :
              arrays[envs.arr][p] = e /\ (\A j \in 1 .. envs.len : arrays[envs.arr][j] = e => j = p) =>
                \A j \in 1 .. envs.len - 1 :
                  arrays'[envs.arr][j] = arrays[envs.arr][IF j < p THEN j ELSE j + 1]
<1>1. arrays \in Seq(Seq(Cells)) /\ envs \in SliceType /\ SliceOK(envs)
  BY DEF Types, HeapType, SliceInv, Cells
<1> DEFINE a == arrays[envs.arr]
           n == envs.len
           b == Scan(a, n, e)
<1>2. n \in Nat /\ envs.arr \in DOMAIN arrays /\ n <= Len(a) /\ \A j \in 1 .. n : a[j] \in Envs
  BY <1>1 DEF SliceType, SliceOK
<1>3. a \in Seq(Cells) /\ Len(a) \in Nat /\ DOMAIN a = 1 .. Len(a)
  BY <1>1, <1>2, LenProperties, ElementOfSeq
<1>4. arrays' = [arrays EXCEPT ![envs.arr] = b]
      /\ del' = [del EXCEPT ![e].pc = "store",
                            ![e].left = IF e \in Elements(envs) THEN [envs EXCEPT !.len = @ - 1] ELSE Empty]
  BY DEF DeleteShifts
<1>5. n \in 0 .. Len(a)
  BY <1>2, <1>3
<1>6. \A x : x \in Elements(envs) <=> \E j \in 1 .. n : a[j] = x
  BY DEF Elements
<1> HIDE DEF a, n
<1>7. b \in Scanned(a, n, Cells)
  BY <1>3, <1>5, ScanScanned
<1>8. e \notin Elements(envs) => b = a
  BY <1>3, <1>5, <1>6, ScanNone
<1>9. ASSUME NEW p \in 1 .. n, a[p] = e, NEW q \in 1 .. n, a[q] # e
      PROVE  \E j \in 1 .. n - 1 : b[j] = a[q]
  <2>1. a \in Seq(Cells) /\ n \in 0 .. Len(a)
    BY <1>3, <1>5
  <2>2. Holds(Scan(a, n, e), n - 1, a[q])
    BY <1>9, <2>1, ScanKeeps
  <2>3. QED
    BY <2>2 DEF Holds
<1>10. ASSUME NEW p \in 1 .. n, a[p] = e, \A j \in 1 .. n : a[j] = e => j = p
       PROVE  b = Shift(a, n, p)
  BY <1>3, <1>5, <1>10, ScanOnce
<1> HIDE DEF b
<1>11. b \in [1 .. Len(a) -> Cells] /\ \A j \in 1 .. Len(a) : j > n => b[j] = a[j]
  BY <1>7 DEF Scanned
<1>12. Len(b) = Len(a)
  BY <1>3, <1>11, FunctionIsArray
<1>13. /\ DOMAIN arrays' = DOMAIN arrays /\ arrays'[envs.arr] = b
       /\ \A k \in DOMAIN arrays : k # envs.arr => arrays'[k] = arrays[k]
  BY <1>2, <1>4
<1>14. ASSUME NEW x \in Entries, x # e PROVE x \in Entries'
  <2>0. PICK k \in DOMAIN arrays : \E j \in 1 .. Len(arrays[k]) : arrays[k][j] = x /\ x \in Envs
    BY DEF Entries
  <2>1. PICK j \in 1 .. Len(arrays[k]) : arrays[k][j] = x /\ x \in Envs
    BY <2>0
  <2>2. CASE k # envs.arr
    BY <1>13, <2>1, <2>2 DEF Entries
  <2>3. CASE k = envs.arr
    <3>1. j \in 1 .. Len(a) /\ a[j] = x
      BY <2>1, <2>3 DEF a
    <3>2. \E h \in 1 .. Len(a) : b[h] = x
      <4>1. CASE e \notin Elements(envs)
        BY <1>8, <3>1, <4>1
      <4>2. CASE e \in Elements(envs) /\ j \in 1 .. n
        <5>1. PICK h \in 1 .. n - 1 : b[h] = x
          BY <1>6, <1>9, <1>14, <3>1, <4>2
        <5>2. h \in 1 .. Len(a)
          BY <1>2, <1>3, <1>5
        <5>3. QED
          BY <5>1, <5>2
      <4>3. CASE j \notin 1 .. n
        <5>1. j > n
          BY <1>2, <1>3, <3>1, <4>3
        <5>2. QED
          BY <1>11, <3>1, <5>1
      <4>4. QED
        BY <4>1, <4>2, <4>3
    <3>3. QED
      BY <1>2, <1>12, <1>13, <2>1, <3>2 DEF Entries
  <2>4. QED
    BY <2>2, <2>3
<1>15. ASSUME e \notin Elements(envs) PROVE del'[e].left = Empty /\ Entries' = Entries
  <2>1. del'[e].left = Empty
    <3>1. del' = [del EXCEPT ![e].pc = "store", ![e].left = Empty]
      BY <1>4, <1>15
    <3>2. QED
      BY <3>1 DEF Types, CommandsType, DelType
  <2>2. arrays' = arrays
    BY <1>1, <1>4, <1>8, <1>15 DEF a
  <2>3. QED
    BY <2>1, <2>2 DEF Entries
<1>16. ASSUME e \in Elements(envs)
       PROVE  /\ del'[e].left = [arr |-> envs.arr, len |-> n - 1] /\ n - 1 \in Nat
              /\ \A x \in Elements(envs) : x # e => \E j \in 1 .. n - 1 : b[j] = x
  <2>1. [envs EXCEPT !.len = @ - 1] = [arr |-> envs.arr, len |-> n - 1]
    BY <1>1 DEF SliceType, n
  <2>2. del' = [del EXCEPT ![e].pc = "store", ![e].left = [arr |-> envs.arr, len |-> n - 1]]
    BY <1>4, <1>16, <2>1
  <2>3. del'[e].left = [arr |-> envs.arr, len |-> n - 1]
    BY <2>2 DEF Types, CommandsType, DelType
  <2>4. PICK p \in 1 .. n : a[p] = e
    BY <1>6, <1>16
  <2>5. n - 1 \in Nat
    BY <1>2, <2>4
  <2>6. \A x \in Elements(envs) : x # e => \E j \in 1 .. n - 1 : b[j] = x
    BY <1>6, <1>9, <2>4
  <2>7. QED
    BY <2>3, <2>5, <2>6
<1>17. ASSUME NEW p \in 1 .. n, a[p] = e, \A j \in 1 .. n : a[j] = e => j = p, NEW j \in 1 .. n - 1
       PROVE  b[j] = a[IF j < p THEN j ELSE j + 1]
  <2>1. b = Shift(a, n, p)
    BY <1>10, <1>17
  <2>2. j \in DOMAIN a /\ (j \in p .. n - 1 <=> ~(j < p))
    BY <1>2, <1>3
  <2>3. QED
    BY <2>1, <2>2 DEF Shift
<1>18. QED
  BY <1>13, <1>14, <1>15, <1>16, <1>17 DEF a, n

\* The environments of the arrays that no deletion has taken out of the list.
Live == {e \in Entries : del[e].pc \in {"idle", "list"}}

\* A listener waits to start the loop of e, or is about to.
Waits(e) ==
  \/ add[e].pc \in {"listen", "slot"}
  \/ \E i \in Inits : listen[i].pc = "slot" /\ listen[i].cur = e

\* Once a deletion has emptied the list, for an environment that is not in it,
\* the process is about to end: no Repo of that environment can be told.
Absent(e) == e \notin Entries /\ e \notin repos /\ ~Waits(e)
Doomed == \E e \in Envs : del[e].pc \in {"store", "signal"} /\ Absent(e)

\* One command at a time; add_env appends to the list as it is.
OrderInv ==
  /\ \A e, h \in EnvsInFlight : e = h
  /\ \A e \in Envs : add[e].pc \in Adding => del[e].pc = "idle"
  /\ \A e \in Envs : add[e].pc = "append" => add[e].held = envs
  /\ \A e \in Entries : del[e].pc = "idle" => e \in ToSet(known)

\* What is synchronised, or is going to be, has been in a list.
PlaceInv ==
  \A e \in Envs :
    /\ del[e].pc \in {"idle", "list"}
    /\ e \in repos \/ loops[e] = "on" \/ Waits(e) \/ add[e].pc \in {"create", "keys", "write", "mgr"}
    => e \in Entries

\* The list, or the one that a deletion is about to store, has all of them.
Shown(s) == Live \subseteq Elements(s)
ShownInv ==
  ~Doomed =>
    /\ (\A h \in Envs : del[h].pc # "store") => Shown(envs)
    /\ \A h \in Envs : del[h].pc = "store" => Shown(del[h].left)

\* They are in the configuration, or add_env is about to write it.
ConfigInv ==
  /\ \A e \in Entries : del[e].pc = "idle" =>
       e \in failed \/ e \in config \/ add[e].pc \in {"create", "keys", "write"}
  /\ \A h \in Envs : add[h].pc = "write" =>
       \A e \in Entries : del[e].pc = "idle" => e \in add[h].content
  /\ \A i \in Inits : init[i].pc \in {"create", "mgrs", "store"} => ToSet(known) \subseteq config

LEMMA OneAtATime ==
  ASSUME Types, InitInv, OrderInv, NEW e \in EnvsInFlight
  PROVE  /\ InitsInFlight = {} /\ e \in Envs
         /\ \A h \in Envs : add[h].pc \in Adding => h = e /\ del[h].pc = "idle"
         /\ \A h \in Envs : del[h].pc \notin {"idle", "done"} => h = e /\ add[h].pc \notin Adding
<1>1. InitsInFlight = {} /\ e \in Envs
  BY DEF InitInv, EnvsInFlight
<1>2. \A h \in Envs : add[h].pc \in Adding \/ del[h].pc \notin {"idle", "done"} => h = e
  BY DEF OrderInv, EnvsInFlight, Adding
<1>3. QED
  BY <1>1, <1>2 DEF OrderInv

LEMMA Arrivals ==
  ASSUME Types, [Next]_vars, ~met'
  PROVE  /\ \A e \in Envs : AddArrives(e) \/ DeleteArrives(e) => InitsInFlight = {} /\ EnvsInFlight = {}
         /\ \A i \in Inits : InitArrives(i) => InitsInFlight = {} /\ EnvsInFlight = {}
BY DEF AddArrives, DeleteArrives, InitArrives, Arrives

LEMMA InFlight ==
  ASSUME Types, [Next]_vars
  PROVE  /\ \A e \in Envs :
              AddChecks(e) \/ AddAppends(e) \/ AddCreates(e) \/ AddReads(e) \/ AddWrites(e) \/ AddManages(e)
                \/ AddFails(e) => add[e].pc \in Adding /\ e \in EnvsInFlight
         /\ \A e \in Envs :
              DeleteShifts(e) \/ DeleteStores(e) \/ DeleteSignals(e) \/ DeleteFinishes(e) =>
                del[e].pc \notin {"idle", "done"} /\ e \in EnvsInFlight
         /\ \A i \in Inits :
              InitWrites(i) \/ InitCreates(i) \/ InitManages(i) \/ InitStores(i) \/ InitFails(i) =>
                i \in InitsInFlight
<1>1. ASSUME NEW e \in Envs,
             AddChecks(e) \/ AddAppends(e) \/ AddCreates(e) \/ AddReads(e) \/ AddWrites(e) \/ AddManages(e)
               \/ AddFails(e)
      PROVE  add[e].pc \in Adding /\ e \in EnvsInFlight
  <2>1. add[e].pc \in Adding
    BY <1>1, AddStepOf DEF Adding
  <2>2. QED
    BY <2>1 DEF EnvsInFlight, Adding
<1>2. ASSUME NEW e \in Envs, DeleteShifts(e) \/ DeleteStores(e) \/ DeleteSignals(e) \/ DeleteFinishes(e)
      PROVE  del[e].pc \notin {"idle", "done"} /\ e \in EnvsInFlight
  BY <1>2 DEF DeleteShifts, DeleteStores, DeleteSignals, DeleteFinishes, DeleteGoes, EnvsInFlight
<1>3. ASSUME NEW i \in Inits, InitWrites(i) \/ InitCreates(i) \/ InitManages(i) \/ InitStores(i)
      PROVE  i \in InitsInFlight
  BY <1>3 DEF InitWrites, InitCreates, InitManages, InitStores, InitGoes, InitsInFlight
<1>4. QED
  BY <1>1, <1>2, <1>3, InitStepOf

LEMMA EntriesGrow ==
  ASSUME Types, [Next]_vars, NEW e \in Entries'
  PROVE  e \in Entries \/ AddAppends(e) \/ \E i \in Inits : InitStores(i) /\ e \in ToSet(init[i].list)
<1>1. ASSUME UNCHANGED arrays PROVE Entries' = Entries
  BY <1>1 DEF Entries
<1>2. ASSUME NEW h \in Envs, DeleteShifts(h) PROVE Entries' \subseteq Entries
  BY <1>2, DeleteHeap
<1>3. ASSUME NEW h \in Envs, AddAppends(h) PROVE Entries' \subseteq Entries \cup {h}
  BY <1>3, AddHeap
<1>4. ASSUME NEW i \in Inits, InitStores(i) PROVE Entries' \subseteq Entries \cup ToSet(init[i].list)
  BY <1>4, InitHeap
<1>5. QED
  BY <1>1, <1>2, <1>3, <1>4, WhoChanges

\* The new list is in the arrays.
LEMMA ListIsEntries ==
  ASSUME Types, [Next]_vars
  PROVE  \A j \in 1 .. envs'.len : arrays'[envs'.arr][j] \in Entries'
<1>1. ArraysKept /\ HeapType' /\ SliceInv'
  BY StepHeap
<1>2. /\ envs' \in SliceType /\ envs'.arr \in DOMAIN arrays' /\ envs'.len <= Len(arrays'[envs'.arr])
      /\ \A j \in 1 .. envs'.len : arrays'[envs'.arr][j] \in Envs
  BY <1>1 DEF HeapType, SliceInv, SliceOK
<1>3. Len(arrays'[envs'.arr]) \in Nat /\ envs'.len \in Nat
  <2>1. arrays'[envs'.arr] \in Seq(Cells)
    BY <1>1, <1>2, LenProperties, ElementOfSeq DEF HeapType, Cells
  <2>2. QED
    BY <1>2, <2>1, LenProperties DEF SliceType
<1>4. \A j \in 1 .. envs'.len : j \in 1 .. Len(arrays'[envs'.arr])
  BY <1>2, <1>3
<1>5. QED
  BY <1>2, <1>4 DEF Entries

LEMMA LiveStay ==
  ASSUME Types, InitInv, OrderInv, ShownInv, [Next]_vars, NEW e \in Live, del'[e].pc \in {"idle", "list"}
  PROVE  e \in Entries'
<1>0. e \in Entries /\ e \in Envs
  BY DEF Live, Entries
<1>1. CASE UNCHANGED arrays
  BY <1>0, <1>1 DEF Entries
<1>2. ASSUME NEW i \in Inits, InitStores(i) PROVE e \in Entries'
  <2>1. \A k \in DOMAIN arrays : k \in DOMAIN arrays' /\ arrays'[k] = arrays[k]
    BY <1>2, InitHeap
  <2>2. QED
    BY <1>0, <2>1 DEF Entries
<1>3. ASSUME NEW h \in Envs, DeleteShifts(h) PROVE e \in Entries'
  <2>1. e # h
    BY <1>3, DelStep
  <2>2. QED
    BY <1>0, <1>3, <2>1, DeleteShape
<1>4. ASSUME NEW h \in Envs, AddAppends(h) PROVE e \in Entries'
  <2>1. h \in EnvsInFlight /\ add[h].pc = "append" /\ add[h].pc \in Adding
    BY <1>4, InFlight, AddStepOf
  <2>2. \A x \in Envs : del[x].pc \in {"idle", "done"}
    BY <2>1, OneAtATime
  <2>3. Shown(envs)
    BY <2>2 DEF ShownInv, Doomed
  <2>4. add[h].held = envs
    BY <2>1 DEF OrderInv
  <2>5. PICK j \in 1 .. envs.len : arrays[envs.arr][j] = e
    BY <2>3 DEF Shown, Elements
  <2>6. envs'.len = envs.len + 1 /\ arrays'[envs'.arr][j] = e /\ envs.len \in Nat
    BY <1>4, <2>4, <2>5, AddHeap DEF Types, HeapType, SliceType
  <2>7. j \in 1 .. envs'.len
    BY <2>6
  <2>8. QED
    BY <2>6, <2>7, ListIsEntries
<1>5. QED
  BY <1>1, <1>2, <1>3, <1>4, WhoChanges

LEMMA StepOrder ==
  ASSUME Types, KnownInv, InitInv, OrderInv, [Next]_vars, ~met'
  PROVE  OrderInv'
<1>1. ASSUME NEW e \in Envs, e \in EnvsInFlight', e \notin EnvsInFlight
      PROVE  AddArrives(e) \/ DeleteArrives(e)
  <2>1. add[e].pc \notin Adding /\ del[e].pc \in {"idle", "done"}
    BY <1>1 DEF EnvsInFlight, Adding
  <2>2. add'[e].pc \in Adding \/ del'[e].pc \notin {"idle", "done"}
    BY <1>1 DEF EnvsInFlight, Adding
  <2>3. CASE add'[e].pc \in Adding
    BY <2>1, <2>3, AddStepOf DEF Adding
  <2>4. CASE del'[e].pc \notin {"idle", "done"}
    BY <2>1, <2>4, DelStep
  <2>5. QED
    BY <2>2, <2>3, <2>4
<1>2. ASSUME NEW e \in Envs, AddArrives(e) \/ DeleteArrives(e)
      PROVE  \A h \in EnvsInFlight' : h = e
  <2>1. EnvsInFlight = {}
    BY <1>2, Arrivals
  <2>2. \A h \in Envs : h # e => add'[h] = add[h] /\ del'[h] = del[h]
    BY <1>2 DEF AddArrives, DeleteArrives, Types, CommandsType
  <2>3. QED
    BY <2>1, <2>2 DEF EnvsInFlight
<1>3. \A e, h \in EnvsInFlight' : e = h
  <2> SUFFICES ASSUME NEW e \in EnvsInFlight', NEW h \in EnvsInFlight' PROVE e = h
    OBVIOUS
  <2>1. e \in Envs /\ h \in Envs
    BY DEF EnvsInFlight
  <2>2. CASE e \in EnvsInFlight /\ h \in EnvsInFlight
    BY <2>2 DEF OrderInv
  <2>3. CASE e \notin EnvsInFlight
    BY <1>1, <1>2, <2>1, <2>3
  <2>4. CASE h \notin EnvsInFlight
    BY <1>1, <1>2, <2>1, <2>4
  <2>5. QED
    BY <2>2, <2>3, <2>4
<1>4. ASSUME NEW e \in Envs, add'[e].pc \in Adding PROVE del'[e].pc = "idle"
  <2>1. CASE AddArrives(e)
    BY <2>1 DEF AddArrives
  <2>2. CASE ~AddArrives(e)
    <3>1. add[e].pc \in Adding
      BY <1>4, <2>2, AddStepOf DEF Adding
    <3>2. del[e].pc = "idle" /\ EnvsInFlight # {}
      BY <3>1 DEF OrderInv, EnvsInFlight, Adding
    <3>3. ~DeleteArrives(e)
      BY <3>2, Arrivals
    <3>4. QED
      BY <3>2, <3>3, DelStep
  <2>3. QED
    BY <2>1, <2>2
<1>5. ASSUME NEW e \in Envs, add'[e].pc = "append" PROVE add'[e].held = envs'
  <2>1. CASE AddChecks(e)
    <3>1. add'[e].held = envs
      BY <2>1, AddStepOf
    <3>2. UNCHANGED envs
      BY <2>1 DEF AddChecks, heapVars
    <3>3. QED
      BY <3>1, <3>2
  <2>2. CASE ~AddChecks(e)
    <3>1. add[e].pc = "append" /\ add'[e].held = add[e].held
      BY <1>5, <2>2, AddStepOf
    <3>2. e \in EnvsInFlight /\ add[e].pc \in Adding
      BY <3>1 DEF EnvsInFlight, Adding
    <3>3. InitsInFlight = {} /\ \A h \in Envs : (add[h].pc \in Adding => h = e) /\ del[h].pc \in {"idle", "done"}
      BY <3>2, OneAtATime
    <3>4. (\A i \in Inits : ~InitStores(i)) /\ \A h \in Envs : ~DeleteStores(h) /\ (AddAppends(h) => h = e)
      BY <3>3, InFlight
    <3>5. ~AddAppends(e)
      BY <1>5, AddStepOf
    <3>6. UNCHANGED envs
      BY <3>4, <3>5, WhoChanges
    <3>7. QED
      BY <3>1, <3>6 DEF OrderInv
  <2>3. QED
    BY <2>1, <2>2
<1>6. ASSUME NEW e \in Entries', del'[e].pc = "idle" PROVE e \in ToSet(known')
  <2>0. e \in Envs
    BY DEF Entries
  <2>1. e \in ToSet(known)
    <3>1. CASE e \in Entries
      BY <1>6, <2>0, <3>1, NamesStay DEF OrderInv
    <3>2. CASE AddAppends(e)
      <4>1. add[e].pc # "idle" /\ del[e].pc = "idle"
        BY <1>6, <2>0, <3>2, NamesStay, AddStepOf
      <4>2. QED
        BY <2>0, <4>1 DEF KnownInv
    <3>3. ASSUME NEW i \in Inits, InitStores(i), e \in ToSet(init[i].list) PROVE e \in ToSet(known)
      <4>1. i \in InitsInFlight
        BY <3>3, InFlight
      <4>2. QED
        BY <3>3, <4>1 DEF InitInv
    <3>4. QED
      BY <3>1, <3>2, <3>3, EntriesGrow
  <2>2. QED
    BY <1>6, <2>0, <2>1, NamesStay
<1>7. QED
  BY <1>3, <1>4, <1>5, <1>6 DEF OrderInv

\* What waits was found in an array or added.
LEMMA WaitsFrom ==
  ASSUME Types, [Next]_vars, NEW e \in Envs, Waits(e)'
  PROVE  Waits(e) \/ AddManages(e) \/ e \in Entries
<1>1. CASE add'[e].pc \in {"listen", "slot"}
  <2>1. add[e].pc \in {"listen", "slot"} \/ AddManages(e)
    BY <1>1, AddStepOf DEF Adding
  <2>2. QED
    BY <2>1 DEF Waits
<1>2. CASE \E i \in Inits : listen'[i].pc = "slot" /\ listen'[i].cur = e
  <2>1. PICK i \in Inits : listen'[i].pc = "slot" /\ listen'[i].cur = e
    BY <1>2
  <2>2. (listen[i].pc = "slot" /\ listen[i].cur = e) \/ e \in Entries
    BY <2>1, VisitedFrom
  <2>3. QED
    BY <2>2 DEF Waits
<1>3. QED
  BY <1>1, <1>2 DEF Waits

LEMMA StepPlace ==
  ASSUME Types, InitInv, OrderInv, PlaceInv, ShownInv, [Next]_vars
  PROVE  PlaceInv'
<1> SUFFICES ASSUME NEW e \in Envs, del'[e].pc \in {"idle", "list"},
                    \/ e \in repos' \/ loops'[e] = "on" \/ Waits(e)'
                    \/ add'[e].pc \in {"create", "keys", "write", "mgr"}
             PROVE  e \in Entries'
  BY DEF PlaceInv
<1>1. del[e].pc \in {"idle", "list"}
  BY DelStep
<1>2. ASSUME e \in Entries PROVE e \in Entries'
  BY <1>1, <1>2, LiveStay DEF Live
<1>3. ASSUME e \in repos \/ loops[e] = "on" \/ Waits(e) \/ add[e].pc \in {"create", "keys", "write", "mgr"}
      PROVE  e \in Entries
  BY <1>1, <1>3 DEF PlaceInv
<1>4. ASSUME NEW h \in Envs, AddAcquires(h) PROVE Waits(h)
  BY <1>4 DEF AddAcquires, AddGoes, Waits
<1>5. ASSUME NEW i \in Inits, ListenAcquires(i) PROVE Waits(listen[i].cur)
  BY <1>5 DEF ListenAcquires, Waits
<1>6. CASE e \in repos'
  <2>1. e \in repos \/ Waits(e)
    <3>1. ASSUME NEW h \in Envs, AddAcquires(h) PROVE e \in repos \/ e = h
      BY <1>6, <3>1 DEF AddAcquires, Starts
    <3>2. ASSUME NEW i \in Inits, ListenAcquires(i) PROVE e \in repos \/ e = listen[i].cur
      BY <1>6, <3>2 DEF ListenAcquires, Starts
    <3>3. ASSUME NEW h \in Envs, DeleteSignals(h) PROVE e \in repos
      BY <1>6, <3>3 DEF DeleteSignals
    <3>4. QED
      BY <1>4, <1>5, <1>6, <3>1, <3>2, <3>3, WhoChanges
  <2>2. QED
    BY <1>2, <1>3, <2>1
<1>7. CASE loops'[e] = "on"
  <2>1. loops[e] = "on" \/ Waits(e)
    <3> loops \in [Envs -> {"none", "on", "told"}]
      BY DEF Types, ScalarsType
    <3>1. ASSUME NEW h \in Envs, AddAcquires(h) PROVE loops[e] = "on" \/ e = h
      BY <1>7, <3>1 DEF AddAcquires, Starts
    <3>2. ASSUME NEW i \in Inits, ListenAcquires(i) PROVE loops[e] = "on" \/ e = listen[i].cur
      BY <1>7, <3>2 DEF ListenAcquires, Starts
    <3>3. ASSUME NEW h \in Envs, DeleteSignals(h) \/ LoopEnds(h) PROVE loops[e] = "on"
      BY <1>7, <3>3 DEF DeleteSignals, LoopEnds
    <3>4. ASSUME Reconnects PROVE loops[e] = "on"
      BY <1>7, <3>4 DEF Reconnects
    <3>5. QED
      BY <1>4, <1>5, <1>7, <3>1, <3>2, <3>3, <3>4, WhoChanges
  <2>2. QED
    BY <1>2, <1>3, <2>1
<1>8. CASE Waits(e)'
  <2>1. AddManages(e) => add[e].pc = "mgr"
    BY AddStepOf
  <2>2. QED
    BY <1>2, <1>3, <1>8, <2>1, WaitsFrom
<1>9. CASE add'[e].pc \in {"create", "keys", "write", "mgr"}
  <2>1. CASE AddAppends(e)
    <3>1. envs'.len = add[e].held.len + 1 /\ arrays'[envs'.arr][envs'.len] = e
      BY <2>1, AddHeap
    <3>2. add[e].held.len \in Nat
      BY DEF Types, CommandsType, AddType, SliceType
    <3>3. envs'.len \in 1 .. envs'.len
      BY <3>1, <3>2
    <3>4. QED
      BY <3>1, <3>3, ListIsEntries
  <2>2. CASE ~AddAppends(e)
    <3>1. add[e].pc \in {"create", "keys", "write", "mgr"}
      BY <1>9, <2>2, AddStepOf DEF Adding
    <3>2. QED
      BY <1>2, <1>3, <3>1
  <2>3. QED
    BY <2>1, <2>2
<1>10. QED
  BY <1>6, <1>7, <1>8, <1>9

\* Where nothing tells a Repo of e, the deletion of e ends the process.
LEMMA DoomedStays ==
  ASSUME Types, InitInv, OrderInv, [Next]_vars, process' = "up", Doomed
  PROVE  Doomed'
<1>1. PICK e \in Envs : del[e].pc \in {"store", "signal"} /\ Absent(e)
  BY DEF Doomed
<1>2. e \in EnvsInFlight /\ InitsInFlight = {} /\ \A h \in Envs : add[h].pc \notin Adding
  <2>1. e \in EnvsInFlight
    BY <1>1 DEF EnvsInFlight
  <2>2. del[e].pc \notin {"idle", "done"}
    BY <1>1
  <2>3. \A h \in Envs : add[h].pc \in Adding => h = e /\ del[h].pc = "idle"
    BY <2>1, OneAtATime
  <2>4. QED
    BY <2>1, <2>2, <2>3, OneAtATime
<1>3. ~DeleteSignals(e)
  BY <1>1 DEF DeleteSignals, Absent
<1>4. del'[e].pc \in {"store", "signal"}
  <2>1. CASE del[e].pc = "store"
    BY <2>1, DelStep
  <2>2. CASE del[e].pc = "signal"
    BY <1>3, <2>2, DelStep
  <2>3. QED
    BY <1>1, <2>1, <2>2
<1>5. e \notin Entries'
  <2>1. ~AddAppends(e) /\ \A i \in Inits : ~InitStores(i)
    BY <1>2, InFlight
  <2>2. QED
    BY <1>1, <2>1, EntriesGrow DEF Absent
<1>6. ~Waits(e)'
  <2>1. ~AddManages(e)
    BY <1>2, InFlight
  <2>2. QED
    BY <1>1, <2>1, WaitsFrom DEF Absent
<1>7. e \notin repos'
  <2>1. ASSUME NEW h \in Envs, AddAcquires(h) PROVE e \notin repos'
    <3>1. Waits(h) /\ repos' = repos \cup {h}
      BY <2>1 DEF AddAcquires, AddGoes, Starts, Waits
    <3>2. QED
      BY <1>1, <3>1 DEF Absent
  <2>2. ASSUME NEW i \in Inits, ListenAcquires(i) PROVE e \notin repos'
    <3>1. Waits(listen[i].cur) /\ repos' = repos \cup {listen[i].cur}
      BY <2>2 DEF ListenAcquires, Starts, Waits
    <3>2. QED
      BY <1>1, <3>1 DEF Absent
  <2>3. ASSUME NEW h \in Envs, DeleteSignals(h) PROVE e \notin repos'
    BY <1>1, <2>3 DEF DeleteSignals, Absent
  <2>4. QED
    BY <1>1, <2>1, <2>2, <2>3, WhoChanges DEF Absent
<1>8. QED
  BY <1>4, <1>5, <1>6, <1>7 DEF Doomed, Absent

LEMMA LiveBack ==
  ASSUME Types, [Next]_vars, NEW e \in Envs, e \in Live'
  PROVE  /\ del[e].pc \in {"idle", "list"}
         /\ e \in Live \/ AddAppends(e) \/ \E i \in Inits : InitStores(i) /\ e \in ToSet(init[i].list)
<1>1. del'[e].pc \in {"idle", "list"} /\ e \in Entries'
  BY DEF Live
<1>2. del[e].pc \in {"idle", "list"}
  BY <1>1, DelStep
<1>3. QED
  BY <1>1, <1>2, EntriesGrow DEF Live

LEMMA StepShown ==
  ASSUME Types, KnownInv, InitInv, OrderInv, PlaceInv, ShownInv, [Next]_vars, ~met', process' = "up"
  PROVE  ShownInv'
<1> SUFFICES ASSUME ~Doomed'
             PROVE  /\ (\A h \in Envs : del'[h].pc # "store") => Shown(envs)'
                    /\ \A h \in Envs : del'[h].pc = "store" => Shown(del[h].left)'
  BY DEF ShownInv
<1>1. /\ (\A h \in Envs : del[h].pc # "store") => Shown(envs)
      /\ \A h \in Envs : del[h].pc = "store" => Shown(del[h].left)
  BY DoomedStays DEF ShownInv
<1>2. ASSUME NEW h \in Envs, DeleteShifts(h)
      PROVE  /\ \E x \in Envs : del'[x].pc = "store"
             /\ \A x \in Envs : del'[x].pc = "store" => Shown(del[x].left)'
  <2>1. h \in EnvsInFlight /\ del[h].pc = "list" /\ del'[h].pc = "store" /\ UNCHANGED envs
    BY <1>2, InFlight, DelStep DEF DeleteShifts
  <2>2. \A x \in Envs : x # h => del[x].pc \in {"idle", "done"} /\ add[x].pc \notin Adding
    BY <2>1, OneAtATime
  <2>3. Shown(envs)
    BY <1>1, <2>1, <2>2
  <2>4. \A x \in Envs : x # h => del'[x].pc # "store"
    BY <1>2, <2>2 DEF DeleteShifts, Types, CommandsType
  <2>5. h \in Elements(envs)
    <3> SUFFICES ASSUME h \notin Elements(envs) PROVE FALSE
      OBVIOUS
    <3>1. h \notin Entries
      BY <2>1, <2>3 DEF Shown, Live
    <3>2. h \notin repos /\ ~Waits(h)
      BY <2>1, <3>1 DEF PlaceInv
    <3>3. h \notin Entries' /\ h \notin repos' /\ ~Waits(h)'
      <4>1. h \notin Entries'
        BY <1>2, <3>1, DeleteHeap
      <4>2. UNCHANGED <<repos, add, listen>>
        BY <1>2 DEF DeleteShifts, gitVars
      <4>3. QED
        BY <3>2, <4>1, <4>2 DEF Waits
    <3>4. QED
      BY <2>1, <3>3 DEF Doomed, Absent
  <2>6. /\ del'[h].left = [arr |-> envs.arr, len |-> envs.len - 1]
        /\ \A x \in Elements(envs) : x # h => \E j \in 1 .. envs.len - 1 : arrays'[envs.arr][j] = x
    BY <1>2, <2>5, DeleteShape
  <2>7. ASSUME NEW x \in Envs, x \in Live'
        PROVE  \E j \in 1 .. envs.len - 1 : arrays'[envs.arr][j] = x
    <3>1. x # h
      BY <2>1, <2>7 DEF Live
    <3>2. x \in Entries /\ del[x].pc \in {"idle", "list"}
      BY <1>2, <2>7, DeleteHeap, LiveBack DEF Live
    <3>3. x \in Elements(envs)
      BY <2>3, <3>2 DEF Shown, Live
    <3>4. QED
      BY <2>6, <3>1, <3>3
  <2>8. Live' \subseteq {arrays'[envs.arr][j] : j \in 1 .. envs.len - 1}
    <3>1. Live' \subseteq Envs
      BY DEF Live, Entries
    <3>2. QED
      BY <2>7, <3>1
  <2>9. Shown(del[h].left)'
    BY <2>6, <2>8 DEF Shown, Elements
  <2>10. QED
    BY <2>1, <2>4, <2>9
<1>3. ASSUME NEW h \in Envs, DeleteStores(h)
      PROVE  /\ Shown(envs)'
             /\ \A x \in Envs : del'[x].pc # "store"
  <2>1. h \in EnvsInFlight /\ del[h].pc = "store" /\ del'[h].pc = "signal"
    BY <1>3, InFlight, DelStep
  <2>2. envs' = del[h].left /\ UNCHANGED arrays /\ del' = [del EXCEPT ![h].pc = "signal"]
    BY <1>3 DEF DeleteStores, DeleteGoes
  <2>3. Live' \subseteq Live
    <3>1. Entries' = Entries
      BY <2>2 DEF Entries
    <3>2. \A x \in Envs : del'[x].pc \in {"idle", "list"} => del[x].pc \in {"idle", "list"}
      BY DelStep
    <3>3. QED
      BY <3>1, <3>2 DEF Live, Entries
  <2>4. Shown(del[h].left)
    BY <1>1, <2>1
  <2>5. \A x \in Envs : x # h => del[x].pc \in {"idle", "done"}
    BY <2>1, OneAtATime
  <2>6. QED
    BY <2>1, <2>2, <2>3, <2>4, <2>5 DEF Shown, Elements, Types, CommandsType
<1>4. ASSUME NEW i \in Inits, InitStores(i)
      PROVE  /\ Shown(envs)'
             /\ \A x \in Envs : del'[x].pc # "store"
  <2>1. i \in InitsInFlight
    BY <1>4, InFlight
  <2>2. init[i].list = known /\ \A x \in Envs : del[x].pc \in {"idle", "done"}
    BY <2>1 DEF InitInv, EnvsInFlight
  <2>3. UNCHANGED del
    BY <1>4 DEF InitStores
  <2>4. /\ envs'.len = Len(known)
        /\ \A j \in 1 .. Len(known) : arrays'[envs'.arr][j] = known[j]
        /\ Entries' \subseteq Entries \cup ToSet(known)
    BY <1>4, <2>2, InitHeap
  <2>5. Live' \subseteq ToSet(known)
    BY <2>2, <2>3, <2>4 DEF Live, OrderInv, Entries
  <2>6. DOMAIN known = 1 .. Len(known)
    BY LenProperties DEF Types, ScalarsType
  <2>7. ToSet(known) \subseteq {arrays'[envs'.arr][j] : j \in 1 .. envs'.len}
    BY <2>4, <2>6 DEF ToSet
  <2>8. QED
    BY <2>2, <2>3, <2>5, <2>7 DEF Shown, Elements
<1>5. ASSUME NEW h \in Envs, AddAppends(h)
      PROVE  /\ Shown(envs)'
             /\ \A x \in Envs : del'[x].pc # "store"
  <2>1. h \in EnvsInFlight /\ add[h].pc = "append" /\ add[h].pc \in Adding
    BY <1>5, InFlight, AddStepOf
  <2>2. (\A x \in Envs : del[x].pc \in {"idle", "done"}) /\ UNCHANGED del
    BY <1>5, <2>1, OneAtATime DEF AddAppends
  <2>3. Shown(envs) /\ add[h].held = envs
    BY <1>1, <2>1, <2>2 DEF OrderInv
  <2>4. /\ envs'.len = envs.len + 1 /\ arrays'[envs'.arr][envs'.len] = h
        /\ \A j \in 1 .. envs.len : arrays'[envs'.arr][j] = arrays[envs.arr][j]
        /\ Entries' \subseteq Entries \cup {h} /\ envs.len \in Nat
    BY <1>5, <2>3, AddHeap DEF Types, HeapType, SliceType
  <2>5. Live' \subseteq Live \cup {h}
    BY <2>2, <2>4 DEF Live
  <2>6. \A j \in 1 .. envs.len : j \in 1 .. envs'.len
    BY <2>4
  <2>7. envs'.len \in 1 .. envs'.len
    BY <2>4
  <2>8. Elements(envs) \cup {h} \subseteq {arrays'[envs'.arr][j] : j \in 1 .. envs'.len}
    BY <2>4, <2>6, <2>7 DEF Elements
  <2>9. QED
    BY <2>2, <2>3, <2>5, <2>8 DEF Shown, Elements
<1>6. CASE UNCHANGED <<arrays, envs>> /\ \A h \in Envs : ~DeleteShifts(h) /\ ~DeleteStores(h)
  <2>1. Live' \subseteq Live
    <3>1. Entries' = Entries
      BY <1>6 DEF Entries
    <3>2. \A x \in Envs : del'[x].pc \in {"idle", "list"} => del[x].pc \in {"idle", "list"}
      BY DelStep
    <3>3. QED
      BY <3>1, <3>2 DEF Live, Entries
  <2>2. \A h \in Envs : (del'[h].pc = "store" <=> del[h].pc = "store") /\ del'[h].left = del[h].left
    BY <1>6, DelStep
  <2>3. (\A h \in Envs : del'[h].pc # "store") => Shown(envs)'
    BY <1>1, <1>6, <2>1, <2>2 DEF Shown, Elements
  <2>4. ASSUME NEW h \in Envs, del'[h].pc = "store" PROVE Shown(del[h].left)'
    BY <1>1, <1>6, <2>1, <2>2, <2>4 DEF Shown, Elements
  <2>5. QED
    BY <2>3, <2>4
<1>7. CASE UNCHANGED arrays /\ UNCHANGED envs /\ \E h \in Envs : DeleteShifts(h) \/ DeleteStores(h)
  BY <1>2, <1>3, <1>7
<1>8. QED
  BY <1>2, <1>3, <1>4, <1>5, <1>6, <1>7, WhoChanges

LEMMA StepConfig ==
  ASSUME Types, KnownInv, InitInv, OrderInv, ShownInv, ConfigInv, [Next]_vars, ~met'
  PROVE  ConfigInv'
<1>1. ASSUME NEW h \in Envs, AddReads(h), NEW e \in Entries, del[e].pc = "idle"
      PROVE  e \in Elements(envs)
  <2>1. h \in EnvsInFlight /\ add[h].pc \in Adding
    BY <1>1, InFlight
  <2>2. \A x \in Envs : del[x].pc \in {"idle", "done"}
    BY <2>1, OneAtATime
  <2>3. Shown(envs)
    BY <2>2 DEF ShownInv, Doomed
  <2>4. QED
    BY <1>1, <2>3 DEF Shown, Live
<1>2. ASSUME NEW h \in Envs, add'[h].pc = "write", NEW e \in Entries', del'[e].pc = "idle"
      PROVE  e \in add'[h].content
  <2>0. e \in Envs /\ del[e].pc = "idle"
    BY <1>2, DelStep DEF Entries
  <2>1. CASE AddReads(h)
    <3>1. Entries' = Entries
      BY <2>1 DEF AddReads, heapVars, Entries
    <3>2. QED
      BY <1>1, <1>2, <2>0, <2>1, <3>1, AddStepOf
  <2>2. CASE ~AddReads(h)
    <3>1. add[h].pc = "write" /\ add'[h].content = add[h].content
      BY <1>2, <2>2, AddStepOf
    <3>2. h \in EnvsInFlight
      BY <3>1 DEF EnvsInFlight
    <3>3. \A i \in Inits : ~InitStores(i)
      BY <3>2, OneAtATime, InFlight
    <3>4. ~AddAppends(e)
      <4>1. add[e].pc = "append" => e = h
        BY <2>0, <3>2, OneAtATime DEF Adding
      <4>2. QED
        BY <2>0, <3>1, <4>1, AddStepOf
    <3>5. e \in Entries
      BY <3>3, <3>4, EntriesGrow
    <3>6. QED
      BY <2>0, <3>1, <3>5 DEF ConfigInv
  <2>3. QED
    BY <2>1, <2>2
<1>3. ASSUME NEW i \in Inits, InitWrites(i) PROVE config' = ToSet(known)
  BY <1>3, InFlight DEF InitWrites, InitInv
<1>4. ASSUME NEW i \in Inits, init'[i].pc \in {"create", "mgrs", "store"}
      PROVE  ToSet(known') \subseteq config'
  <2>1. init[i].pc \in {"keys", "create", "mgrs", "store"}
    BY <1>4, InitStepOf DEF InitsInFlight, Types, CommandsType, InitType
  <2>2. i \in InitsInFlight
    BY <2>1 DEF InitsInFlight
  <2>3. known' = known /\ EnvsInFlight = {}
    BY <2>2, Alone DEF InitInv
  <2>4. \A h \in Envs : ~AddWrites(h)
    BY <2>3, InFlight
  <2>5. CASE \E j \in Inits : InitWrites(j)
    BY <1>3, <2>3, <2>5
  <2>6. CASE \A j \in Inits : ~InitWrites(j)
    <3>1. UNCHANGED config
      BY <2>4, <2>6, WhoChanges
    <3>2. init[i].pc \in {"create", "mgrs", "store"}
      BY <1>4, <2>1, <2>6, InitStepOf DEF InitStep, InitCreates, InitGoes
    <3>3. QED
      BY <2>3, <3>1, <3>2 DEF ConfigInv
  <2>7. QED
    BY <2>5, <2>6
<1>5. ASSUME NEW e \in Entries', del'[e].pc = "idle"
      PROVE  e \in failed' \/ e \in config' \/ add'[e].pc \in {"create", "keys", "write"}
  <2>0. e \in Envs /\ del[e].pc = "idle"
    BY <1>5, DelStep DEF Entries
  <2>1. CASE \E i \in Inits : InitWrites(i)
    <3>1. PICK i \in Inits : InitWrites(i)
      BY <2>1
    <3>2. Entries' = Entries
      BY <3>1 DEF InitWrites, heapVars, Entries
    <3>3. e \in ToSet(known)
      BY <1>5, <2>0, <3>2 DEF OrderInv
    <3>4. QED
      BY <1>3, <3>1, <3>3
  <2>2. CASE \E h \in Envs : AddWrites(h)
    <3>1. PICK h \in Envs : AddWrites(h)
      BY <2>2
    <3>2. Entries' = Entries /\ config' = add[h].content
      BY <3>1 DEF AddWrites, heapVars, Entries
    <3>3. add[h].pc = "write"
      BY <3>1, AddStepOf
    <3>4. QED
      BY <1>5, <2>0, <3>2, <3>3 DEF ConfigInv
  <2>3. CASE AddAppends(e)
    BY <2>0, <2>3, AddStepOf
  <2>4. ASSUME NEW i \in Inits, InitStores(i), e \in ToSet(init[i].list) PROVE e \in config'
    <3>1. i \in InitsInFlight /\ init[i].pc = "store" /\ UNCHANGED config
      BY <2>4, InFlight, InitStepOf DEF InitStores, setVars
    <3>2. QED
      BY <2>4, <3>1 DEF InitInv, ConfigInv
  <2>5. CASE UNCHANGED config /\ e \in Entries
    <3>1. e \in failed \/ e \in config \/ add[e].pc \in {"create", "keys", "write"}
      BY <2>0, <2>5 DEF ConfigInv
    <3>2. CASE e \in failed
      BY <3>2, FailedStays
    <3>3. CASE e \in config
      BY <2>5, <3>3
    <3>4. CASE add[e].pc \in {"create", "keys", "write"}
      <4>1. CASE AddWrites(e)
        <5>1. add[e].pc = "write" /\ config' = add[e].content
          BY <2>0, <4>1, AddStepOf DEF AddWrites
        <5>2. QED
          BY <2>0, <2>5, <5>1 DEF ConfigInv
      <4>2. CASE AddFails(e)
        BY <4>2 DEF AddFails
      <4>3. CASE ~AddWrites(e) /\ ~AddFails(e)
        BY <2>0, <3>4, <4>3, AddStepOf DEF Adding
      <4>4. QED
        BY <4>1, <4>2, <4>3
    <3>5. QED
      BY <3>1, <3>2, <3>3, <3>4
  <2>6. QED
    BY <2>1, <2>2, <2>3, <2>4, <2>5, EntriesGrow, WhoChanges
<1>6. QED
  BY <1>2, <1>4, <1>5 DEF ConfigInv

\* All of it, for as long as the process is up and no two commands have met.
OneByOne == process = "up" /\ ~met
OrderedInv == ManagedInv /\ OrderInv /\ PlaceInv /\ ShownInv /\ ConfigInv
SerialInv == OneByOne => OrderedInv

\* Two commands that met have met for good, and a process that has ended stays
\* so.
LEMMA StillOneByOne ==
  ASSUME Types, [Next]_vars, OneByOne'
  PROVE  OneByOne
<1>1. met => met'
  <2>1. UNCHANGED met \/ met' = (met \/ InitsInFlight # {} \/ EnvsInFlight # {})
    BY DEF Next, vars, histVars, InitStep, AddStep, DeleteStep, InitArrives, Arrives, InitWrites, InitCreates,
       InitManages, InitStores, InitFails, ListenVisits, ListenAcquires, ListenFinishes, AddArrives,
       AddChecks, AddAppends, AddCreates, AddReads, AddWrites, AddManages, AddFails, AddListens,
       AddAcquires, AddFinishes, DeleteArrives, DeleteShifts, DeleteStores, DeleteSignals, DeleteFinishes,
       ExportPanics, LoopEnds, Reconnects
  <2>2. QED
    BY <2>1
<1>2. process' = "up" => process = "up"
  BY DEF Next, vars
<1>3. QED
  BY <1>1, <1>2 DEF OneByOne

LEMMA InitOrdered == Init => OrderedInv
<1> SUFFICES ASSUME Init PROVE OrderedInv
  OBVIOUS
<1>1. /\ InitsInFlight = {} /\ EnvsInFlight = {} /\ namespaces = {} /\ repos = {}
      /\ \A e \in Envs : add[e].pc = "idle" /\ del[e].pc = "idle" /\ loops[e] = "none"
      /\ \A i \in Inits : listen[i].pc = "none" /\ init[i].pc = "idle"
  BY DEF Init, InitsInFlight, EnvsInFlight
<1>2. Entries = {}
  <2>1. DOMAIN arrays = 1 .. 1 /\ arrays[1] = <<>> /\ Len(arrays[1]) = 0
    BY DEF Init
  <2>2. QED
    BY <2>1 DEF Entries
<1>3. ManagedInv
  BY <1>1, <1>2 DEF ManagedInv, KnownInv, AddInv, InitInv, EntriesInv, LoopInv
<1>4. OrderInv /\ PlaceInv /\ ShownInv /\ ConfigInv
  BY <1>1, <1>2 DEF OrderInv, PlaceInv, ShownInv, ConfigInv, Waits, Shown, Live, Adding
<1>5. QED
  BY <1>3, <1>4 DEF OrderedInv

LEMMA SerialInvariant == Spec => []SerialInv
<1>1. Init => SerialInv
  BY InitOrdered DEF SerialInv
<1>2. Types /\ SerialInv /\ [Next]_vars => SerialInv'
  <2> SUFFICES ASSUME Types, SerialInv, [Next]_vars, OneByOne' PROVE OrderedInv'
    BY DEF SerialInv
  <2>1. OrderedInv /\ ~met' /\ process' = "up"
    BY StillOneByOne DEF SerialInv, OneByOne
  <2>2. ManagedInv'
    BY <2>1, StepKnownInv, StepAddInv, StepInitInv, StepEntriesInv, StepLoopInv DEF OrderedInv, ManagedInv
  <2>3. OrderInv' /\ PlaceInv' /\ ShownInv' /\ ConfigInv'
    BY <2>1, StepOrder, StepPlace, StepShown, StepConfig DEF OrderedInv, ManagedInv
  <2>4. QED
    BY <2>2, <2>3 DEF OrderedInv
<1>3. QED
  BY <1>1, <1>2, TypesInvariant, PTL DEF Spec

\* While commands are handled one at a time, git finds the host of every
\* environment that is synchronised: whoever writes the configuration anew has
\* all of those in the list it writes, and no list loses one that is kept.
THEOREM SpecConfigNamesWatched == Spec => []ConfigNamesWatched
<1>1. Types /\ SerialInv => ConfigNamesWatched
  <2> SUFFICES ASSUME Types, SerialInv, Quiet, ~met, NEW e \in Envs \ failed, loops[e] = "on", del[e].pc = "idle"
               PROVE  e \in config
    BY DEF ConfigNamesWatched
  <2>1. PlaceInv /\ ConfigInv
    BY DEF SerialInv, OneByOne, OrderedInv, Quiet
  <2>2. e \in Entries
    BY <2>1 DEF PlaceInv
  <2>3. add[e].pc \notin {"create", "keys", "write"}
    BY DEF Quiet, EnvsInFlight
  <2>4. QED
    BY <2>1, <2>2, <2>3 DEF ConfigInv
<1>2. QED
  BY <1>1, TypesInvariant, SerialInvariant, PTL

-----------------------------------------------------------------------------
\* While commands are handled one at a time: that the list and Namespaces are
\* what the commands said.

\* How often an environment has been added; again only after a failure.
CountInv ==
  \A e \in Envs :
    /\ adds[e] = 0 <=> add[e].pc = "idle"
    /\ e \in Repeated \/ add[e].pc = "failed" => e \in failed

Added == {"create", "keys", "write", "mgr", "listen", "slot", "watched", "done"}

\* The service names an environment once and none that is deleted; Namespaces
\* follows the commands; what is added for the first time is not in an array.
NamesInv ==
  /\ IsInjective(known)
  /\ \A e \in Envs :
       /\ del[e].pc # "idle" => e \notin ToSet(known)
       /\ del[e].pc \notin {"idle", "list"} => e \notin namespaces
       /\ del[e].pc = "idle" /\ add[e].pc \in Added => e \in namespaces
       /\ e \in Adds /\ adds[e] = 0 => e \notin ToSet(known) /\ e \notin Entries
       /\ e \notin Repeated /\ add[e].pc \in {"check", "append"} => e \notin Entries
  /\ \A i \in Inits : init[i].pc \in {"mgrs", "store"} => namespaces = ToSet(known)

\* Namespaces are the environments that are in the list.
SameInv ==
  (\A i \in Inits : init[i].pc \notin {"mgrs", "store"}) =>
    \A e \in Envs \ failed : e \in namespaces <=> e \in Live

LEMMA StepCount ==
  ASSUME Types, CountInv, [Next]_vars
  PROVE  CountInv'
<1> SUFFICES ASSUME NEW e \in Envs
             PROVE  /\ adds'[e] = 0 <=> add'[e].pc = "idle"
                    /\ adds'[e] > 1 \/ add'[e].pc = "failed" => e \in failed'
  BY DEF CountInv, Repeated
<1>0. /\ adds \in [Envs -> Nat]
      /\ adds[e] = 0 <=> add[e].pc = "idle"
      /\ adds[e] > 1 \/ add[e].pc = "failed" => e \in failed
  BY DEF Types, ScalarsType, CountInv, Repeated
<1>1. CASE AddArrives(e)
  <2>1. adds'[e] = adds[e] + 1 /\ add[e].pc \in {"idle", "failed"} /\ add'[e].pc = "check" /\ UNCHANGED failed
    BY <1>0, <1>1, AddStepOf DEF AddArrives
  <2>2. adds[e] \in Nat
    BY <1>0
  <2>3. QED
    BY <1>0, <2>1, <2>2
<1>2. CASE ~AddArrives(e)
  <2>1. adds'[e] = adds[e]
    <3>1. ASSUME NEW h \in Envs, AddArrives(h) PROVE adds'[e] = adds[e]
      BY <1>0, <1>2, <3>1 DEF AddArrives
    <3>2. QED
      BY <3>1, WhoAdds
  <2>2. add'[e].pc = "idle" <=> add[e].pc = "idle"
    BY <1>2, AddStepOf DEF Adding
  <2>3. add'[e].pc = "failed" => add[e].pc = "failed" \/ AddFails(e)
    BY <1>2, AddStepOf
  <2>4. AddFails(e) => e \in failed'
    BY DEF AddFails
  <2>5. QED
    BY <1>0, <2>1, <2>2, <2>3, <2>4, FailedStays
<1>3. QED
  BY <1>1, <1>2

LEMMA MoreAdds ==
  ASSUME Types, CountInv, [Next]_vars, NEW e \in Envs
  PROVE  /\ e \in Repeated => e \in Repeated'
         /\ adds'[e] = 0 => adds[e] = 0 /\ ~AddArrives(e)
         /\ ~AddArrives(e) => adds'[e] = adds[e]
         /\ AddArrives(e) /\ e \notin Repeated' => adds[e] = 0
<1>1. adds \in [Envs -> Nat] /\ adds[e] \in Nat
  BY DEF Types, ScalarsType
<1>2. AddArrives(e) => adds'[e] = adds[e] + 1
  BY <1>1 DEF AddArrives
<1>3. ~AddArrives(e) => adds'[e] = adds[e]
  <2>1. ASSUME ~AddArrives(e), NEW h \in Envs, AddArrives(h) PROVE adds'[e] = adds[e]
    BY <1>1, <2>1 DEF AddArrives
  <2>2. QED
    BY <2>1, WhoAdds
<1>4. QED
  BY <1>1, <1>2, <1>3 DEF Repeated

LEMMA StepNames ==
  ASSUME Types, KnownInv, InitInv, OrderInv, CountInv, NamesInv, [Next]_vars, ~met'
  PROVE  NamesInv'
<1>1. IsInjective(known')
  BY KnownNames DEF NamesInv
<1>2. ASSUME NEW e \in Envs, del'[e].pc # "idle" PROVE e \notin ToSet(known')
  <2>1. CASE DeleteArrives(e)
    BY <2>1, KnownNames DEF NamesInv
  <2>2. CASE ~DeleteArrives(e)
    <3>1. del[e].pc # "idle"
      BY <1>2, <2>2, DelStep
    <3>2. ~AddArrives(e) /\ e \notin ToSet(known)
      BY <3>1 DEF AddArrives, NamesInv
    <3>3. QED
      BY <3>2, KnownNames DEF NamesInv
  <2>3. QED
    BY <2>1, <2>2
<1>3. ASSUME NEW e \in Envs, del'[e].pc \notin {"idle", "list"} PROVE e \notin namespaces'
  <2>1. CASE DeleteShifts(e)
    BY <2>1 DEF DeleteShifts
  <2>2. CASE ~DeleteShifts(e)
    <3>1. del[e].pc \notin {"idle", "list"}
      BY <1>3, <2>2, DelStep
    <3>2. e \notin namespaces /\ e \notin ToSet(known)
      BY <3>1 DEF NamesInv
    <3>3. ASSUME NEW i \in Inits, InitCreates(i) PROVE e \notin namespaces'
      BY <3>2, <3>3, InFlight DEF InitCreates, InitInv
    <3>4. ASSUME NEW h \in Envs, AddAppends(h) PROVE e \notin namespaces'
      <4>1. add[h].pc \in Adding
        BY <3>4, InFlight
      <4>2. h # e
        BY <3>1, <4>1 DEF OrderInv
      <4>3. QED
        BY <3>2, <3>4, <4>2 DEF AddAppends
    <3>5. ASSUME NEW h \in Envs, DeleteShifts(h) PROVE e \notin namespaces'
      BY <3>2, <3>5 DEF DeleteShifts
    <3>6. QED
      BY <3>2, <3>3, <3>4, <3>5, WhoChanges
  <2>3. QED
    BY <2>1, <2>2
<1>4. ASSUME NEW e \in Envs, del'[e].pc = "idle", add'[e].pc \in Added PROVE e \in namespaces'
  <2>1. CASE AddAppends(e)
    BY <2>1 DEF AddAppends
  <2>2. CASE ~AddAppends(e)
    <3>1. add[e].pc \in Added
      BY <1>4, <2>2, AddStepOf DEF Added, Adding
    <3>2. e \in namespaces
      BY <1>4, <3>1, DelStep DEF NamesInv
    <3>3. QED
      BY <1>4, <3>2, NamesStay
  <2>3. QED
    BY <2>1, <2>2
<1>5. ASSUME NEW e \in Adds, e \in Envs, adds'[e] = 0 PROVE e \notin ToSet(known') /\ e \notin Entries'
  <2>1. adds[e] = 0 /\ ~AddArrives(e)
    BY <1>5, MoreAdds
  <2>2. e \notin ToSet(known) /\ e \notin Entries
    BY <1>5, <2>1 DEF NamesInv
  <2>3. ~AddAppends(e)
    <3>1. add[e].pc = "idle"
      BY <1>5, <2>1 DEF CountInv
    <3>2. QED
      BY <1>5, <3>1, AddStepOf
  <2>4. \A i \in Inits : InitStores(i) => init[i].list = known
    BY InFlight DEF InitInv
  <2>5. e \notin ToSet(known')
    BY <2>1, <2>2, KnownNames DEF NamesInv
  <2>6. e \notin Entries'
    BY <2>2, <2>3, <2>4, EntriesGrow
  <2>7. QED
    BY <2>5, <2>6
<1>6. ASSUME NEW e \in Envs, e \notin Repeated', add'[e].pc \in {"check", "append"} PROVE e \notin Entries'
  <2>1. CASE AddArrives(e)
    <3>1. adds[e] = 0 /\ e \in Adds
      BY <1>6, <2>1, MoreAdds DEF AddArrives
    <3>2. e \notin Entries
      BY <3>1 DEF NamesInv
    <3>3. UNCHANGED arrays
      BY <2>1 DEF AddArrives, heapVars
    <3>4. QED
      BY <3>2, <3>3 DEF Entries
  <2>2. CASE ~AddArrives(e)
    <3>1. add[e].pc \in {"check", "append"} /\ ~AddAppends(e)
      BY <1>6, <2>2, AddStepOf
    <3>2. e \notin Entries
      BY <1>6, <3>1, MoreAdds DEF NamesInv
    <3>3. e \in EnvsInFlight
      BY <3>1 DEF EnvsInFlight
    <3>4. \A i \in Inits : ~InitStores(i)
      BY <3>3, OneAtATime, InFlight
    <3>5. QED
      BY <3>1, <3>2, <3>4, EntriesGrow
  <2>3. QED
    BY <2>1, <2>2
<1>7. ASSUME NEW i \in Inits, init'[i].pc \in {"mgrs", "store"} PROVE namespaces' = ToSet(known')
  <2>1. init[i].pc \in {"create", "mgrs", "store"}
    BY <1>7, InitStepOf DEF InitStep, InitCreates, InitGoes, Types, CommandsType, InitType
  <2>2. i \in InitsInFlight
    BY <2>1 DEF InitsInFlight
  <2>3. known' = known /\ \A h \in Envs : ~AddAppends(h) /\ ~DeleteStep(h)
    BY <2>2, Alone
  <2>4. CASE \E j \in Inits : InitCreates(j)
    BY <2>3, <2>4, InFlight DEF InitCreates, InitInv
  <2>5. CASE \A j \in Inits : ~InitCreates(j)
    <3>1. UNCHANGED namespaces
      BY <2>3, <2>5, WhoChanges DEF DeleteStep
    <3>2. init[i].pc \in {"mgrs", "store"}
      BY <1>7, <2>1, <2>5, InitStepOf DEF InitStep, InitWrites, InitGoes
    <3>3. QED
      BY <2>3, <3>1, <3>2 DEF NamesInv
  <2>6. QED
    BY <2>4, <2>5
<1>8. QED
  BY <1>1, <1>2, <1>3, <1>4, <1>5, <1>6, <1>7 DEF NamesInv

\* What is kept stays in the list, or was not in it.
LEMMA SameLive ==
  ASSUME Types, InitInv, OrderInv, ShownInv, [Next]_vars, NEW e \in Envs,
         ~AddAppends(e), ~DeleteShifts(e), \A i \in Inits : ~InitStores(i)
  PROVE  e \in Live' <=> e \in Live
<1>1. e \in Live' => e \in Live
  BY LiveBack
<1>2. ASSUME e \in Live PROVE e \in Live'
  <2>1. del'[e].pc \in {"idle", "list"}
    BY <1>2, DelStep DEF Live
  <2>2. e \in Entries'
    BY <1>2, <2>1, LiveStay
  <2>3. QED
    BY <2>1, <2>2 DEF Live
<1>3. QED
  BY <1>1, <1>2

LEMMA StepSame ==
  ASSUME Types, InitInv, OrderInv, ShownInv, NamesInv, SameInv, [Next]_vars, ~met'
  PROVE  SameInv'
<1> SUFFICES ASSUME \A i \in Inits : init'[i].pc \notin {"mgrs", "store"}, NEW e \in Envs, e \notin failed'
             PROVE  e \in namespaces' <=> e \in Live'
  BY DEF SameInv
<1>1. e \notin failed
  BY FailedStays
<1>2. CASE \E i \in Inits : init[i].pc \in {"mgrs", "store"}
  <2>1. PICK i \in Inits : init[i].pc \in {"mgrs", "store"}
    BY <1>2
  <2>2. i \in InitsInFlight
    BY <2>1 DEF InitsInFlight
  <2>3. /\ namespaces = ToSet(known) /\ init[i].list = known /\ EnvsInFlight = {}
        /\ \A h \in Envs : ~AddAppends(h) /\ ~DeleteStep(h)
    BY <2>1, <2>2, Alone DEF NamesInv, InitInv
  <2>4. \A h \in Envs : del'[h] = del[h] /\ del[h].pc \in {"idle", "done"}
    BY <2>3, DelStep DEF EnvsInFlight
  <2>5. InitStores(i) \/ InitFails(i)
    <3>1. init'[i] # init[i] /\ ~InitManages(i)
      BY <2>1, InitStepOf
    <3>2. InitStep(i) /\ ~InitArrives(i)
      BY <2>1, <3>1, InitStepOf
    <3>3. ~InitWrites(i) /\ ~InitCreates(i)
      BY <2>1 DEF InitWrites, InitCreates, InitGoes
    <3>4. QED
      BY <3>1, <3>2, <3>3 DEF InitStep
  <2>6. CASE InitStores(i)
    <3>1. UNCHANGED namespaces
      BY <2>6 DEF InitStores, setVars
    <3>2. /\ Entries' \subseteq Entries \cup ToSet(known)
          /\ envs'.len = Len(known)
          /\ \A j \in 1 .. Len(known) : arrays'[envs'.arr][j] = known[j]
      BY <2>3, <2>6, InitHeap
    <3>3. ASSUME e \in ToSet(known) PROVE e \in Live'
      <4>1. PICK j \in 1 .. Len(known) : known[j] = e
        BY <3>3, LenProperties DEF ToSet, Types, ScalarsType
      <4>2. e \in Entries'
        BY <3>2, <4>1, ListIsEntries
      <4>3. del[e].pc = "idle"
        BY <3>3 DEF NamesInv
      <4>4. QED
        BY <2>4, <4>2, <4>3 DEF Live
    <3>4. ASSUME e \in Live' PROVE e \in ToSet(known)
      <4>1. del[e].pc = "idle" /\ e \in Entries'
        BY <2>4, <3>4 DEF Live
      <4>2. QED
        BY <3>2, <4>1 DEF OrderInv
    <3>5. QED
      BY <2>3, <3>1, <3>3, <3>4
  <2>7. CASE InitFails(i)
    <3>1. failed' = failed \cup ToSet(known) /\ UNCHANGED <<namespaces, arrays>>
      BY <2>3, <2>7 DEF InitFails, heapVars
    <3>2. e \notin ToSet(known)
      BY <3>1
    <3>3. e \notin Live'
      <4>1. Entries' = Entries
        BY <3>1 DEF Entries
      <4>2. QED
        BY <2>4, <3>2, <4>1 DEF Live, OrderInv
    <3>4. QED
      BY <2>3, <3>1, <3>2, <3>3
  <2>8. QED
    BY <2>5, <2>6, <2>7
<1>3. CASE \A i \in Inits : init[i].pc \notin {"mgrs", "store"}
  <2>1. \A i \in Inits : ~InitStores(i) /\ ~InitCreates(i)
    BY <1>3, InitStepOf
  <2>2. e \in namespaces <=> e \in Live
    BY <1>1, <1>3 DEF SameInv
  <2>3. CASE AddAppends(e)
    <3>1. del[e].pc = "idle" /\ UNCHANGED del /\ e \in namespaces'
      BY <2>3, InFlight DEF OrderInv, AddAppends
    <3>2. envs'.len = add[e].held.len + 1 /\ arrays'[envs'.arr][envs'.len] = e /\ add[e].held.len \in Nat
      BY <2>3, AddHeap DEF Types, CommandsType, AddType, SliceType
    <3>3. envs'.len \in 1 .. envs'.len
      BY <3>2
    <3>4. e \in Entries'
      BY <3>2, <3>3, ListIsEntries
    <3>5. QED
      BY <3>1, <3>4 DEF Live
  <2>4. CASE DeleteShifts(e)
    <3>1. e \notin namespaces' /\ del'[e].pc = "store"
      BY <2>4, DelStep DEF DeleteShifts
    <3>2. QED
      BY <3>1 DEF Live
  <2>5. CASE ~AddAppends(e) /\ ~DeleteShifts(e)
    <3>1. e \in Live' <=> e \in Live
      BY <2>1, <2>5, SameLive
    <3>2. e \in namespaces' <=> e \in namespaces
      <4>1. ASSUME NEW h \in Envs, AddAppends(h) \/ DeleteShifts(h) PROVE e \in namespaces' <=> e \in namespaces
        BY <2>5, <4>1 DEF AddAppends, DeleteShifts
      <4>2. QED
        BY <2>1, <4>1, WhoChanges
    <3>3. QED
      BY <2>2, <3>1, <3>2
  <2>6. QED
    BY <2>3, <2>4, <2>5
<1>4. QED
  BY <1>2, <1>3

\* As long as no environment that was added twice is deleted, the list has
\* nothing else, and each of those that were added once only once.
Only(s) ==
  /\ Elements(s) \subseteq Live
  /\ \A j, k \in 1 .. s.len :
       arrays[s.arr][j] = arrays[s.arr][k] => j = k \/ arrays[s.arr][j] \in Repeated
Tidy == \A e \in Repeated : del[e].pc = "idle"
OnlyInv ==
  Tidy =>
    /\ (\A h \in Envs : del[h].pc # "store") => Only(envs)
    /\ \A h \in Envs : del[h].pc = "store" => Only(del[h].left)

LEMMA StepOnly ==
  ASSUME Types, KnownInv, InitInv, OrderInv, ShownInv, CountInv, NamesInv, OnlyInv, [Next]_vars, ~met'
  PROVE  OnlyInv'
<1> SUFFICES ASSUME Tidy'
             PROVE  /\ (\A h \in Envs : del'[h].pc # "store") => Only(envs)'
                    /\ \A h \in Envs : del'[h].pc = "store" => Only(del[h].left)'
  BY DEF OnlyInv
<1>0. \A e \in Envs : e \in Repeated => e \in Repeated'
  BY MoreAdds
<1>1. /\ (\A h \in Envs : del[h].pc # "store") => Only(envs)
      /\ \A h \in Envs : del[h].pc = "store" => Only(del[h].left)
  <2>1. Tidy
    BY <1>0, DelStep DEF Tidy, Repeated
  <2>2. QED
    BY <2>1 DEF OnlyInv
<1>2. ASSUME NEW h \in Envs, DeleteShifts(h)
      PROVE  /\ \E x \in Envs : del'[x].pc = "store"
             /\ \A x \in Envs : del'[x].pc = "store" => Only(del[x].left)'
  <2>1. h \in EnvsInFlight /\ del[h].pc = "list" /\ del'[h].pc = "store"
    BY <1>2, InFlight, DelStep
  <2>2. \A x \in Envs : x # h => del[x].pc \in {"idle", "done"} /\ del'[x] = del[x]
    <3>1. \A x \in Envs : x # h => del[x].pc \in {"idle", "done"}
      BY <2>1, OneAtATime
    <3>2. QED
      BY <1>2, <3>1 DEF DeleteShifts, Types, CommandsType
  <2>3. Only(envs)
    BY <1>1, <2>1, <2>2
  <2>4. h \notin Repeated
    BY <1>0, <2>1 DEF Tidy
  <2> DEFINE a == arrays[envs.arr]
             n == envs.len
             b == arrays'[envs.arr]
  <2>5. /\ \A j \in 1 .. n : a[j] \in Live
        /\ \A j, k \in 1 .. n : a[j] = a[k] => j = k \/ a[j] \in Repeated
        /\ \A x : x \in Elements(envs) <=> \E j \in 1 .. n : a[j] = x
        /\ n \in Nat
    BY <2>3 DEF Only, Elements, Types, HeapType, SliceType
  <2>6. CASE h \notin Elements(envs)
    <3>1. del'[h].left.len = 0
      BY <1>2, <2>6, DeleteShape DEF Empty
    <3>2. Only(del[h].left)'
      BY <3>1 DEF Only, Elements
    <3>3. QED
      BY <2>1, <2>2, <3>2
  <2>7. CASE h \in Elements(envs)
    <3>1. del'[h].left = [arr |-> envs.arr, len |-> n - 1]
      BY <1>2, <2>7, DeleteShape
    <3>2. PICK p \in 1 .. n : a[p] = h
      BY <2>5, <2>7
    <3>3. \A j \in 1 .. n : a[j] = h => j = p
      BY <2>4, <2>5, <3>2
    <3>4. \A j \in 1 .. n - 1 : b[j] = a[IF j < p THEN j ELSE j + 1]
      BY <1>2, <3>2, <3>3, DeleteShape
    <3> HIDE DEF a, b, n
    <3>5. \A j \in 1 .. n - 1 : (IF j < p THEN j ELSE j + 1) \in 1 .. n /\ (IF j < p THEN j ELSE j + 1) # p
      BY <2>5, <3>2
    <3>6. \A j \in 1 .. n - 1 : b[j] \in Live /\ b[j] # h
      BY <2>5, <3>2, <3>3, <3>4, <3>5
    <3>7. \A j \in 1 .. n - 1 : b[j] \in Live'
      <4>1. \A x \in Live : x # h => x \in Live'
        BY <1>2, <2>2, DeleteShape DEF Live, Entries
      <4>2. QED
        BY <3>6, <4>1
    <3>8. ASSUME NEW j \in 1 .. n - 1, NEW k \in 1 .. n - 1, b[j] = b[k] PROVE j = k \/ b[j] \in Repeated'
      <4> DEFINE jj == IF j < p THEN j ELSE j + 1
                 kk == IF k < p THEN k ELSE k + 1
      <4>1. jj \in 1 .. n /\ kk \in 1 .. n /\ b[j] = a[jj] /\ b[k] = a[kk]
        BY <3>4, <3>5
      <4>2. jj = kk \/ a[jj] \in Repeated
        BY <2>5, <3>8, <4>1
      <4>3. jj = kk => j = k
        BY <2>5, <3>2
      <4>4. QED
        BY <1>0, <4>1, <4>2, <4>3 DEF Repeated
    <3>9. Only(del[h].left)'
      BY <3>1, <3>7, <3>8 DEF Only, Elements, b
    <3>10. QED
      BY <2>1, <2>2, <3>9
  <2>8. QED
    BY <2>6, <2>7
<1>3. ASSUME NEW h \in Envs, DeleteStores(h)
      PROVE  /\ Only(envs)'
             /\ \A x \in Envs : del'[x].pc # "store"
  <2>1. h \in EnvsInFlight /\ del[h].pc = "store" /\ del'[h].pc = "signal"
    BY <1>3, InFlight, DelStep
  <2>2. envs' = del[h].left /\ UNCHANGED <<arrays, adds>> /\ del' = [del EXCEPT ![h].pc = "signal"]
    BY <1>3 DEF DeleteStores, DeleteGoes, srvVars
  <2>3. \A x \in Envs : x # h => del[x].pc \in {"idle", "done"}
    BY <2>1, OneAtATime
  <2>4. Live' = Live
    <3>1. Entries' = Entries
      BY <2>2 DEF Entries
    <3>2. \A x \in Envs : del'[x].pc \in {"idle", "list"} <=> del[x].pc \in {"idle", "list"}
      BY <2>1, <2>2 DEF Types, CommandsType
    <3>3. QED
      BY <3>1, <3>2 DEF Live, Entries
  <2>5. Only(del[h].left)
    BY <1>1, <2>1
  <2>6. Only(envs)'
    BY <2>2, <2>4, <2>5 DEF Only, Elements, Repeated
  <2>7. QED
    BY <2>1, <2>2, <2>3, <2>6 DEF Types, CommandsType
<1>4. ASSUME NEW i \in Inits, InitStores(i)
      PROVE  /\ Only(envs)'
             /\ \A x \in Envs : del'[x].pc # "store"
  <2>1. i \in InitsInFlight
    BY <1>4, InFlight
  <2>2. init[i].list = known /\ (\A x \in Envs : del[x].pc \in {"idle", "done"}) /\ UNCHANGED del
    BY <1>4, <2>1 DEF InitInv, EnvsInFlight, InitStores
  <2>3. envs'.len = Len(known) /\ \A j \in 1 .. Len(known) : arrays'[envs'.arr][j] = known[j]
    BY <1>4, <2>2, InitHeap
  <2>4. DOMAIN known = 1 .. Len(known)
    BY LenProperties DEF Types, ScalarsType
  <2>5. ASSUME NEW j \in 1 .. Len(known) PROVE known[j] \in Live'
    <3>1. known[j] \in Entries'
      BY <2>3, <2>5, ListIsEntries
    <3>2. known[j] \in ToSet(known) /\ known[j] \in Envs
      BY <2>4, <2>5, <3>1 DEF ToSet, Entries
    <3>3. del[known[j]].pc = "idle"
      BY <3>2 DEF NamesInv
    <3>4. QED
      BY <2>2, <3>1, <3>3 DEF Live
  <2>6. \A j, k \in 1 .. Len(known) : known[j] = known[k] => j = k
    BY <2>4 DEF NamesInv, IsInjective
  <2>7. Only(envs)'
    BY <2>3, <2>5, <2>6 DEF Only, Elements
  <2>8. QED
    BY <2>2, <2>7
<1>5. ASSUME NEW h \in Envs, AddAppends(h)
      PROVE  /\ Only(envs)'
             /\ \A x \in Envs : del'[x].pc # "store"
  <2>1. h \in EnvsInFlight /\ add[h].pc = "append" /\ add[h].pc \in Adding
    BY <1>5, InFlight, AddStepOf
  <2>2. (\A x \in Envs : del[x].pc \in {"idle", "done"}) /\ UNCHANGED <<del, adds>> /\ del[h].pc = "idle"
    BY <1>5, <2>1, OneAtATime DEF AddAppends, srvVars
  <2>3. Only(envs) /\ add[h].held = envs
    BY <1>1, <2>1, <2>2 DEF OrderInv
  <2> DEFINE a == arrays[envs.arr]
             n == envs.len
             b == arrays'[envs'.arr]
  <2>4. /\ envs'.len = n + 1 /\ n \in Nat
        /\ b[n + 1] = h
        /\ \A j \in 1 .. n : b[j] = a[j]
    BY <1>5, <2>3, AddHeap DEF Types, HeapType, SliceType
  <2>5. /\ \A j \in 1 .. n : a[j] \in Live
        /\ \A j, k \in 1 .. n : a[j] = a[k] => j = k \/ a[j] \in Repeated
    BY <2>3 DEF Only, Elements
  <2>6. \A j \in 1 .. n + 1 : b[j] \in Entries'
    BY <2>4, ListIsEntries
  <2> HIDE DEF a, b, n
  <2>7. \A j \in 1 .. n + 1 : j \in 1 .. n \/ j = n + 1
    BY <2>4
  <2>8. \A j \in 1 .. n + 1 : b[j] \in Live'
    BY <2>2, <2>4, <2>5, <2>6, <2>7 DEF Live
  <2>9. h \in Repeated \/ \A j \in 1 .. n : a[j] # h
    BY <2>1, <2>5 DEF NamesInv, Live
  <2>10. ASSUME NEW j \in 1 .. n + 1, NEW k \in 1 .. n + 1, b[j] = b[k] PROVE j = k \/ b[j] \in Repeated
    BY <2>4, <2>5, <2>7, <2>9, <2>10
  <2>11. Only(envs)'
    <3>1. Repeated' = Repeated
      BY <2>2 DEF Repeated
    <3>2. QED
      BY <2>4, <2>8, <2>10, <3>1 DEF Only, Elements, b
  <2>12. QED
    BY <2>2, <2>11
<1>6. CASE UNCHANGED <<arrays, envs>> /\ \A h \in Envs : ~DeleteShifts(h) /\ ~DeleteStores(h)
  <2>1. Live \subseteq Live'
    <3>1. Entries' = Entries
      BY <1>6 DEF Entries
    <3>2. \A x \in Envs : del[x].pc \in {"idle", "list"} => del'[x].pc \in {"idle", "list"}
      BY <1>6, DelStep
    <3>3. QED
      BY <3>1, <3>2 DEF Live, Entries
  <2>2. \A h \in Envs : (del'[h].pc = "store" <=> del[h].pc = "store") /\ del'[h].left = del[h].left
    BY <1>6, DelStep
  <2>3. Repeated \subseteq Repeated'
    BY <1>0 DEF Repeated
  <2>4. Only(envs) => Only(envs)'
    BY <1>6, <2>1, <2>3 DEF Only, Elements
  <2>5. \A h \in Envs : Only(del[h].left) => Only(del[h].left)'
    BY <1>6, <2>1, <2>2, <2>3 DEF Only, Elements
  <2>6. QED
    BY <1>1, <1>6, <2>2, <2>4, <2>5
<1>7. CASE UNCHANGED arrays /\ UNCHANGED envs /\ \E h \in Envs : DeleteShifts(h) \/ DeleteStores(h)
  BY <1>2, <1>3, <1>7
<1>8. QED
  BY <1>2, <1>3, <1>4, <1>5, <1>6, <1>7, WhoChanges

\* A list without repetitions is as long as the set of what it holds.
LEMMA CountDistinct ==
  ASSUME Types, \A j, k \in 1 .. envs.len : arrays[envs.arr][j] = arrays[envs.arr][k] => j = k
  PROVE  Cardinality(Elements(envs)) = envs.len
<1> DEFINE n == envs.len
           f == [j \in 1 .. n |-> arrays[envs.arr][j]]
<1>1. n \in Nat
  BY DEF Types, HeapType, SliceType
<1>2. f \in [1 .. n -> Elements(envs)] /\ (\A j \in 1 .. n : f[j] = arrays[envs.arr][j])
  BY DEF Elements
<1>3. (\A x \in Elements(envs) : \E j \in 1 .. n : f[j] = x) /\ DOMAIN f = 1 .. n
  BY DEF Elements
<1>4. \A j, k \in 1 .. n : f[j] = f[k] => j = k
  BY <1>2
<1> HIDE DEF f, n
<1>5. f \in Injection(1 .. n, Elements(envs)) /\ f \in Surjection(1 .. n, Elements(envs))
  BY <1>2, <1>3, <1>4 DEF Injection, Surjection, IsInjective
<1>6. ExistsBijection(1 .. n, Elements(envs))
  BY <1>5 DEF ExistsBijection, Bijection
<1>7. Cardinality(Elements(envs)) = n
  BY <1>1, <1>6, FS_CountingElements
<1>8. QED
  BY <1>7 DEF n

ContentsInv == NamesInv /\ SameInv /\ OnlyInv
ListInv == CountInv /\ (OneByOne => ContentsInv)

LEMMA InitContents == Init => ListInv
<1> SUFFICES ASSUME Init PROVE ListInv
  OBVIOUS
<1>1. /\ namespaces = {} /\ known = Named /\ envs.len = 0
      /\ \A e \in Envs : add[e].pc = "idle" /\ del[e].pc = "idle" /\ adds[e] = 0
      /\ \A i \in Inits : init[i].pc = "idle"
  BY DEF Init, Empty
<1>2. Entries = {}
  <2>1. DOMAIN arrays = 1 .. 1 /\ arrays[1] = <<>> /\ Len(arrays[1]) = 0
    BY DEF Init
  <2>2. QED
    BY <2>1 DEF Entries
<1>3. CountInv
  BY <1>1 DEF CountInv, Repeated
<1>4. NamesInv
  BY <1>1, <1>2, RegistryAssumption DEF NamesInv, Added
<1>5. SameInv /\ OnlyInv
  BY <1>1, <1>2 DEF SameInv, OnlyInv, Only, Live, Elements
<1>6. QED
  BY <1>3, <1>4, <1>5 DEF ListInv, ContentsInv

LEMMA ListInvariant == Spec => []ListInv
<1>1. Types /\ SerialInv /\ ListInv /\ [Next]_vars => ListInv'
  <2> SUFFICES ASSUME Types, SerialInv, ListInv, [Next]_vars PROVE ListInv'
    OBVIOUS
  <2>1. CountInv'
    BY StepCount DEF ListInv
  <2>2. ASSUME OneByOne' PROVE ContentsInv'
    <3>1. OrderedInv /\ ContentsInv /\ ~met'
      BY <2>2, StillOneByOne DEF SerialInv, ListInv, OneByOne
    <3>2. NamesInv' /\ SameInv' /\ OnlyInv'
      BY <3>1, StepNames, StepSame, StepOnly DEF OrderedInv, ManagedInv, ContentsInv, ListInv
    <3>3. QED
      BY <3>2 DEF ContentsInv
  <2>3. QED
    BY <2>1, <2>2 DEF ListInv
<1>2. QED
  BY <1>1, InitContents, TypesInvariant, SerialInvariant, PTL DEF Spec

\* While commands are handled one at a time, the list and Namespaces are what
\* the commands said, although additions write into an array that the list
\* shares with a listener and deletions shift it in place.
THEOREM SpecListFollowsCommands == Spec => []ListFollowsCommands
<1>1. Types /\ SerialInv /\ ListInv => ListFollowsCommands
  <2> SUFFICES ASSUME Types, SerialInv, ListInv, Quiet, ~met, \A e \in Repeated : del[e].pc = "idle"
               PROVE  /\ Elements(envs) \ failed = namespaces \ failed
                      /\ envs.len # Cardinality(Elements(envs)) => failed # {}
                      /\ \A e \in Envs : add[e].pc = "done" /\ del[e].pc = "idle" => e \in namespaces
                      /\ \A e \in Envs : del[e].pc = "done" => e \notin namespaces
    BY DEF ListFollowsCommands
  <2>1. ShownInv /\ NamesInv /\ SameInv /\ OnlyInv /\ CountInv
    BY DEF SerialInv, OneByOne, OrderedInv, ListInv, ContentsInv, Quiet
  <2>2. /\ \A e \in Envs : del[e].pc \in {"idle", "done"}
        /\ \A i \in Inits : init[i].pc \in {"idle", "done"}
    BY DEF Quiet, EnvsInFlight, InitsInFlight
  <2>3. Shown(envs) /\ Only(envs)
    BY <2>1, <2>2 DEF ShownInv, OnlyInv, Doomed, Tidy
  <2>4. Elements(envs) = Live
    BY <2>3 DEF Shown, Only
  <2>5. Elements(envs) \ failed = namespaces \ failed
    <3>1. \A e \in Envs \ failed : e \in namespaces <=> e \in Live
      BY <2>1, <2>2 DEF SameInv
    <3>2. Live \subseteq Envs /\ namespaces \subseteq Envs
      BY DEF Live, Entries, Types, SetsType
    <3>3. QED
      BY <2>4, <3>1, <3>2
  <2>6. ASSUME failed = {} PROVE envs.len = Cardinality(Elements(envs))
    <3>1. Repeated = {}
      BY <2>1, <2>6 DEF CountInv, Repeated
    <3>2. QED
      BY <2>3, <3>1, CountDistinct DEF Only
  <2>7. QED
    BY <2>1, <2>2, <2>5, <2>6 DEF NamesInv, Added
<1>2. QED
  BY <1>1, TypesInvariant, SerialInvariant, ListInvariant, PTL

-----------------------------------------------------------------------------
\* How far a deletion can throw a listener back.

\* An array whose first entries are all different: a deletion that finds its
\* environment behind them does not move them.
LEMMA ScanBehind ==
  ASSUME NEW V, NEW a \in Seq(V), NEW n \in 0 .. Len(a), NEW e, NEW m \in 0 .. n,
         \A j \in 1 .. m : a[j] # e
  PROVE  \A j \in 1 .. m : Scan(a, n, e)[j] = a[j]
<1>0. PICK s : ScanRun(s, a, n, e, V)
  BY ScanSteps
<1>1. /\ s \in [0 .. n -> Scanned(a, n, V)] /\ s[0] = a /\ Scan(a, n, e) = s[n]
      /\ \A i \in 1 .. n : s[i] = IF s[i - 1][i] = e THEN Shift(s[i - 1], n, i) ELSE s[i - 1]
  BY <1>0 DEF ScanRun
<1>2. n \in Nat /\ m \in Nat /\ m <= n /\ n <= Len(a) /\ Len(a) \in Nat
  BY LenProperties
<1> DEFINE S == {k \in Nat : k <= n => \A j \in 1 .. m : s[k][j] = a[j]}
<1>3. 0 \in S
  BY <1>1
<1>4. ASSUME NEW k \in Nat, k \in S PROVE k + 1 \in S
  <2> SUFFICES ASSUME k + 1 <= n, NEW j \in 1 .. m PROVE s[k + 1][j] = a[j]
    OBVIOUS
  <2>1. k + 1 \in 1 .. n /\ k \in 0 .. n /\ (k + 1) - 1 = k /\ \A h \in 1 .. m : s[k][h] = a[h]
    BY <1>2, <1>4
  <2>2. s[k + 1] = IF s[k][k + 1] = e THEN Shift(s[k], n, k + 1) ELSE s[k]
    BY <1>1, <2>1
  <2>3. CASE s[k][k + 1] = e
    <3>1. k + 1 \notin 1 .. m
      BY <2>1, <2>3
    <3>2. j < k + 1
      BY <1>2, <3>1
    <3>3. DOMAIN s[k] = 1 .. Len(a)
      BY <1>1, <2>1 DEF Scanned
    <3>4. j \in DOMAIN s[k]
      BY <1>2, <3>3
    <3>5. Shift(s[k], n, k + 1)[j] = s[k][j]
      BY <1>2, <3>2, <3>4 DEF Shift
    <3>6. QED
      BY <2>1, <2>2, <2>3, <3>5
  <2>4. CASE s[k][k + 1] # e
    BY <2>1, <2>2, <2>4
  <2>5. QED
    BY <2>3, <2>4
<1> HIDE DEF S
<1>5. n \in S
  BY <1>2, <1>3, <1>4, SetInduction
<1>6. QED
  BY <1>1, <1>2, <1>5 DEF S

\* One that finds it among them moves those behind it by one.
LEMMA ScanAmong ==
  ASSUME NEW V, NEW a \in Seq(V), NEW n \in 0 .. Len(a), NEW e, NEW m \in 0 .. n,
         \A j, k \in 1 .. m : a[j] = a[k] => j = k, NEW p \in 1 .. m, a[p] = e
  PROVE  \A j \in 1 .. m - 1 : Scan(a, n, e)[j] = a[IF j < p THEN j ELSE j + 1]
<1>0. PICK s : ScanRun(s, a, n, e, V)
  BY ScanSteps
<1>1. /\ s \in [0 .. n -> Scanned(a, n, V)] /\ s[0] = a /\ Scan(a, n, e) = s[n]
      /\ \A i \in 1 .. n : s[i] = IF s[i - 1][i] = e THEN Shift(s[i - 1], n, i) ELSE s[i - 1]
  BY <1>0 DEF ScanRun
<1>2. n \in Nat /\ m \in Nat /\ m <= n /\ n <= Len(a) /\ Len(a) \in Nat /\ p \in Nat /\ p >= 1 /\ p <= m
  BY LenProperties
<1> DEFINE S == {k \in Nat : k <= n =>
                   IF k < p THEN \A j \in 1 .. m : s[k][j] = a[j]
                            ELSE \A j \in 1 .. m - 1 : s[k][j] = a[IF j < p THEN j ELSE j + 1]}
<1>3. 0 \in S
  BY <1>1, <1>2
<1>4. ASSUME NEW k \in Nat, k \in S PROVE k + 1 \in S
  <2> SUFFICES ASSUME k + 1 <= n
               PROVE  IF k + 1 < p THEN \A j \in 1 .. m : s[k + 1][j] = a[j]
                      ELSE \A j \in 1 .. m - 1 : s[k + 1][j] = a[IF j < p THEN j ELSE j + 1]
    OBVIOUS
  <2>1. /\ k + 1 \in 1 .. n /\ k \in 0 .. n /\ (k + 1) - 1 = k
        /\ k < p => \A j \in 1 .. m : s[k][j] = a[j]
        /\ k >= p => \A j \in 1 .. m - 1 : s[k][j] = a[IF j < p THEN j ELSE j + 1]
    BY <1>2, <1>4
  <2>2. s[k + 1] = IF s[k][k + 1] = e THEN Shift(s[k], n, k + 1) ELSE s[k]
    BY <1>1, <2>1
  <2>3. DOMAIN s[k] = 1 .. Len(a)
    BY <1>1, <2>1 DEF Scanned
  <2>4. \A j \in 1 .. Len(a) : Shift(s[k], n, k + 1)[j] = IF j \in k + 1 .. n - 1 THEN s[k][j + 1] ELSE s[k][j]
    BY <2>3 DEF Shift
  <2>5. CASE k + 1 < p
    <3>1. k + 1 \in 1 .. m /\ k + 1 # p /\ k < p
      BY <1>2, <2>5
    <3>2. s[k][k + 1] # e
      BY <2>1, <3>1
    <3>3. QED
      BY <2>1, <2>2, <2>5, <3>1, <3>2
  <2>6. CASE k + 1 = p
    <3>1. k < p /\ s[k][k + 1] = e
      BY <1>2, <2>1, <2>6
    <3>2. \A j \in 1 .. m - 1 : s[k + 1][j] = a[IF j < p THEN j ELSE j + 1]
      <4> SUFFICES ASSUME NEW j \in 1 .. m - 1 PROVE s[k + 1][j] = a[IF j < p THEN j ELSE j + 1]
        OBVIOUS
      <4>1. j \in 1 .. Len(a) /\ j \in 1 .. m /\ j + 1 \in 1 .. m /\ (j \in k + 1 .. n - 1 <=> ~(j < p))
        BY <1>2, <2>6
      <4>2. s[k + 1][j] = IF j < p THEN s[k][j] ELSE s[k][j + 1]
        BY <2>2, <2>4, <3>1, <4>1
      <4>3. QED
        BY <2>1, <3>1, <4>1, <4>2
    <3>3. QED
      BY <1>2, <2>6, <3>2
  <2>7. CASE k + 1 > p
    <3>1. k >= p
      BY <1>2, <2>7
    <3>2. \A j \in 1 .. m - 1 : s[k + 1][j] = s[k][j]
      <4>1. CASE s[k][k + 1] = e
        <5>1. k + 1 \notin 1 .. m - 1
          <6> SUFFICES ASSUME k + 1 \in 1 .. m - 1 PROVE FALSE
            OBVIOUS
          <6>1. s[k][k + 1] = a[(k + 1) + 1] /\ (k + 1) + 1 \in 1 .. m /\ (k + 1) + 1 # p
            BY <1>2, <2>1, <2>7, <3>1
          <6>2. QED
            BY <4>1, <6>1
        <5>2. ASSUME NEW j \in 1 .. m - 1 PROVE s[k + 1][j] = s[k][j]
          <6>1. j \in 1 .. Len(a) /\ j \notin k + 1 .. n - 1
            BY <1>2, <5>1
          <6>2. QED
            BY <2>2, <2>4, <4>1, <6>1
        <5>3. QED
          BY <5>2
      <4>2. CASE s[k][k + 1] # e
        BY <2>2, <4>2
      <4>3. QED
        BY <4>1, <4>2
    <3>3. \A j \in 1 .. m - 1 : s[k + 1][j] = a[IF j < p THEN j ELSE j + 1]
      BY <2>1, <3>1, <3>2
    <3>4. ~(k + 1 < p)
      BY <1>2, <2>7
    <3>5. QED
      BY <3>3, <3>4
  <2>8. QED
    BY <1>2, <2>5, <2>6, <2>7
<1> HIDE DEF S
<1>5. n \in S
  BY <1>2, <1>3, <1>4, SetInduction
<1>6. QED
  BY <1>1, <1>2, <1>5 DEF S

\* What is in the stop channels is watched, or being deleted.
WatchInv ==
  /\ \A e \in stops : e \in Watched \/ del[e].pc # "idle"
  /\ \A e \in Envs : add[e].pc \notin {"slot", "watched", "done"} => ~add[e].cut

\* A listener begins when its agent_init has stored the list.
ListenInv ==
  /\ IsInjective(known)
  /\ \A i \in Inits :
       /\ init[i].pc # "idle" => i <= conn
       /\ init[i].pc # "done" => listen[i].pc = "none"
       /\ listen[i].pc = "none" => listen[i].pos = 0
       /\ listen[i].pc # "none" => listen[i].slice.arr # 1
       /\ listen[i].pc = "done" => listen[i].pos = listen[i].slice.len
       /\ IsInjective(init[i].list)

\* Only a lost connection cuts the stop channel of a listener that waits.
LEMMA SlotStays ==
  ASSUME Types, [Next]_vars, ~Reconnects, NEW e \in Envs
  PROVE  /\ add'[e].cut = add[e].cut
         /\ add[e].pc = "slot" => AddAcquires(e) \/ add'[e] = add[e]
<1> USE DEF Types, CommandsType, AddType
<1>1. ASSUME NEW h \in Envs, AddReads(h)
      PROVE  /\ e # h => add'[e] = add[e]
             /\ add'[e].cut = add[e].cut /\ add[h].pc = "keys"
  <2>1. ASSUME NEW c, add' = [add EXCEPT ![h].pc = "write", ![h].content = c]
        PROVE  /\ e # h => add'[e] = add[e]
               /\ add'[e].cut = add[e].cut
    BY <2>1
  <2>2. add' = [add EXCEPT ![h].pc = "write", ![h].content = Elements(envs)] /\ add[h].pc = "keys"
    BY <1>1 DEF AddReads
  <2>3. QED
    BY <2>1, <2>2
<1>2. ASSUME NEW h \in Envs, AddStep(h), e # h PROVE add'[e] = add[e]
  BY <1>1, <1>2 DEF AddStep, AddGoes, AddArrives, AddChecks, AddAppends, AddCreates, AddWrites,
     AddManages, AddFails, AddListens, AddAcquires, AddFinishes
<1>3. ASSUME AddStep(e) PROVE add'[e].cut = add[e].cut
  BY <1>1, <1>3 DEF AddStep, AddGoes, AddArrives, AddChecks, AddAppends, AddCreates, AddWrites,
     AddManages, AddFails, AddListens, AddAcquires, AddFinishes
<1>4. ASSUME AddStep(e), add[e].pc = "slot" PROVE AddAcquires(e)
  BY <1>1, <1>4 DEF AddStep, AddGoes, AddArrives, AddChecks, AddAppends, AddCreates, AddWrites,
     AddManages, AddFails, AddListens, AddFinishes
<1>5. QED
  BY <1>2, <1>3, <1>4, WhoChanges

\* A listener changes only itself.
LEMMA ListenOther ==
  ASSUME Types, NEW h \in Inits, NEW i \in Inits, i # h,
         ListenVisits(h) \/ ListenAcquires(h) \/ ListenFinishes(h) \/ InitStores(h)
  PROVE  listen'[i] = listen[i]
<1> USE DEF Types, ListenersType
<1>1. CASE ListenVisits(h)
  <2>1. ASSUME NEW n, NEW c, NEW q,
               listen' = [listen EXCEPT ![h].pos = n, ![h].cur = c, ![h].cut = FALSE, ![h].pc = q]
        PROVE  listen'[i] = listen[i]
    BY <2>1
  <2>2. QED
    BY <1>1, <2>1 DEF ListenVisits
<1>2. CASE ListenAcquires(h) \/ ListenFinishes(h)
  BY <1>2 DEF ListenAcquires, ListenFinishes
<1>3. CASE InitStores(h)
  <2>1. listen' = [listen EXCEPT ![h].pc = "range", ![h].slice = envs']
    BY <1>3, InitHeap
  <2>2. QED
    BY <2>1
<1>4. QED
  BY <1>1, <1>2, <1>3

\* What has a loop or waits for one goes on, while the connection lasts, until
\* it is deleted.
LEMMA WatchedStays ==
  ASSUME Types, ListenInv, [Next]_vars, ~Reconnects, NEW e \in Envs, e \in Watched
  PROVE  e \in Watched' \/ del'[e].pc # "idle"
<1>0. loops \in [Envs -> {"none", "on", "told"}]
  BY DEF Types, ScalarsType
<1>1. CASE loops[e] = "on"
  <2>1. ASSUME NEW h \in Envs, DeleteSignals(h) PROVE loops'[e] = "on" \/ del'[e].pc # "idle"
    <3>1. CASE h = e
      BY <2>1, <3>1 DEF DeleteSignals, DeleteGoes, Types, CommandsType
    <3>2. CASE h # e
      BY <1>0, <1>1, <2>1, <3>2 DEF DeleteSignals
    <3>3. QED
      BY <3>1, <3>2
  <2>2. ASSUME NEW h \in Envs, LoopEnds(h) \/ AddAcquires(h) PROVE loops'[e] = "on"
    BY <1>0, <1>1, <2>2 DEF LoopEnds, AddAcquires, Starts
  <2>3. ASSUME NEW i \in Inits, ListenAcquires(i) PROVE loops'[e] = "on"
    BY <1>0, <1>1, <2>3 DEF ListenAcquires, Starts
  <2>4. loops'[e] = "on" \/ del'[e].pc # "idle"
    BY <1>1, <2>1, <2>2, <2>3, WhoChanges
  <2>5. QED
    BY <2>4 DEF Watched
<1>2. CASE add[e].pc = "slot" /\ ~add[e].cut
  <2>1. CASE AddAcquires(e)
    <3>1. loops'[e] = "on"
      BY <1>0, <1>2, <2>1 DEF AddAcquires, Starts
    <3>2. QED
      BY <3>1 DEF Watched
  <2>2. CASE add'[e] = add[e]
    BY <1>2, <2>2 DEF Watched
  <2>3. QED
    BY <1>2, <2>1, <2>2, SlotStays
<1>3. ASSUME NEW i \in Inits, listen[i].pc = "slot", ~listen[i].cut, e = listen[i].cur
      PROVE  e \in Watched'
  <2>1. CASE ListenAcquires(i)
    <3>1. loops'[e] = "on"
      BY <1>0, <1>3, <2>1 DEF ListenAcquires, Starts
    <3>2. QED
      BY <3>1 DEF Watched
  <2>2. CASE ~ListenAcquires(i)
    <3>1. ASSUME NEW h \in Inits, ListenVisits(h) \/ ListenAcquires(h) \/ ListenFinishes(h)
          PROVE  listen'[i] = listen[i]
      <4>1. h # i
        BY <1>3, <2>2, <3>1 DEF ListenVisits, ListenFinishes
      <4>2. QED
        BY <3>1, <4>1, ListenOther
    <3>2. ASSUME NEW h \in Inits, InitStores(h) PROVE listen'[i] = listen[i]
      <4>1. init[h].pc # "done"
        BY <3>2, InitStepOf
      <4>2. h # i
        BY <1>3, <4>1 DEF ListenInv
      <4>3. QED
        BY <3>2, <4>2, ListenOther
    <3>3. listen'[i] = listen[i]
      BY <3>1, <3>2, WhoChanges
    <3>4. QED
      BY <1>3, <3>3 DEF Watched
  <2>3. QED
    BY <2>1, <2>2
<1>4. QED
  BY <1>1, <1>2, <1>3 DEF Watched

\* What a listener does at one step.
LEMMA ListenMoves ==
  ASSUME Types, [Next]_vars, NEW i \in Inits
  PROVE  \/ InitStores(i) /\ listen'[i].pc = "range" /\ listen'[i].slice = envs' /\ listen'[i].pos = listen[i].pos
         \/ /\ listen'[i].slice = listen[i].slice
            /\ \/ ListenVisits(i) /\ listen'[i].pos = listen[i].pos + 1 /\ listen'[i].pc \in {"range", "slot"}
               \/ /\ listen'[i].pos = listen[i].pos
                  /\ \/ ListenAcquires(i) /\ listen'[i].pc = "range"
                     \/ ListenFinishes(i) /\ listen'[i].pc = "done"
                     \/ listen'[i].pc = listen[i].pc
<1> USE DEF Types, ListenersType, ListenType
<1>1. ASSUME ListenVisits(i)
      PROVE  /\ listen'[i].slice = listen[i].slice /\ listen'[i].pos = listen[i].pos + 1
             /\ listen'[i].pc \in {"range", "slot"}
  <2> DEFINE e == arrays[listen[i].slice.arr][listen[i].pos + 1]
             n == listen[i].pos + 1
             q == IF e \in stops THEN listen[i].pc ELSE "slot"
  <2>1. /\ listen[i].pc = "range"
        /\ listen' = [listen EXCEPT ![i].pos = n, ![i].cur = e, ![i].cut = FALSE, ![i].pc = q]
    BY <1>1 DEF ListenVisits
  <2>2. n = listen[i].pos + 1 /\ q \in {"range", "slot"}
    BY <2>1
  <2> HIDE DEF e, n, q
  <2>3. listen'[i].slice = listen[i].slice /\ listen'[i].pos = n /\ listen'[i].pc = q
    BY <2>1
  <2>4. QED
    BY <2>2, <2>3
<1>2. ASSUME ListenAcquires(i)
      PROVE  /\ listen'[i].slice = listen[i].slice /\ listen'[i].pos = listen[i].pos
             /\ listen'[i].pc = "range"
  BY <1>2 DEF ListenAcquires
<1>3. ASSUME ListenFinishes(i)
      PROVE  /\ listen'[i].slice = listen[i].slice /\ listen'[i].pos = listen[i].pos
             /\ listen'[i].pc = "done"
  BY <1>3 DEF ListenFinishes
<1>4. ASSUME InitStores(i)
      PROVE  listen'[i].slice = envs' /\ listen'[i].pos = listen[i].pos /\ listen'[i].pc = "range"
  <2>1. listen' = [listen EXCEPT ![i].pc = "range", ![i].slice = envs']
    BY <1>4, InitHeap
  <2>2. QED
    BY <2>1
<1>5. ASSUME Reconnects
      PROVE  /\ listen'[i].slice = listen[i].slice /\ listen'[i].pos = listen[i].pos
             /\ listen'[i].pc = listen[i].pc
  BY <1>5 DEF Reconnects
<1>6. ASSUME NEW h \in Inits, h # i,
             ListenVisits(h) \/ ListenAcquires(h) \/ ListenFinishes(h) \/ InitStores(h)
      PROVE  listen'[i] = listen[i]
  BY <1>6, ListenOther
<1>7. QED
  BY <1>1, <1>2, <1>3, <1>4, <1>5, <1>6, WhoChanges

\* Only a lost connection begins another one.
LEMMA ConnGrows ==
  ASSUME Types, [Next]_vars
  PROVE  /\ conn' = conn \/ (Reconnects /\ conn' = conn + 1)
         /\ \A i \in Inits : i <= conn => i <= conn'
<1> USE DEF srvVars
<1>1. Reconnects => conn' = conn + 1
  BY DEF Reconnects
<1>2. ASSUME NEW i \in Inits, InitStep(i) \/ ListenVisits(i) \/ ListenAcquires(i) \/ ListenFinishes(i)
      PROVE  conn' = conn
  BY <1>2 DEF InitStep, InitArrives, InitWrites, InitCreates, InitManages, InitStores, InitFails,
     ListenVisits, ListenAcquires, ListenFinishes
<1>3. ASSUME NEW e \in Envs, AddStep(e) \/ DeleteStep(e) \/ ExportPanics(e) \/ LoopEnds(e)
      PROVE  conn' = conn
  BY <1>3 DEF AddStep, AddArrives, AddChecks, AddAppends, AddCreates, AddReads, AddWrites,
     AddManages, AddFails, AddListens, AddAcquires, AddFinishes, DeleteStep, DeleteArrives, DeleteShifts,
     DeleteStores, DeleteSignals, DeleteFinishes, ExportPanics, LoopEnds
<1>4. conn' = conn \/ (Reconnects /\ conn' = conn + 1)
  BY <1>1, <1>2, <1>3 DEF Next, vars
<1>5. Inits \subseteq Nat /\ conn \in Nat
  BY RegistryAssumption DEF Inits, Types, ScalarsType
<1>6. QED
  BY <1>4, <1>5

\* Every step keeps the order in which a listener begins, visits and ends.
LEMMA StepListen ==
  ASSUME Types, ListenInv, [Next]_vars
  PROVE  ListenInv'
<1>1. IsInjective(known')
  BY KnownNames DEF ListenInv
<1>2. ASSUME NEW i \in Inits
      PROVE  /\ init'[i].pc # "idle" => i <= conn'
             /\ init'[i].pc # "done" => listen'[i].pc = "none"
             /\ listen'[i].pc = "none" => listen'[i].pos = 0
             /\ listen'[i].pc # "none" => listen'[i].slice.arr # 1
             /\ listen'[i].pc = "done" => listen'[i].pos = listen'[i].slice.len
             /\ IsInjective(init'[i].list)
  <2>0. /\ init[i].pc # "idle" => i <= conn
        /\ init[i].pc # "done" => listen[i].pc = "none"
        /\ listen[i].pc = "none" => listen[i].pos = 0
        /\ listen[i].pc # "none" => listen[i].slice.arr # 1
        /\ listen[i].pc = "done" => listen[i].pos = listen[i].slice.len
        /\ IsInjective(init[i].list) /\ IsInjective(known)
    BY DEF ListenInv
  <2>1. InitArrives(i) => conn = i
    BY DEF InitArrives
  <2>2. i \in Nat
    BY RegistryAssumption DEF Inits
  <2>3. init'[i].pc # "idle" => i <= conn'
    <3>1. init[i].pc # "idle" \/ InitArrives(i) \/ init'[i] = init[i]
      BY InitStepOf DEF InitsInFlight
    <3>2. QED
      BY <2>0, <2>1, <2>2, <3>1, ConnGrows
  <2>4. init'[i].pc # "done" => init[i].pc # "done" /\ ~InitStores(i)
    BY InitStepOf DEF InitsInFlight
  <2>5. ListenVisits(i) \/ ListenAcquires(i) \/ ListenFinishes(i) => listen[i].pc \notin {"none", "done"}
    BY DEF ListenVisits, ListenAcquires, ListenFinishes
  <2>6. ListenFinishes(i) => listen[i].pos = listen[i].slice.len
    BY DEF ListenFinishes
  <2>7. InitStores(i) => envs'.arr # 1
    <3> SUFFICES ASSUME InitStores(i) PROVE envs'.arr # 1
      OBVIOUS
    <3>1. envs'.arr = Len(arrays) + 1
      BY DEF InitStores
    <3>2. envs.arr \in DOMAIN arrays /\ DOMAIN arrays = 1 .. Len(arrays) /\ Len(arrays) \in Nat
      BY LenProperties DEF Types, HeapType, SliceInv, SliceOK
    <3>3. QED
      BY <3>1, <3>2
  <2>8. IsInjective(init'[i].list)
    BY <2>0, InitStepOf
  <2>9. QED
    BY <2>0, <2>3, <2>4, <2>5, <2>6, <2>7, <2>8, ListenMoves
<1>3. QED
  BY <1>1, <1>2 DEF ListenInv

\* Every entry of GitStopChanMap was made for something that goes on, or goes.
LEMMA StepWatch ==
  ASSUME Types, ListenInv, WatchInv, [Next]_vars
  PROVE  WatchInv'
<1>1. ASSUME NEW e \in Envs, add'[e].pc \notin {"slot", "watched", "done"} PROVE ~add'[e].cut
  <2>1. add[e].pc \notin {"slot", "watched", "done"}
    BY <1>1, AddStepOf DEF Adding
  <2>2. ~add[e].cut
    BY <2>1 DEF WatchInv
  <2>3. CASE Reconnects
    BY <2>1, <2>2, <2>3 DEF Reconnects, Types, CommandsType, AddType
  <2>4. CASE ~Reconnects
    BY <2>2, <2>4, SlotStays
  <2>5. QED
    BY <2>3, <2>4
<1>2. ASSUME NEW e \in stops' PROVE e \in Watched' \/ del'[e].pc # "idle"
  <2>1. CASE Reconnects
    BY <1>2, <2>1 DEF Reconnects
  <2>2. CASE ~Reconnects /\ e \in stops
    <3>1. e \in Envs
      BY <2>2 DEF Types, SetsType
    <3>2. del[e].pc # "idle" => del'[e].pc # "idle"
      BY <3>1, DelStep
    <3>3. QED
      BY <2>2, <3>1, <3>2, WatchedStays DEF WatchInv
  <2>3. CASE ~Reconnects /\ e \notin stops
    <3>1. ASSUME NEW i \in Inits, ListenVisits(i) PROVE e \in Watched'
      <4> DEFINE x == arrays[listen[i].slice.arr][listen[i].pos + 1]
      <4>1. stops' = stops \cup {x}
        BY <3>1 DEF ListenVisits
      <4>2. e = x
        BY <1>2, <2>3, <4>1
      <4> DEFINE n == listen[i].pos + 1
                 q == IF e \in stops THEN listen[i].pc ELSE "slot"
      <4>3. listen' = [listen EXCEPT ![i].pos = n, ![i].cur = e, ![i].cut = FALSE, ![i].pc = q]
        BY <3>1, <4>2 DEF ListenVisits
      <4>4. q = "slot"
        BY <2>3
      <4> HIDE DEF n, q, x
      <4>5. listen'[i].cur = e /\ listen'[i].cut = FALSE /\ listen'[i].pc = q
        BY <4>3 DEF Types, ListenersType, ListenType
      <4>6. QED
        BY <4>4, <4>5 DEF Watched
    <3>2. ASSUME NEW h \in Envs, AddListens(h) PROVE e \in Watched'
      <4>1. stops' = stops \cup {h} /\ add[h].pc = "listen"
            /\ add' = [add EXCEPT ![h].pc = IF h \in stops THEN "watched" ELSE "slot"]
        BY <3>2 DEF AddListens, AddGoes
      <4>2. e = h
        BY <1>2, <2>3, <4>1
      <4>3. ~add[e].cut
        BY <4>1, <4>2 DEF WatchInv
      <4>4. add'[e].pc = "slot" /\ ~add'[e].cut
        BY <2>3, <4>1, <4>2, <4>3 DEF Types, CommandsType, AddType
      <4>5. QED
        BY <4>2, <4>4 DEF Watched
    <3>3. ASSUME NEW h \in Envs, DeleteSignals(h) PROVE FALSE
      BY <1>2, <2>3, <3>3 DEF DeleteSignals
    <3>4. QED
      BY <1>2, <2>3, <3>1, <3>2, <3>3, WhoChanges
  <2>4. QED
    BY <2>1, <2>2, <2>3
<1>3. QED
  BY <1>1, <1>2 DEF WatchInv

\* The deletions so far, and those that have shifted an array.
Gone == {e \in Envs : del[e].pc # "idle"}
Shifted == {e \in Envs : del[e].pc \notin {"idle", "list"}}
GoneInv == IsFiniteSet(Gone)

\* Only one deletion begins at a step, so there are finitely many.
LEMMA StepGone ==
  ASSUME Types, GoneInv, [Next]_vars
  PROVE  GoneInv'
<1>1. ASSUME NEW e \in Envs, DeleteStep(e) PROVE Gone' \subseteq Gone \cup {e}
  <2>1. \A h \in Envs : h # e => del'[h] = del[h]
    BY <1>1 DEF Types, CommandsType, DeleteStep, DeleteGoes, DeleteArrives, DeleteShifts, DeleteStores,
       DeleteSignals, DeleteFinishes
  <2>2. QED
    BY <2>1 DEF Gone
<1>2. UNCHANGED del => Gone' = Gone
  BY DEF Gone
<1>3. \A e : IsFiniteSet(Gone \cup {e})
  BY FS_AddElement DEF GoneInv
<1>4. ASSUME NEW e \in Envs, DeleteStep(e) PROVE IsFiniteSet(Gone')
  BY <1>1, <1>3, <1>4, FS_Subset
<1>5. QED
  BY <1>2, <1>4, WhoChanges DEF GoneInv

LEMMA ShiftedGrows ==
  ASSUME Types, GoneInv, [Next]_vars
  PROVE  /\ Shifted \subseteq Shifted' /\ Shifted' \subseteq Gone'
         /\ IsFiniteSet(Shifted) /\ IsFiniteSet(Shifted')
         /\ Cardinality(Shifted) \in Nat /\ Cardinality(Shifted') \in Nat
         /\ Cardinality(Shifted) <= Cardinality(Shifted')
<1>1. Shifted \subseteq Gone /\ Shifted' \subseteq Gone'
  BY DEF Shifted, Gone
<1>2. Shifted \subseteq Shifted'
  BY DelStep DEF Shifted
<1>3. IsFiniteSet(Shifted) /\ IsFiniteSet(Shifted')
  BY <1>1, StepGone, FS_Subset DEF GoneInv
<1>4. QED
  BY <1>1, <1>2, <1>3, FS_Subset, FS_CardinalityType

\* What a listener has passed over: among the first m entries of its array and
\* before its position, neither watched nor deleted.
Missed(i, m) ==
  {e \in Envs : /\ del[e].pc = "idle" /\ e \notin Watched
                /\ \E j \in 1 .. m : j <= listen[i].pos /\ arrays[listen[i].slice.arr][j] = e}

\* What agent_init was told of and no deletion has shifted out is in the first
\* m entries of the array, each once, and every slice of the array is at least
\* as long, so that nothing is appended there.
LongEnough(k, m) ==
  /\ envs.arr = k => m <= envs.len
  /\ \A e \in Envs : /\ del[e].left.arr = k => m <= del[e].left.len
                     /\ add[e].held.arr = k => m <= add[e].held.len
Frontier(i, m) ==
  LET a == arrays[listen[i].slice.arr] IN
  /\ m <= listen[i].slice.len
  /\ \A j, k \in 1 .. m : a[j] = a[k] => j = k
  /\ \A e \in ToSet(init[i].list) : del[e].pc \in {"idle", "list"} => \E j \in 1 .. m : a[j] = e
  /\ LongEnough(listen[i].slice.arr, m)

\* Each deletion that has shifted it costs at most one.
Loss(i, m) ==
  conn = i => IsFiniteSet(Missed(i, m)) /\ Cardinality(Missed(i, m)) <= Cardinality(Shifted)

FrontInv ==
  \A i \in Inits : listen[i].pc # "none" => \E m \in Nat : Frontier(i, m) /\ Loss(i, m)

\* What holds of a listener that has begun.
LEMMA Begun ==
  ASSUME Types, ListenInv, [Next]_vars, NEW i \in Inits, listen[i].pc # "none"
  PROVE  /\ ~InitStores(i) /\ init'[i].list = init[i].list
         /\ conn' = i => conn = i /\ ~Reconnects
         /\ listen'[i].slice = listen[i].slice /\ listen'[i].pc # "none"
         /\ ListenVisits(i) \/ listen'[i].pos = listen[i].pos
         /\ ListenVisits(i) => listen'[i].pos = listen[i].pos + 1
<1>1. init[i].pc = "done" /\ i <= conn
  BY DEF ListenInv
<1>2. ~InitStores(i) /\ init'[i].list = init[i].list
  BY <1>1, InitStepOf
<1>3. i \in Nat /\ conn \in Nat
  BY RegistryAssumption DEF Inits, Types, ScalarsType
<1>4. conn' = i => conn = i /\ ~Reconnects
  <2>1. Reconnects => conn' = conn + 1
    BY DEF Reconnects
  <2>2. QED
    BY <1>1, <1>3, <2>1, ConnGrows
<1>5. listen'[i].slice = listen[i].slice /\ listen'[i].pc # "none"
  BY <1>2, ListenMoves
<1>6. ListenVisits(i) \/ listen'[i].pos = listen[i].pos
  BY <1>2, ListenMoves
<1>7. ListenVisits(i) => listen'[i].pos = listen[i].pos + 1
  <2> SUFFICES ASSUME ListenVisits(i) PROVE listen'[i].pos = listen[i].pos + 1
    OBVIOUS
  <2> DEFINE e == arrays[listen[i].slice.arr][listen[i].pos + 1]
             n == listen[i].pos + 1
             q == IF e \in stops THEN listen[i].pc ELSE "slot"
  <2>1. listen' = [listen EXCEPT ![i].pos = n, ![i].cur = e, ![i].cut = FALSE, ![i].pc = q]
    BY DEF ListenVisits
  <2> HIDE DEF q, e
  <2>2. QED
    BY <2>1 DEF Types, ListenersType, ListenType
<1>8. QED
  BY <1>2, <1>4, <1>5, <1>6, <1>7

\* A step that leaves the first m entries alone keeps both.
LEMMA FrontStays ==
  ASSUME Types, ListenInv, [Next]_vars, NEW i \in Inits, NEW m \in Nat,
         listen[i].pc # "none", Frontier(i, m),
         \A j \in 1 .. m : arrays'[listen[i].slice.arr][j] = arrays[listen[i].slice.arr][j],
         LongEnough(listen[i].slice.arr, m)'
  PROVE  Frontier(i, m)'
<1>1. listen'[i].slice = listen[i].slice /\ init'[i].list = init[i].list
  BY Begun
<1>2. init[i].list \in Seq(Envs)
  BY DEF Types, CommandsType, InitType
<1>3. ToSet(init[i].list) \subseteq Envs
  BY <1>2, ListSet
<1>4. ASSUME NEW e \in ToSet(init[i].list), del'[e].pc \in {"idle", "list"}
      PROVE  \E j \in 1 .. m : arrays'[listen[i].slice.arr][j] = e
  <2>1. del[e].pc \in {"idle", "list"}
    BY <1>3, <1>4, DelStep
  <2>2. QED
    BY <2>1 DEF Frontier
<1>5. QED
  BY <1>1, <1>4 DEF Frontier

LEMMA LossStays ==
  ASSUME Types, ListenInv, WatchInv, GoneInv, [Next]_vars, NEW i \in Inits, NEW m \in Nat,
         listen[i].pc # "none", Loss(i, m),
         \A j \in 1 .. m : arrays'[listen[i].slice.arr][j] = arrays[listen[i].slice.arr][j]
  PROVE  Loss(i, m)'
<1> SUFFICES ASSUME conn' = i
             PROVE  IsFiniteSet(Missed(i, m)') /\ Cardinality(Missed(i, m)') <= Cardinality(Shifted')
  BY DEF Loss
<1> DEFINE a == arrays[listen[i].slice.arr]
<1>1. conn = i /\ ~Reconnects /\ listen'[i].slice = listen[i].slice
  BY Begun
<1>2. ASSUME NEW e \in Missed(i, m)' PROVE e \in Missed(i, m)
  <2>1. /\ e \in Envs /\ del'[e].pc = "idle" /\ e \notin Watched'
        /\ \E j \in 1 .. m : j <= listen'[i].pos /\ arrays'[listen[i].slice.arr][j] = e
    BY <1>1 DEF Missed
  <2>2. PICK j \in 1 .. m : j <= listen'[i].pos /\ a[j] = e
    BY <2>1
  <2>3. del[e].pc = "idle" /\ e \notin Watched
    BY <1>1, <2>1, DelStep, WatchedStays
  <2>4. j <= listen[i].pos
    <3>1. CASE ListenVisits(i)
      <4>1. stops' = stops \cup {a[listen[i].pos + 1]} /\ listen'[i].pos = listen[i].pos + 1
        BY <3>1, Begun DEF ListenVisits
      <4>2. j # listen[i].pos + 1
        <5>1. e \notin stops'
          BY <2>1, StepWatch DEF WatchInv
        <5>2. QED
          BY <2>2, <4>1, <5>1
      <4>3. listen[i].pos \in Nat
        BY DEF Types, ListenersType, ListenType
      <4>4. QED
        BY <2>2, <4>1, <4>2, <4>3
    <3>2. CASE ~ListenVisits(i)
      BY <2>2, <3>2, Begun
    <3>3. QED
      BY <3>1, <3>2
  <2>5. QED
    BY <2>1, <2>2, <2>3, <2>4 DEF Missed
<1>3. IsFiniteSet(Missed(i, m)) /\ Cardinality(Missed(i, m)) <= Cardinality(Shifted)
  BY <1>1 DEF Loss
<1>4. Missed(i, m)' \subseteq Missed(i, m)
  BY <1>2
<1>5. /\ IsFiniteSet(Missed(i, m)') /\ Cardinality(Missed(i, m)') <= Cardinality(Missed(i, m))
      /\ Cardinality(Missed(i, m)) \in Nat /\ Cardinality(Missed(i, m)') \in Nat
  BY <1>3, <1>4, FS_Subset, FS_CardinalityType
<1>6. QED
  BY <1>3, <1>5, ShiftedGrows

\* A listener begins at the front of a list in an array of its own.
LEMMA FrontBegins ==
  ASSUME Types, ListenInv, GoneInv, [Next]_vars, NEW i \in Inits, InitStores(i)
  PROVE  \E m \in Nat : (Frontier(i, m) /\ Loss(i, m))'
<1> DEFINE list == init[i].list
<1> PICK A : A = Len(arrays) + 1
  OBVIOUS
<1> PICK m : m = Len(list)
  OBVIOUS
<1>1. list \in Seq(Envs) /\ m \in Nat /\ DOMAIN list = 1 .. m
  BY LenProperties DEF Types, CommandsType, InitType
<1>2. /\ envs'.arr = A /\ envs'.len = m /\ \A j \in 1 .. m : arrays'[A][j] = list[j]
  <2>1. envs' = [arr |-> A, len |-> m]
    BY DEF InitStores
  <2>2. QED
    BY <2>1, InitHeap
<1>3. init'[i].list = list /\ listen[i].pc = "none" /\ listen[i].pos = 0
  BY InitStepOf DEF ListenInv, InitStep
<1>4. listen'[i].slice = envs' /\ listen'[i].pos = 0
  <2>1. listen' = [listen EXCEPT ![i].pc = "range", ![i].slice = envs']
    BY InitHeap
  <2>2. QED
    BY <1>3, <2>1 DEF Types, ListenersType, ListenType
<1>5. A \notin DOMAIN arrays
  BY LenProperties DEF Types, HeapType
<1>6. LongEnough(A, m)'
  <2>1. UNCHANGED <<add, del>>
    BY DEF InitStores
  <2>2. \A e \in Envs : del[e].left.arr # A /\ add[e].held.arr # A
    BY <1>5 DEF Types, SliceInv, SliceOK
  <2>3. QED
    BY <1>1, <1>2, <2>1, <2>2 DEF LongEnough
<1>7. \A j, k \in 1 .. m : list[j] = list[k] => j = k
  BY <1>1 DEF ListenInv, IsInjective
<1>8. \A e \in ToSet(list) : \E j \in 1 .. m : list[j] = e
  BY <1>1 DEF ToSet
<1>9. Frontier(i, m)'
  <2>1. m <= listen'[i].slice.len
    BY <1>1, <1>2, <1>4
  <2>2. \A j, k \in 1 .. m : arrays'[A][j] = arrays'[A][k] => j = k
    BY <1>2, <1>7
  <2>3. \A e \in ToSet(list) : \E j \in 1 .. m : arrays'[A][j] = e
    BY <1>2, <1>8
  <2>4. listen'[i].slice.arr = A
    BY <1>2, <1>4
  <2>5. QED
    BY <1>3, <1>6, <2>1, <2>2, <2>3, <2>4 DEF Frontier
<1>10. Loss(i, m)'
  <2>1. Missed(i, m)' = {}
    BY <1>1, <1>4 DEF Missed
  <2>2. IsFiniteSet(Missed(i, m)') /\ Cardinality(Missed(i, m)') = 0
    BY <2>1, FS_EmptySet
  <2>3. QED
    BY <2>2, ShiftedGrows DEF Loss
<1>11. QED
  BY <1>1, <1>9, <1>10

\* An addition writes behind every slice of the array.
LEMMA AppendBehind ==
  ASSUME Types, NEW e \in Envs, AddAppends(e), NEW k \in DOMAIN arrays, NEW m \in Nat, LongEnough(k, m),
         m <= Len(arrays[k])
  PROVE  /\ \A j \in 1 .. m : arrays'[k][j] = arrays[k][j]
         /\ envs'.arr = k => m <= envs'.len
<1> DEFINE s == add[e].held
           a == arrays[s.arr]
           new == [[j \in 1 .. Max({1, 2 * s.len}) |-> IF j <= s.len THEN a[j] ELSE None] EXCEPT ![s.len + 1] = e]
<1>1. arrays \in Seq(Seq(Cells)) /\ s \in SliceType /\ SliceOK(s)
  BY DEF Types, CommandsType, AddType, HeapType, SliceInv, Cells
<1>2. /\ s.len \in Nat /\ s.arr \in DOMAIN arrays /\ s.len <= Len(a)
      /\ DOMAIN arrays = 1 .. Len(arrays) /\ Len(arrays) \in Nat
  BY <1>1, LenProperties DEF SliceType, SliceOK
<1>3. s.arr = k => m <= s.len
  BY DEF LongEnough
<1>4. IF s.len < Len(a)
      THEN /\ arrays' = [arrays EXCEPT ![s.arr] = [a EXCEPT ![s.len + 1] = e]]
           /\ envs' = [s EXCEPT !.len = s.len + 1]
      ELSE /\ arrays' = Append(arrays, new)
           /\ envs' = [arr |-> Len(arrays) + 1, len |-> s.len + 1]
  BY DEF AddAppends
<1> HIDE DEF s, a, new
<1>5. CASE s.len < Len(a)
  <2>1. /\ arrays' = [arrays EXCEPT ![s.arr] = [a EXCEPT ![s.len + 1] = e]]
        /\ envs'.arr = s.arr /\ envs'.len = s.len + 1
    BY <1>1, <1>4, <1>5 DEF SliceType
  <2>2. CASE s.arr # k
    BY <2>1, <2>2
  <2>3. CASE s.arr = k
    <3>1. arrays'[k] = [arrays[k] EXCEPT ![s.len + 1] = e]
      BY <2>1, <2>3 DEF a
    <3>2. \A j \in 1 .. m : j # s.len + 1
      BY <1>2, <1>3, <2>3
    <3>3. arrays[k] \in Seq(Cells)
      BY <1>1, <1>2, ElementOfSeq
    <3>4. DOMAIN arrays[k] = 1 .. Len(arrays[k]) /\ Len(arrays[k]) \in Nat
      BY <3>3, LenProperties
    <3>5. \A j \in 1 .. m : arrays'[k][j] = arrays[k][j]
      BY <3>1, <3>2, <3>4
    <3>6. m <= s.len + 1
      BY <1>2, <1>3, <2>3
    <3>7. QED
      BY <2>1, <3>5, <3>6
  <2>4. QED
    BY <2>2, <2>3
<1>6. CASE ~(s.len < Len(a))
  <2>1. arrays' = Append(arrays, new) /\ envs'.arr = Len(arrays) + 1
    BY <1>4, <1>6
  <2>2. arrays'[k] = arrays[k] /\ k # Len(arrays) + 1
    BY <1>1, <1>2, <2>1
  <2>3. QED
    BY <2>1, <2>2
<1>7. QED
  BY <1>5, <1>6

\* A deletion finds its environment behind the first m entries of an array, or
\* moves those behind it to the front.
LEMMA ShiftFront ==
  ASSUME Types, NEW e \in Envs, DeleteShifts(e), NEW k \in DOMAIN arrays, k # 1, NEW m \in Nat,
         LongEnough(k, m), \A i, j \in 1 .. m : arrays[k][i] = arrays[k][j] => i = j
  PROVE  \/ (\A j \in 1 .. m : arrays'[k][j] = arrays[k][j]) /\ LongEnough(k, m)'
         \/ \E p \in 1 .. m :
              /\ arrays[k][p] = e
              /\ \A j \in 1 .. m - 1 : arrays'[k][j] = arrays[k][IF j < p THEN j ELSE j + 1]
              /\ LongEnough(k, m - 1)'
<1> DEFINE n == envs.len
<1>1. /\ arrays \in Seq(Seq(Cells)) /\ envs \in SliceType /\ SliceOK(envs)
      /\ \A h \in Envs : del[h].left.len \in Nat /\ add[h].held.len \in Nat
  BY DEF Types, HeapType, SliceInv, Cells, CommandsType, DelType, AddType, SliceType
<1>2. /\ n \in Nat /\ n <= Len(arrays[envs.arr]) /\ envs.arr \in DOMAIN arrays
      /\ arrays[envs.arr] \in Seq(Cells) /\ Len(arrays[envs.arr]) \in Nat
  BY <1>1, LenProperties, ElementOfSeq DEF SliceType, SliceOK
<1>3. arrays' = [arrays EXCEPT ![envs.arr] = Scan(arrays[envs.arr], n, e)] /\ UNCHANGED <<envs, add>>
  BY DEF DeleteShifts
<1>4. \A h \in Envs : h # e => del'[h] = del[h]
  BY DeleteHeap DEF Types, CommandsType
<1>5. /\ e \notin Elements(envs) => del'[e].left = Empty
      /\ e \in Elements(envs) => del'[e].left.arr = envs.arr /\ del'[e].left.len = n - 1
  BY DeleteShape
<1>6. ASSUME NEW l \in Nat, l <= m,
             e \in Elements(envs) /\ envs.arr = k => l <= n - 1
      PROVE  LongEnough(k, l)'
  <2>1. envs.arr = k => l <= n
    BY <1>2, <1>6 DEF LongEnough
  <2>2. ASSUME NEW h \in Envs
        PROVE  /\ del'[h].left.arr = k => l <= del'[h].left.len
               /\ add[h].held.arr = k => l <= add[h].held.len
    <3>1. add[h].held.arr = k => l <= add[h].held.len
      BY <1>1, <1>6 DEF LongEnough
    <3>2. CASE h # e
      BY <1>1, <1>4, <1>6, <3>1, <3>2 DEF LongEnough
    <3>3. CASE h = e
      BY <1>5, <1>6, <3>1, <3>3 DEF Empty
    <3>4. QED
      BY <3>2, <3>3
  <2>3. QED
    BY <1>3, <2>1, <2>2 DEF LongEnough
<1>7. CASE envs.arr # k
  <2>1. \A j \in 1 .. m : arrays'[k][j] = arrays[k][j]
    BY <1>3, <1>7
  <2>2. LongEnough(k, m)'
    BY <1>6, <1>7
  <2>3. QED
    BY <2>1, <2>2
<1>8. CASE envs.arr = k /\ \A j \in 1 .. m : arrays[k][j] # e
  <2>1. m \in 0 .. n /\ n \in 0 .. Len(arrays[k])
    BY <1>2, <1>8 DEF LongEnough
  <2>2. arrays'[k] = Scan(arrays[k], n, e)
    BY <1>3, <1>8
  <2>3. \A j \in 1 .. m : arrays'[k][j] = arrays[k][j]
    <3>1. PICK a : a = arrays[k]
      OBVIOUS
    <3>2. a \in Seq(Cells) /\ n \in 0 .. Len(a) /\ \A j \in 1 .. m : a[j] # e
      BY <1>2, <1>8, <2>1, <3>1
    <3>3. \A j \in 1 .. m : Scan(a, n, e)[j] = a[j]
      BY <2>1, <3>2, ScanBehind
    <3>4. QED
      BY <2>2, <3>1, <3>3
  <2>4. ASSUME e \in Elements(envs) PROVE m <= n - 1
    <3>1. PICK j \in 1 .. n : arrays[k][j] = e
      BY <1>8, <2>4 DEF Elements
    <3>2. j \notin 1 .. m
      BY <1>8, <3>1
    <3>3. QED
      BY <1>2, <2>1, <3>2
  <2>5. LongEnough(k, m)'
    BY <1>6, <2>4
  <2>6. QED
    BY <2>3, <2>5
<1>9. ASSUME envs.arr = k, NEW p \in 1 .. m, arrays[k][p] = e
      PROVE  /\ \A j \in 1 .. m - 1 : arrays'[k][j] = arrays[k][IF j < p THEN j ELSE j + 1]
             /\ LongEnough(k, m - 1)'
  <2>1. m \in 0 .. n /\ n \in 0 .. Len(arrays[k]) /\ m - 1 \in Nat /\ m - 1 <= n - 1
    BY <1>2, <1>9 DEF LongEnough
  <2>2. arrays'[k] = Scan(arrays[k], n, e)
    BY <1>3, <1>9
  <2>3. \A j \in 1 .. m - 1 : arrays'[k][j] = arrays[k][IF j < p THEN j ELSE j + 1]
    <3>1. PICK a : a = arrays[k]
      OBVIOUS
    <3>2. /\ a \in Seq(Cells) /\ n \in 0 .. Len(a) /\ m \in 0 .. n /\ p \in 1 .. m /\ a[p] = e
          /\ \A h, j \in 1 .. m : a[h] = a[j] => h = j
      BY <1>2, <1>9, <2>1, <3>1
    <3> HIDE DEF n
    <3>3. \A j \in 1 .. m - 1 : Scan(a, n, e)[j] = a[IF j < p THEN j ELSE j + 1]
      BY <3>2, ScanAmong, SMTT(60)
    <3>4. QED
      BY <2>2, <3>1, <3>3
  <2>4. LongEnough(k, m - 1)'
    BY <1>6, <2>1
  <2>5. QED
    BY <2>3, <2>4
<1>10. QED
  BY <1>7, <1>8, <1>9

\* The listener passes over the one that has moved under its position.
LEMMA FrontShrinks ==
  ASSUME Types, ListenInv, WatchInv, GoneInv, [Next]_vars, NEW i \in Inits, listen[i].pc # "none",
         NEW e \in Envs, DeleteShifts(e), NEW k, k = listen[i].slice.arr,
         NEW m \in Nat, Frontier(i, m), Loss(i, m),
         NEW p \in 1 .. m, arrays[k][p] = e,
         \A j \in 1 .. m - 1 : arrays'[k][j] = arrays[k][IF j < p THEN j ELSE j + 1],
         LongEnough(k, m - 1)'
  PROVE  m - 1 \in Nat /\ (Frontier(i, m - 1) /\ Loss(i, m - 1))'
<1> DEFINE a == arrays[k]
           next == a[listen[i].pos + 1]
<1>1. /\ UNCHANGED listen /\ init'[i].list = init[i].list /\ init[i].list \in Seq(Envs)
      /\ listen[i].slice.len \in Nat /\ listen[i].pos \in Nat
      /\ del[e].pc = "list" /\ del'[e].pc = "store"
  BY Begun, DelStep DEF DeleteShifts, DeleteStep, Types, CommandsType, InitType, ListenersType, ListenType, SliceType
<1>2. m - 1 \in Nat /\ p \in Nat /\ p >= 1 /\ p <= m
  OBVIOUS
<1>3. /\ m <= listen[i].slice.len
      /\ \A h, j \in 1 .. m : a[h] = a[j] => h = j
      /\ \A x \in ToSet(init[i].list) : del[x].pc \in {"idle", "list"} => \E j \in 1 .. m : a[j] = x
  BY DEF Frontier
<1>4. Frontier(i, m - 1)'
  <2>1. m - 1 <= listen[i].slice.len
    BY <1>1, <1>2, <1>3
  <2>2. \A h, j \in 1 .. m - 1 : arrays'[k][h] = arrays'[k][j] => h = j
    <3> TAKE h, j \in 1 .. m - 1
    <3> HAVE arrays'[k][h] = arrays'[k][j]
    <3> DEFINE h2 == IF h < p THEN h ELSE h + 1
               j2 == IF j < p THEN j ELSE j + 1
    <3>1. h2 \in 1 .. m /\ j2 \in 1 .. m
      BY <1>2
    <3>2. a[h2] = a[j2]
      OBVIOUS
    <3>3. h2 = j2
      BY <1>3, <3>1, <3>2
    <3>4. QED
      BY <1>2, <3>3
  <2>3. ASSUME NEW x \in ToSet(init[i].list), del'[x].pc \in {"idle", "list"}
        PROVE  \E j \in 1 .. m - 1 : arrays'[k][j] = x
    <3>1. x \in Envs
      BY <1>1, ListSet
    <3>2. x # e /\ del[x].pc \in {"idle", "list"}
      BY <1>1, <2>3, <3>1, DelStep
    <3>3. PICK j \in 1 .. m : a[j] = x
      BY <1>3, <3>2
    <3>4. CASE j < p
      <4>1. j \in 1 .. m - 1
        BY <1>2, <3>4
      <4>2. QED
        BY <3>3, <3>4, <4>1
    <3>5. CASE ~(j < p)
      <4>1. j # p
        BY <3>2, <3>3
      <4>2. j - 1 \in 1 .. m - 1 /\ ~(j - 1 < p) /\ (j - 1) + 1 = j
        BY <1>2, <3>5, <4>1
      <4>3. arrays'[k][j - 1] = a[j]
        BY <4>2
      <4>4. QED
        BY <3>3, <4>2, <4>3
    <3>6. QED
      BY <3>4, <3>5
  <2>4. listen'[i].slice.arr = k /\ listen'[i].slice.len = listen[i].slice.len
    BY <1>1
  <2>5. QED
    BY <1>1, <2>1, <2>2, <2>3, <2>4 DEF Frontier
<1>5. ASSUME conn' = i
      PROVE  IsFiniteSet(Missed(i, m - 1)') /\ Cardinality(Missed(i, m - 1)') <= Cardinality(Shifted')
  <2>1. conn = i /\ ~Reconnects
    BY <1>5, Begun
  <2>2. ASSUME NEW x \in Missed(i, m - 1)' PROVE x \in Missed(i, m) \cup {next}
    <3>1. /\ x \in Envs /\ del'[x].pc = "idle" /\ x \notin Watched'
          /\ \E j \in 1 .. m - 1 : j <= listen[i].pos /\ arrays'[k][j] = x
      BY <1>1 DEF Missed
    <3>2. PICK j \in 1 .. m - 1 : j <= listen[i].pos /\ arrays'[k][j] = x
      BY <3>1
    <3>3. del[x].pc = "idle" /\ x \notin Watched
      BY <2>1, <3>1, DelStep, WatchedStays
    <3>4. CASE j < p
      <4>1. a[j] = x /\ j \in 1 .. m
        BY <1>2, <3>2, <3>4
      <4>2. QED
        BY <3>1, <3>2, <3>3, <4>1 DEF Missed
    <3>5. CASE ~(j < p)
      <4>1. a[j + 1] = x /\ j + 1 \in 1 .. m
        BY <1>2, <3>2, <3>5
      <4>2. CASE j + 1 <= listen[i].pos
        BY <3>1, <3>3, <4>1, <4>2 DEF Missed
      <4>3. CASE ~(j + 1 <= listen[i].pos)
        <5>1. j = listen[i].pos
          BY <1>1, <3>2, <4>3
        <5>2. QED
          BY <4>1, <5>1
      <4>4. QED
        BY <4>2, <4>3
    <3>6. QED
      BY <3>4, <3>5
  <2>3. IsFiniteSet(Missed(i, m)) /\ Cardinality(Missed(i, m)) <= Cardinality(Shifted)
    BY <2>1 DEF Loss
  <2> HIDE DEF next
  <2>4. /\ IsFiniteSet(Missed(i, m) \cup {next})
        /\ Cardinality(Missed(i, m) \cup {next}) <= Cardinality(Missed(i, m)) + 1
        /\ Cardinality(Missed(i, m)) \in Nat /\ Cardinality(Missed(i, m) \cup {next}) \in Nat
    <3>1. PICK S : S = Missed(i, m)
      OBVIOUS
    <3>2. IsFiniteSet(S) /\ Cardinality(S) \in Nat
      BY <2>3, <3>1, FS_CardinalityType
    <3>3. /\ IsFiniteSet(S \cup {next})
          /\ Cardinality(S \cup {next}) = IF next \in S THEN Cardinality(S) ELSE Cardinality(S) + 1
      BY <3>2, FS_AddElement
    <3>4. QED
      BY <3>1, <3>2, <3>3
  <2>5. Missed(i, m - 1)' \subseteq Missed(i, m) \cup {next}
    BY <2>2
  <2>6. /\ IsFiniteSet(Missed(i, m - 1)')
        /\ Cardinality(Missed(i, m - 1)') <= Cardinality(Missed(i, m) \cup {next})
        /\ Cardinality(Missed(i, m - 1)') \in Nat
    BY <2>4, <2>5, FS_Subset, FS_CardinalityType
  <2>7. Cardinality(Shifted') >= Cardinality(Shifted) + 1
    <3>1. e \notin Shifted /\ e \in Shifted'
      BY <1>1 DEF Shifted
    <3>2. /\ IsFiniteSet(Shifted) /\ IsFiniteSet(Shifted') /\ Shifted \cup {e} \subseteq Shifted'
          /\ Cardinality(Shifted) \in Nat /\ Cardinality(Shifted') \in Nat
      BY <3>1, ShiftedGrows
    <3>3. IsFiniteSet(Shifted \cup {e}) /\ Cardinality(Shifted \cup {e}) = Cardinality(Shifted) + 1
      BY <3>1, <3>2, FS_AddElement
    <3>4. Cardinality(Shifted \cup {e}) <= Cardinality(Shifted')
      BY <3>2, FS_Subset
    <3>5. QED
      BY <3>3, <3>4
  <2>8. Cardinality(Shifted) \in Nat /\ Cardinality(Shifted') \in Nat
    BY ShiftedGrows
  <2>9. QED
    BY <2>3, <2>4, <2>6, <2>7, <2>8
<1>6. QED
  BY <1>2, <1>4, <1>5 DEF Loss

\* The other steps leave the arrays alone and copy slices only.
LEMMA LongStays ==
  ASSUME Types, [Next]_vars, \A i \in Inits : ~InitStores(i),
         \A e \in Envs : ~AddAppends(e) /\ ~DeleteShifts(e),
         NEW k, NEW m \in Nat, LongEnough(k, m)
  PROVE  UNCHANGED arrays /\ LongEnough(k, m)'
<1>1. UNCHANGED arrays
  BY WhoChanges
<1>2. envs' = envs \/ \E e \in Envs : envs' = del[e].left
  BY WhoChanges DEF DeleteStores
<1>3. ASSUME NEW e \in Envs PROVE add'[e].held \in {add[e].held, envs} /\ del'[e].left = del[e].left
  <2>1. add'[e].held \in {add[e].held, envs}
    BY <1>3, AddStepOf
  <2>2. del'[e].left = del[e].left
    BY <1>3, DelStep DEF DeleteStep
  <2>3. QED
    BY <2>1, <2>2
<1>4. QED
  BY <1>1, <1>2, <1>3 DEF LongEnough

\* Every step keeps a front of the array, perhaps a shorter one.
LEMMA StepFront ==
  ASSUME Types, ListenInv, WatchInv, GoneInv, FrontInv, [Next]_vars
  PROVE  FrontInv'
<1> SUFFICES ASSUME NEW i \in Inits, listen'[i].pc # "none"
             PROVE  \E m \in Nat : (Frontier(i, m) /\ Loss(i, m))'
  BY DEF FrontInv
<1>1. CASE InitStores(i)
  BY <1>1, FrontBegins
<1>2. CASE ~InitStores(i)
  <2>1. listen[i].pc # "none"
    BY <1>2, ListenMoves DEF ListenVisits, ListenAcquires, ListenFinishes
  <2>2. PICK m \in Nat : Frontier(i, m) /\ Loss(i, m)
    BY <2>1 DEF FrontInv
  <2>3. PICK k : k = listen[i].slice.arr
    OBVIOUS
  <2>4. /\ k \in DOMAIN arrays /\ k # 1 /\ LongEnough(k, m) /\ m <= Len(arrays[k])
        /\ \A h, j \in 1 .. m : arrays[k][h] = arrays[k][j] => h = j
    <3>1. SliceOK(listen[i].slice) /\ listen[i].slice.len \in Nat
      BY DEF Types, SliceInv, ListenersType, ListenType, SliceType
    <3>2. k \in DOMAIN arrays /\ listen[i].slice.len <= Len(arrays[k])
      BY <2>3, <3>1 DEF SliceOK
    <3>3. Len(arrays[k]) \in Nat
      BY <3>2, LenProperties, ElementOfSeq DEF Types, HeapType
    <3>4. m <= listen[i].slice.len
      BY <2>2 DEF Frontier
    <3>5. m <= Len(arrays[k])
      BY <3>1, <3>2, <3>3, <3>4
    <3>6. k # 1
      BY <2>1, <2>3 DEF ListenInv
    <3>7. LongEnough(k, m) /\ \A h, j \in 1 .. m : arrays[k][h] = arrays[k][j] => h = j
      BY <2>2, <2>3 DEF Frontier
    <3>8. QED
      BY <3>2, <3>5, <3>6, <3>7
  <2>5. ASSUME \A j \in 1 .. m : arrays'[k][j] = arrays[k][j], LongEnough(k, m)'
        PROVE  Frontier(i, m)' /\ Loss(i, m)'
    <3>1. LongEnough(listen[i].slice.arr, m)'
      <4>1. listen'[i].slice = listen[i].slice
        BY <2>1, Begun
      <4>2. QED
        BY <2>3, <2>5, <4>1 DEF LongEnough
    <3>2. \A j \in 1 .. m : arrays'[listen[i].slice.arr][j] = arrays[listen[i].slice.arr][j]
      BY <2>3, <2>5
    <3>3. QED
      BY <2>1, <2>2, <3>1, <3>2, FrontStays, LossStays
  <2>6. ASSUME NEW h \in Inits, InitStores(h)
        PROVE  (\A j \in 1 .. m : arrays'[k][j] = arrays[k][j]) /\ LongEnough(k, m)'
    <3>1. arrays'[k] = arrays[k]
      BY <2>4, <2>6, InitHeap
    <3>2. envs'.arr = Len(arrays) + 1 /\ UNCHANGED <<add, del>>
      BY <2>6 DEF InitStores
    <3>3. k # Len(arrays) + 1
      BY <2>4, LenProperties DEF Types, HeapType
    <3>4. QED
      BY <2>4, <3>1, <3>2, <3>3 DEF LongEnough
  <2>7. ASSUME NEW e \in Envs, AddAppends(e)
        PROVE  (\A j \in 1 .. m : arrays'[k][j] = arrays[k][j]) /\ LongEnough(k, m)'
    <3>1. (\A j \in 1 .. m : arrays'[k][j] = arrays[k][j]) /\ (envs'.arr = k => m <= envs'.len)
      BY <2>4, <2>7, AppendBehind
    <3>2. UNCHANGED del /\ \A h \in Envs : add'[h].held = add[h].held
      BY <2>7 DEF AddAppends, AddGoes, Types, CommandsType, AddType
    <3>3. QED
      BY <2>4, <3>1, <3>2 DEF LongEnough
  <2>8. ASSUME NEW e \in Envs, DeleteShifts(e)
        PROVE  \E l \in Nat : (Frontier(i, l) /\ Loss(i, l))'
    <3>1. CASE (\A j \in 1 .. m : arrays'[k][j] = arrays[k][j]) /\ LongEnough(k, m)'
      BY <2>5, <3>1
    <3>2. ASSUME NEW p \in 1 .. m, arrays[k][p] = e,
                 \A j \in 1 .. m - 1 : arrays'[k][j] = arrays[k][IF j < p THEN j ELSE j + 1],
                 LongEnough(k, m - 1)'
          PROVE  m - 1 \in Nat /\ (Frontier(i, m - 1) /\ Loss(i, m - 1))'
      BY <2>1, <2>2, <2>3, <2>8, <3>2, FrontShrinks
    <3>3. \/ (\A j \in 1 .. m : arrays'[k][j] = arrays[k][j]) /\ LongEnough(k, m)'
          \/ \E p \in 1 .. m :
               /\ arrays[k][p] = e
               /\ \A j \in 1 .. m - 1 : arrays'[k][j] = arrays[k][IF j < p THEN j ELSE j + 1]
               /\ LongEnough(k, m - 1)'
      BY <2>4, <2>8, ShiftFront
    <3>4. QED
      BY <3>1, <3>2, <3>3
  <2>9. ASSUME \A h \in Inits : ~InitStores(h), \A e \in Envs : ~AddAppends(e) /\ ~DeleteShifts(e)
        PROVE  (\A j \in 1 .. m : arrays'[k][j] = arrays[k][j]) /\ LongEnough(k, m)'
    BY <2>4, <2>9, LongStays
  <2>10. QED
    BY <2>5, <2>6, <2>7, <2>8, <2>9
<1>3. QED
  BY <1>1, <1>2

LEMMA InitFront == Init => ListenInv /\ WatchInv /\ GoneInv /\ FrontInv
<1> SUFFICES ASSUME Init PROVE ListenInv /\ WatchInv /\ GoneInv /\ FrontInv
  OBVIOUS
<1>1. /\ known = Named /\ stops = {}
      /\ \A i \in Inits : /\ init[i].pc = "idle" /\ init[i].list = <<>>
                          /\ listen[i].pc = "none" /\ listen[i].pos = 0
      /\ \A e \in Envs : del[e].pc = "idle" /\ add[e].cut = FALSE
  BY DEF Init
<1>2. ListenInv
  <2>1. IsInjective(<<>>)
    BY DEF IsInjective
  <2>2. QED
    BY <1>1, <2>1, RegistryAssumption DEF ListenInv
<1>3. WatchInv /\ FrontInv
  BY <1>1 DEF WatchInv, FrontInv
<1>4. Gone = {}
  BY <1>1 DEF Gone
<1>5. QED
  BY <1>2, <1>3, <1>4, FS_EmptySet DEF GoneInv

LEMMA FrontInvariant == Spec => [](ListenInv /\ WatchInv /\ GoneInv /\ FrontInv)
<1>1. Types /\ ListenInv /\ WatchInv /\ GoneInv /\ FrontInv /\ [Next]_vars
        => (ListenInv /\ WatchInv /\ GoneInv /\ FrontInv)'
  BY StepListen, StepWatch, StepGone, StepFront
<1>2. QED
  BY <1>1, InitFront, TypesInvariant, PTL DEF Spec

\* A listener of agent_init that has come to the end of its range has passed
\* over at most as many environments as have been deleted, whatever commands
\* overlap: each shift of the array behind it moves one under its position,
\* and no addition writes over what it has still to read.
THEOREM SpecNoneSkipped == Spec => []NoneSkipped
<1>1. Types /\ ListenInv /\ GoneInv /\ FrontInv => NoneSkipped
  <2> SUFFICES ASSUME Types, ListenInv, GoneInv, FrontInv,
                      NEW i \in Inits, listen[i].pc = "done", conn = i
               PROVE  Cardinality(ToSet(init[i].list) \ (Watched \cup Gone)) <= Cardinality(Gone)
    BY DEF NoneSkipped, Gone
  <2>1. PICK m \in Nat : Frontier(i, m) /\ Loss(i, m)
    BY DEF FrontInv
  <2>2. /\ m <= listen[i].pos /\ listen[i].pos \in Nat
        /\ ToSet(init[i].list) \subseteq Envs
    <3>1. listen[i].pos = listen[i].slice.len
      BY DEF ListenInv
    <3>2. init[i].list \in Seq(Envs) /\ listen[i].pos \in Nat
      BY DEF Types, CommandsType, InitType, ListenersType, ListenType
    <3>3. QED
      BY <2>1, <3>1, <3>2, ListSet DEF Frontier
  <2>3. ToSet(init[i].list) \ (Watched \cup Gone) \subseteq Missed(i, m)
    <3> SUFFICES ASSUME NEW e \in ToSet(init[i].list), e \notin Watched, e \notin Gone
                 PROVE  e \in Missed(i, m)
      OBVIOUS
    <3>1. e \in Envs /\ del[e].pc = "idle"
      BY <2>2 DEF Gone
    <3>2. PICK j \in 1 .. m : arrays[listen[i].slice.arr][j] = e
      BY <2>1, <3>1 DEF Frontier
    <3>3. j <= listen[i].pos
      BY <2>2
    <3>4. QED
      BY <3>1, <3>2, <3>3 DEF Missed
  <2>4. IsFiniteSet(Missed(i, m)) /\ Cardinality(Missed(i, m)) <= Cardinality(Shifted)
    BY <2>1 DEF Loss
  <2>5. Shifted \subseteq Gone
    BY DEF Shifted, Gone
  <2>6. /\ IsFiniteSet(Shifted) /\ Cardinality(Shifted) <= Cardinality(Gone)
        /\ Cardinality(Shifted) \in Nat /\ Cardinality(Gone) \in Nat
    BY <2>5, FS_Subset, FS_CardinalityType DEF GoneInv
  <2>7. /\ Cardinality(ToSet(init[i].list) \ (Watched \cup Gone)) <= Cardinality(Missed(i, m))
        /\ Cardinality(ToSet(init[i].list) \ (Watched \cup Gone)) \in Nat
        /\ Cardinality(Missed(i, m)) \in Nat
    BY <2>3, <2>4, FS_Subset, FS_CardinalityType
  <2>8. QED
    BY <2>4, <2>6, <2>7
<1>2. QED
  BY <1>1, FrontInvariant, TypesInvariant, PTL
=============================================================================
