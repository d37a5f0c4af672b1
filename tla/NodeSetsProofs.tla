--------------------------- MODULE NodeSetsProofs ---------------------------
(***************************************************************************)
(* The invariants of NodeSets, for every number of nodes, documents,       *)
(* wrappers, sets and copies: sets have their types, no set and no         *)
(* evaluation points at freed memory, a copied namespace is freed once,    *)
(* and |, & and - are set algebra.                                         *)
(*                                                                         *)
(* The first part is about arrays: what Among, the copies of libxml2 and   *)
(* the operators return.  The second shows what the operations of          *)
(* NodeLifecycle leave alone (Stays), the third that a set can wrap all    *)
(* its nodes (Made) and unlink them.  The last part states the inductive   *)
(* invariant SInv and goes through the actions.                            *)
(***************************************************************************)
EXTENDS NodeSets, NodeLifecycleLeaks, FiniteSetTheorems

-----------------------------------------------------------------------------
(* Arrays.                                                                 *)

\* What Among keeps: the members that are in A, each at its own place of s.
LEMMA AmongMembers ==
  ASSUME NEW S, NEW s \in Seq(S), NEW A, NEW t, t = Among(s, A)
  PROVE  /\ t \in Seq(S)
         /\ Members(t) = Members(s) \cap A
         /\ Injective(s) => Injective(t)
         /\ \E e \in [DOMAIN t -> DOMAIN s] : Injective(e) /\ \A j \in DOMAIN t : t[j] = s[e[j]]
<1> DEFINE Def(e, m) == e = [i \in 0 .. m |->
                               IF i = 0 THEN <<>>
                               ELSE IF s[i] \in A THEN Append(e[i - 1], s[i]) ELSE e[i - 1]]
           n == Len(s)
           T == {m \in 0 .. n : \E e : Def(e, m)}
<1>1. n \in Nat /\ s \in [1 .. n -> S]
  OBVIOUS
<1>2. 0 \in T
  <2> DEFINE e == [i \in 0 .. 0 |-> <<>>]
  <2>1. e = [i \in 0 .. 0 |-> IF i = 0 THEN <<>>
                               ELSE IF s[i] \in A THEN Append(e[i - 1], s[i]) ELSE e[i - 1]]
    OBVIOUS
  <2>2. Def(e, 0)
    BY <2>1
  <2> HIDE DEF e, Def
  <2>3. 0 \in 0 .. n /\ \E g : Def(g, 0)
    BY <2>2, <1>1
  <2>4. QED BY <2>3
<1>3. ASSUME NEW m \in 1 .. n, m - 1 \in T PROVE m \in T
  <2>1. PICK e : Def(e, m - 1)
    BY <1>3
  <2> DEFINE last == IF s[m] \in A THEN Append(e[m - 1], s[m]) ELSE e[m - 1]
             g == [i \in 0 .. m |-> IF i = m THEN last ELSE e[i]]
  <2>2. \A i \in 0 .. m - 1 : g[i] = e[i]
    BY <1>1
  <2>3. g[m] = last
    BY <1>1
  <2> HIDE DEF last
  <2>4. \A i \in 0 .. m : g[i] = IF i = 0 THEN <<>>
                               ELSE IF s[i] \in A THEN Append(g[i - 1], s[i]) ELSE g[i - 1]
    <3>1. SUFFICES ASSUME NEW i \in 0 .. m
          PROVE g[i] = IF i = 0 THEN <<>>
                               ELSE IF s[i] \in A THEN Append(g[i - 1], s[i]) ELSE g[i - 1]
      OBVIOUS
    <3> HIDE DEF g
    <3>2. CASE i = m
      <4>1. m - 1 \in 0 .. m - 1
        BY <1>1
      <4>2. g[m - 1] = e[m - 1] /\ m # 0
        BY <4>1, <2>2
      <4>3. QED BY <2>3, <3>2, <4>2 DEF last
    <3>3. CASE i # m
      <4>1. i \in 0 .. m - 1 /\ (i # 0 => i - 1 \in 0 .. m - 1)
        BY <3>3
      <4>2. g[i] = e[i] /\ (i # 0 => g[i - 1] = e[i - 1])
        BY <2>2, <4>1
      <4>3. e[i] = IF i = 0 THEN <<>>
                   ELSE IF s[i] \in A THEN Append(e[i - 1], s[i]) ELSE e[i - 1]
        BY <2>1, <4>1
      <4>4. QED BY <4>2, <4>3
    <3>4. QED BY <3>2, <3>3
  <2>5. DOMAIN g = 0 .. m
    OBVIOUS
  <2>6. Def(g, m)
    <3>1. g = [i \in 0 .. m |-> g[i]]
      OBVIOUS
    <3> HIDE DEF g
    <3>2. QED BY <2>4, <3>1
  <2>7. m \in 0 .. n /\ \E h : Def(h, m)
    <3> HIDE DEF g, Def
    <3>1. QED BY <2>6, <1>1
  <2>8. QED BY <2>7
<1>4. PICK w : Def(w, n)
  <2>1. \A i \in 1 .. n : i - 1 \in T => i \in T
    BY <1>3
  <2> HIDE DEF T
  <2>2. 0 .. n \subseteq T
    BY <1>1, <1>2, <2>1, CountingUp
  <2>3. n \in T
    BY <1>1, <2>2
  <2>4. QED BY <2>3 DEF T
<1> DEFINE e == CHOOSE e : Def(e, n)
<1>5. Def(e, n)
  BY <1>4
<1>6. t = e[n]
  BY DEF Among
<1>7. \A i \in 0 .. n : e[i] = IF i = 0 THEN <<>>
                   ELSE IF s[i] \in A THEN Append(e[i - 1], s[i]) ELSE e[i - 1]
  BY <1>5
<1> HIDE DEF e, Def, T
<1> DEFINE good(m) == /\ e[m] \in Seq(S)
                      /\ \A x : x \in Members(e[m]) <=> x \in A /\ \E j \in 1 .. m : s[j] = x
                      /\ \E g \in [DOMAIN e[m] -> 1 .. m] :
                           Injective(g) /\ \A j \in DOMAIN e[m] : e[m][j] = s[g[j]]
           U == {m \in 0 .. n : good(m)}
<1>8. 0 \in U
  <2>1. e[0] = <<>> /\ <<>> \in Seq(S) /\ 0 \in 0 .. n
    BY <1>1, <1>7
  <2>2. Members(<<>>) = {} /\ DOMAIN <<>> = {}
    BY DEF Members
  <2>3. \E g \in [{} -> 1 .. 0] : Injective(g)
    <3>1. [x \in {} |-> 1] \in [{} -> 1 .. 0] /\ Injective([x \in {} |-> 1])
      BY DEF Injective
    <3>2. QED BY <3>1
  <2>4. good(0)
    <3>1. e[0] \in Seq(S) /\ DOMAIN e[0] = {} /\ Members(e[0]) = {}
      BY <2>1, <2>2
    <3>2. \A x : x \in Members(e[0]) <=> x \in A /\ \E j \in 1 .. 0 : s[j] = x
      BY <3>1
    <3>3. Injective(e[0])
      BY <3>1 DEF Injective
    <3>4. \E g \in [DOMAIN e[0] -> 1 .. 0] : Injective(g) /\ \A j \in DOMAIN e[0] : e[0][j] = s[g[j]]
      BY <2>3, <3>1
    <3>5. QED BY <3>1, <3>2, <3>3, <3>4
  <2>5. QED BY <2>1, <2>4
<1>9. ASSUME NEW m \in 1 .. n, m - 1 \in U PROVE m \in U
  <2>1. good(m - 1) /\ s[m] \in S /\ m \in 0 .. n
    BY <1>1, <1>9
  <2>2. e[m] = IF s[m] \in A THEN Append(e[m - 1], s[m]) ELSE e[m - 1]
    BY <1>1, <1>7
  <2>3. \A x : (\E j \in 1 .. m : s[j] = x) <=> (\E j \in 1 .. m - 1 : s[j] = x) \/ x = s[m]
    BY <1>1
  <2>9. PICK g \in [DOMAIN e[m - 1] -> 1 .. m - 1] :
          Injective(g) /\ \A j \in DOMAIN e[m - 1] : e[m - 1][j] = s[g[j]]
    BY <2>1
  <2>4. CASE s[m] \notin A
    <3>1. g \in [DOMAIN e[m - 1] -> 1 .. m]
      BY <1>1
    <3>2. e[m] = e[m - 1]
      BY <2>2, <2>4
    <3>3. \A x : x \in Members(e[m]) <=> x \in A /\ \E j \in 1 .. m : s[j] = x
      <4>1. \A x : x \in Members(e[m - 1]) <=> x \in A /\ \E j \in 1 .. m - 1 : s[j] = x
        BY <2>1
      <4>2. QED BY <2>3, <2>4, <3>2, <4>1
    <3>4. e[m] \in Seq(S)
      BY <2>1, <3>2
    <3>5. \E h \in [DOMAIN e[m] -> 1 .. m] :
            Injective(h) /\ \A j \in DOMAIN e[m] : e[m][j] = s[h[j]]
      BY <2>9, <3>1, <3>2
    <3>6. QED BY <2>1, <3>3, <3>4, <3>5
  <2>5. CASE s[m] \in A
    <3> DEFINE q == e[m - 1]
    <3>1. e[m] = Append(q, s[m]) /\ q \in Seq(S)
      BY <2>1, <2>2, <2>5
    <3>2. \A x : x \in Members(q) <=> x \in A /\ \E j \in 1 .. m - 1 : s[j] = x
      BY <2>1
    <3> HIDE DEF q
    <3>3. /\ e[m] \in Seq(S) /\ Len(e[m]) = Len(q) + 1 /\ Len(q) \in Nat
          /\ \A i \in 1 .. Len(q) : e[m][i] = q[i]
          /\ e[m][Len(q) + 1] = s[m]
          /\ DOMAIN e[m] = 1 .. Len(q) + 1 /\ DOMAIN q = 1 .. Len(q)
      BY <2>1, <3>1
    <3>4. \A x : x \in Members(e[m]) <=> x \in Members(q) \/ x = s[m]
      <4>1. SUFFICES ASSUME NEW x PROVE x \in Members(e[m]) <=> x \in Members(q) \/ x = s[m]
        OBVIOUS
      <4>2. x \in Members(e[m]) <=> \E i \in 1 .. Len(q) + 1 : e[m][i] = x
        BY <3>3 DEF Members
      <4>3. x \in Members(q) <=> \E i \in 1 .. Len(q) : q[i] = x
        BY <3>3 DEF Members
      <4>4. \A i \in 1 .. Len(q) + 1 : i \in 1 .. Len(q) \/ i = Len(q) + 1
        BY <3>3
      <4>5. \A i \in 1 .. Len(q) : i \in 1 .. Len(q) + 1
        BY <3>3
      <4>6. Len(q) + 1 \in 1 .. Len(q) + 1
        BY <3>3
      <4>7. QED BY <3>3, <4>2, <4>3, <4>4, <4>5, <4>6
    <3>5. \A x : x \in Members(e[m]) <=> x \in A /\ \E j \in 1 .. m : s[j] = x
      BY <2>3, <2>5, <3>2, <3>4
    <3> DEFINE f == [i \in 1 .. Len(q) + 1 |-> IF i = Len(q) + 1 THEN m ELSE g[i]]
    <3>6. /\ f \in [DOMAIN e[m] -> 1 .. m]
          /\ \A i \in 1 .. Len(q) : f[i] = g[i] /\ g[i] \in 1 .. m - 1
          /\ f[Len(q) + 1] = m
      <4>1. \A i \in 1 .. Len(q) : g[i] \in 1 .. m - 1 /\ g[i] \in 1 .. m
        BY <1>1, <2>9, <3>3, SMTT(30) DEF q
      <4>2. f[Len(q) + 1] = m /\ \A i \in 1 .. Len(q) : f[i] = g[i]
        BY <3>3
      <4>3. DOMAIN e[m] = 1 .. Len(q) + 1 /\ m \in 1 .. m
        BY <1>1, <3>3
      <4>4. \A i \in 1 .. Len(q) + 1 : f[i] \in 1 .. m
        BY <3>3, <4>1, <4>2, <4>3
      <4>5. QED BY <4>1, <4>2, <4>3, <4>4
    <3> HIDE DEF f
    <3>8. \A i \in 1 .. Len(q) + 1 : i \in 1 .. Len(q) \/ i = Len(q) + 1
      BY <3>3
    <3>9. Injective(f)
      <4>1. \A i, j \in 1 .. Len(q) : g[i] = g[j] => i = j
        BY <2>9, <3>3 DEF Injective, q
      <4>2. \A i \in 1 .. Len(q) : g[i] # m
        BY <3>6, <1>1
      <4>3. DOMAIN f = 1 .. Len(q) + 1
        BY <3>3, <3>6
      <4>4. QED BY <3>6, <3>8, <4>1, <4>2, <4>3 DEF Injective
    <3>10. \A j \in DOMAIN e[m] : e[m][j] = s[f[j]]
      <4>1. \A j \in 1 .. Len(q) : q[j] = s[g[j]]
        BY <2>9, <3>3 DEF q
      <4>2. QED BY <3>3, <3>6, <3>8, <4>1
    <3>7. QED BY <2>1, <3>3, <3>5, <3>6, <3>9, <3>10
  <2>6. QED BY <2>4, <2>5
<1>10. good(n)
  <2>1. \A i \in 1 .. n : i - 1 \in U => i \in U
    BY <1>9
  <2> HIDE DEF U
  <2>2. 0 .. n \subseteq U
    BY <1>1, <1>8, <2>1, CountingUp
  <2>3. n \in U
    BY <1>1, <2>2
  <2>4. QED BY <2>3 DEF U
<1>11. \A x : x \in Members(s) <=> \E j \in 1 .. n : s[j] = x
  BY <1>1 DEF Members
<1>12. t \in Seq(S) /\ Members(t) = Members(s) \cap A
  BY <1>6, <1>10, <1>11
<1>13. \E g \in [DOMAIN t -> DOMAIN s] : Injective(g) /\ \A j \in DOMAIN t : t[j] = s[g[j]]
  BY <1>1, <1>6, <1>10
<1>14. ASSUME Injective(s) PROVE Injective(t)
  <2>1. PICK g \in [DOMAIN t -> DOMAIN s] : Injective(g) /\ \A j \in DOMAIN t : t[j] = s[g[j]]
    BY <1>13
  <2>2. QED BY <1>14, <2>1 DEF Injective
<1>15. QED BY <1>12, <1>13, <1>14

-----------------------------------------------------------------------------
(* Addresses.                                                              *)

\* The injections of this module are those of the library.
LEMMA InjectionIs ==
  ASSUME NEW S, NEW T, NEW f
  PROVE  f \in Injection(S, T) <=> f \in [S -> T] /\ Injective(f)
BY DEF Injection, IsInjective, Injective

\* A set that has an injection into a finite set is no larger.
LEMMA InjectionBound ==
  ASSUME NEW S, NEW T, IsFiniteSet(T), NEW f \in [S -> T], Injective(f)
  PROVE  /\ IsFiniteSet(S) /\ Cardinality(S) \in Nat /\ Cardinality(T) \in Nat
         /\ Cardinality(S) <= Cardinality(T)
         /\ Members(f) \subseteq T /\ IsFiniteSet(Members(f))
         /\ Cardinality(Members(f)) = Cardinality(S)
<1>1. f \in Injection(S, T)
  BY InjectionIs
<1>2. IsFiniteSet(S) /\ Cardinality(S) <= Cardinality(T)
  BY <1>1, FS_Injection
<1>3. Members(f) \subseteq T
  BY DEF Members
<1>4. IsFiniteSet(Members(f))
  BY <1>3, FS_Subset
<1>5. f \in Injection(S, Members(f)) /\ f \in Surjection(S, Members(f))
  BY DEF Members, Injection, Surjection, IsInjective, Injective
<1>6. Cardinality(Members(f)) = Cardinality(S)
  BY <1>4, <1>5, FS_Injection
<1>7. QED BY <1>2, <1>3, <1>4, <1>6, FS_CardinalityType

\* A finite set has an injection into a set that is not smaller.
LEMMA InjectionExists ==
  ASSUME NEW S, NEW T, IsFiniteSet(S), IsFiniteSet(T), Cardinality(S) <= Cardinality(T)
  PROVE  \E f \in [S -> T] : Injective(f)
<1> DEFINE m == Cardinality(S)
           n == Cardinality(T)
<1>1. m \in Nat /\ n \in Nat /\ m <= n /\ ExistsBijection(1 .. m, S) /\ ExistsBijection(1 .. n, T)
  BY FS_CardinalityType
<1> HIDE DEF m, n
<1>2. PICK a \in [1 .. m -> S] : \A y \in S : \E i \in 1 .. m : a[i] = y
  BY <1>1 DEF ExistsBijection, Bijection, Injection, Surjection
<1>3. PICK b \in [1 .. n -> T] : Injective(b)
  BY <1>1 DEF ExistsBijection, Bijection, Injection, IsInjective, Injective
<1> DEFINE at(y) == CHOOSE i \in 1 .. m : a[i] = y
           f == [y \in S |-> b[at(y)]]
<1>4. \A y \in S : at(y) \in 1 .. m /\ a[at(y)] = y
  BY <1>2
<1> HIDE DEF at
<1>5. \A i \in 1 .. m : i \in 1 .. n
  BY <1>1
<1>6. f \in [S -> T]
  BY <1>3, <1>4, <1>5
<1>7. ASSUME NEW x \in S, NEW y \in S, f[x] = f[y] PROVE x = y
  <2>1. b[at(x)] = b[at(y)]
    BY <1>7
  <2>2. at(x) = at(y)
    BY <1>3, <1>4, <1>5, <2>1 DEF Injective
  <2>3. QED BY <1>4, <2>2
<1>8. Injective(f)
  BY <1>6, <1>7 DEF Injective
<1>9. QED BY <1>6, <1>8

\* The members of an array are finitely many.
LEMMA FiniteMembers ==
  ASSUME NEW S, NEW s \in Seq(S)
  PROVE  IsFiniteSet(DOMAIN s) /\ IsFiniteSet(Members(s))
<1>1. Len(s) \in Nat /\ DOMAIN s = 1 .. Len(s)
  BY MembersOfSeq
<1>2. IsFiniteSet(DOMAIN s)
  BY <1>1, FS_Interval
<1>3. s \in Surjection(DOMAIN s, Members(s))
  BY DEF Surjection, Members
<1>4. QED BY <1>2, <1>3, FS_Surjection

\* There are addresses for the copies of t if and only if it has no more of them.
LEMMA CanCopyIs ==
  ASSUME NEW k, IsFiniteSet(k.fresh), NEW t \in Seq(Item)
  PROVE  /\ CanCopyAll(k, t) <=> Cardinality(CopiesIn(t)) <= Cardinality(k.fresh)
         /\ IsFiniteSet(CopiesIn(t))
<1>1. IsFiniteSet(CopiesIn(t))
  <2>1. CopiesIn(t) \subseteq DOMAIN t
    BY DEF CopiesIn
  <2>2. IsFiniteSet(DOMAIN t)
    BY FiniteMembers
  <2>3. QED BY <2>1, <2>2, FS_Subset
<1>2. ASSUME CanCopyAll(k, t) PROVE Cardinality(CopiesIn(t)) <= Cardinality(k.fresh)
  <2>1. PICK f \in [CopiesIn(t) -> k.fresh] : Injective(f)
    BY <1>2 DEF CanCopyAll, Addresses
  <2>2. QED BY <2>1, InjectionBound
<1>3. ASSUME Cardinality(CopiesIn(t)) <= Cardinality(k.fresh) PROVE CanCopyAll(k, t)
  <2>1. \E f \in [CopiesIn(t) -> k.fresh] : Injective(f)
    BY <1>1, <1>3, InjectionExists
  <2>2. QED BY <2>1 DEF CanCopyAll, Addresses
<1>4. QED BY <1>1, <1>2, <1>3

\* Fewer copies need fewer addresses.
LEMMA CopyPart ==
  ASSUME NEW k, NEW s \in Seq(Item), NEW t \in Seq(Item),
         NEW e \in [DOMAIN t -> DOMAIN s], Injective(e), \A j \in DOMAIN t : t[j] = s[e[j]]
  PROVE  /\ CanCopyAll(k, s) => CanCopyAll(k, t)
         /\ Cardinality(CopiesIn(t)) <= Cardinality(CopiesIn(s))
<1> DEFINE g == [i \in CopiesIn(t) |-> e[i]]
<1>1. g \in [CopiesIn(t) -> CopiesIn(s)]
  BY DEF CopiesIn
<1>2. Injective(g)
  BY DEF Injective, CopiesIn
<1> HIDE DEF g
<1>3. Cardinality(CopiesIn(t)) <= Cardinality(CopiesIn(s))
  <2>1. IsFiniteSet(CopiesIn(s))
    <3>1. CopiesIn(s) \subseteq DOMAIN s
      BY DEF CopiesIn
    <3>2. QED BY <3>1, FiniteMembers, FS_Subset
  <2>2. QED BY <1>1, <1>2, <2>1, InjectionBound
<1>4. ASSUME CanCopyAll(k, s) PROVE CanCopyAll(k, t)
  <2>1. PICK f \in [CopiesIn(s) -> k.fresh] : Injective(f)
    BY <1>4 DEF CanCopyAll, Addresses
  <2> DEFINE h == [i \in CopiesIn(t) |-> f[g[i]]]
  <2>2. h \in [CopiesIn(t) -> k.fresh] /\ Injective(h)
    BY <1>1, <1>2, <2>1 DEF Injective
  <2>3. QED BY <2>2 DEF CanCopyAll, Addresses
<1>5. QED BY <1>3, <1>4

\* An array and the part of it that is in A.
LEMMA AmongPart ==
  ASSUME NEW k, NEW s \in Seq(Item), NEW A, CanCopyAll(k, s)
  PROVE  CanCopyAll(k, Among(s, A))
<1> DEFINE t == Among(s, A)
<1>1. t \in Seq(Item) /\ \E e \in [DOMAIN t -> DOMAIN s] :
                           Injective(e) /\ \A j \in DOMAIN t : t[j] = s[e[j]]
  BY AmongMembers
<1> HIDE DEF t
<1>2. CanCopyAll(k, t)
  BY <1>1, CopyPart
<1>3. QED BY <1>2 DEF t

-----------------------------------------------------------------------------
(* Arrays of nodes and copies.                                             *)

\* the elements whose namespaces are in t
ElemsOf(k, t) == {k.elem[m] : m \in Members(t) \cap Copy}

\* r is the array s with nodes of N and new copies of namespaces of E
Adds(k, s, r, new, N, E) ==
  /\ new \subseteq k.fresh
  /\ r.k \in CopyHeap
  /\ r.k.fresh = k.fresh \ new /\ r.k.live = k.live \cup new
  /\ r.k.owned = k.owned /\ r.k.stray = k.stray
  /\ \A c \in Copy \ new : r.k.elem[c] = k.elem[c]
  /\ \A c \in new : r.k.elem[c] \in E
  /\ r.s \in Seq(Item)
  /\ Members(r.s) \cap Copy = (Members(s) \cap Copy) \cup new
  /\ Members(r.s) \cap Node \subseteq Members(s) \cup N

\* r is the array s with all that is in t: its nodes, and a new copy for every place
\* of a namespace
AddsAll(k, s, t, r) ==
  /\ \E new \in SUBSET k.fresh :
       /\ Adds(k, s, r, new, Members(t) \cap Node, ElemsOf(k, t))
       /\ IsFiniteSet(k.fresh) => Cardinality(new) = Cardinality(CopiesIn(t))
  /\ Members(r.s) \cap Node = (Members(s) \cup Members(t)) \cap Node
  /\ KeysOf(r.k, r.s) = KeysOf(k, s) \cup KeysOf(k, t)
  /\ Members(t) \subseteq Node => r.s = s \o t

\* g are the copies k and one more for each place i, at the fresh address f[i], of a
\* namespace of the element e[i]
Dups(k, g, I, f, e) ==
  /\ g \in CopyHeap
  /\ g.fresh = k.fresh \ Members(f) /\ g.live = k.live \cup Members(f)
  /\ g.owned = k.owned /\ g.stray = k.stray
  /\ Members(f) \subseteq k.fresh
  /\ \A c \in Copy \ Members(f) : g.elem[c] = k.elem[c]
  /\ \A i \in I : f[i] \in Members(f) /\ g.elem[f[i]] = e[i]

\* r.s is s with u, that is t with a copy, at the address f[i], of each namespace in it
Readdressed(k, s, t, f, e, u, r) ==
  /\ f \in [CopiesIn(t) -> k.fresh] /\ Injective(f)
  /\ u \in Seq(Item) /\ DOMAIN u = DOMAIN t
  /\ \A i \in DOMAIN t : t[i] \in Copy => u[i] = f[i]
  /\ \A i \in DOMAIN t : t[i] \notin Copy => u[i] = t[i]
  /\ \A i \in CopiesIn(t) : e[i] = k.elem[t[i]]
  /\ r.k = xmlXPathNodeSetDupNs(k, f, e) /\ r.s = s \o u

\* xmlXPathNodeSetDupNs makes one copy for every address.
LEMMA DupNsIs ==
  ASSUME NEW k \in CopyHeap, NEW I, NEW f \in [I -> k.fresh], Injective(f),
         NEW e, \A i \in I : e[i] \in Node \cup {NULL},
         NEW g, g = xmlXPathNodeSetDupNs(k, f, e)
  PROVE  Dups(k, g, I, f, e)
<1> DEFINE at(c) == CHOOSE i \in DOMAIN f : f[i] = c
           new == Members(f)
           elem == [c \in Copy |-> IF c \in new THEN e[at(c)] ELSE k.elem[c]]
<1>1. /\ k = [fresh |-> k.fresh, live |-> k.live, elem |-> k.elem, owned |-> k.owned,
              stray |-> k.stray]
      /\ k.fresh \subseteq Copy /\ k.live \subseteq Copy /\ k.elem \in [Copy -> Node \cup {NULL}]
      /\ k.owned \subseteq Copy /\ k.stray \subseteq Copy
  BY DEF CopyHeap
<1>2. g = [k EXCEPT !.fresh = k.fresh \ new, !.live = k.live \cup new, !.elem = elem]
  BY DEF xmlXPathNodeSetDupNs
<1>3. new \subseteq k.fresh /\ new \subseteq Copy /\ \A i \in I : f[i] \in new
  BY <1>1 DEF Members
<1>4. \A c \in new : at(c) \in I /\ f[at(c)] = c
  BY DEF Members
<1>5. \A i \in I : at(f[i]) = i
  BY <1>3, <1>4 DEF Injective
<1> HIDE DEF at, new
<1>6. elem \in [Copy -> Node \cup {NULL}]
  BY <1>1, <1>4
<1>7. /\ \A c \in Copy \ new : elem[c] = k.elem[c]
      /\ \A i \in I : elem[f[i]] = e[i]
  BY <1>3, <1>5
<1> HIDE DEF elem
<1>8. /\ g.fresh = k.fresh \ new /\ g.live = k.live \cup new /\ g.elem = elem
      /\ g.owned = k.owned /\ g.stray = k.stray
      /\ g = [fresh |-> g.fresh, live |-> g.live, elem |-> g.elem, owned |-> g.owned,
              stray |-> g.stray]
  BY <1>1, <1>2
<1>9. g \in CopyHeap
  BY <1>1, <1>3, <1>6, <1>8 DEF CopyHeap
<1>10. QED BY <1>3, <1>7, <1>8, <1>9 DEF new, Dups

\* The members of two arrays, one put after the other.
LEMMA ConcatMembers ==
  ASSUME NEW S, NEW s \in Seq(S), NEW t \in Seq(S)
  PROVE  /\ s \o t \in Seq(S)
         /\ Members(s \o t) = Members(s) \cup Members(t)
         /\ (Injective(s) /\ Injective(t) /\ Members(s) \cap Members(t) = {}) => Injective(s \o t)
         /\ DOMAIN (s \o t) = 1 .. Len(s) + Len(t)
         /\ \A i \in 1 .. Len(s) : (s \o t)[i] = s[i]
         /\ \A i \in 1 .. Len(t) : (s \o t)[Len(s) + i] = t[i]
<1> DEFINE m == Len(s)
           n == Len(t)
           c == s \o t
<1>1. /\ m \in Nat /\ n \in Nat /\ DOMAIN s = 1 .. m /\ DOMAIN t = 1 .. n
  BY MembersOfSeq
<1>2. c \in Seq(S) /\ DOMAIN c = 1 .. m + n
  OBVIOUS
<1>3. \A i \in 1 .. m + n : c[i] = IF i <= m THEN s[i] ELSE t[i - m]
  OBVIOUS
<1> HIDE DEF c, m, n
<1>4. \A i \in 1 .. m : i \in 1 .. m + n /\ c[i] = s[i]
  BY <1>1, <1>3
<1>5. \A i \in 1 .. n : m + i \in 1 .. m + n /\ c[m + i] = t[i]
  BY <1>1, <1>3
<1>6. \A i \in 1 .. m + n : \/ i \in 1 .. m /\ c[i] = s[i]
                            \/ i - m \in 1 .. n /\ c[i] = t[i - m]
  BY <1>1, <1>3
<1>7. Members(c) = Members(s) \cup Members(t)
  <2>1. \A x \in Members(c) : x \in Members(s) \cup Members(t)
    BY <1>1, <1>2, <1>6 DEF Members
  <2>2. \A x \in Members(s) : x \in Members(c)
    BY <1>1, <1>2, <1>4 DEF Members
  <2>3. \A x \in Members(t) : x \in Members(c)
    BY <1>1, <1>2, <1>5 DEF Members
  <2>4. QED BY <2>1, <2>2, <2>3
<1>8. ASSUME Injective(s), Injective(t), Members(s) \cap Members(t) = {} PROVE Injective(c)
  <2>1. SUFFICES ASSUME NEW i \in 1 .. m + n, NEW j \in 1 .. m + n, c[i] = c[j] PROVE i = j
    BY <1>2 DEF Injective
  <2>2. /\ \A x \in 1 .. m : s[x] \in Members(s)
        /\ \A x \in 1 .. n : t[x] \in Members(t)
    BY <1>1 DEF Members
  <2>3. CASE c[i] \in Members(s)
    <3>1. i \in 1 .. m /\ c[i] = s[i] /\ j \in 1 .. m /\ c[j] = s[j]
      BY <1>6, <1>8, <2>1, <2>2, <2>3
    <3>2. QED BY <1>1, <1>8, <2>1, <3>1 DEF Injective
  <2>4. CASE c[i] \notin Members(s)
    <3>1. i - m \in 1 .. n /\ c[i] = t[i - m] /\ j - m \in 1 .. n /\ c[j] = t[j - m]
      BY <1>6, <1>8, <2>1, <2>2, <2>4
    <3>2. i - m = j - m
      BY <1>1, <1>8, <2>1, <3>1 DEF Injective
    <3>3. QED BY <1>1, <3>2
  <2>5. QED BY <2>3, <2>4
<1>9. QED BY <1>2, <1>4, <1>5, <1>7, <1>8 DEF c, m, n

\* The array s with u, that is t with a new copy of each namespace in it.
LEMMA AddedTo ==
  ASSUME NEW k \in CopyHeap, NEW s \in Seq(Item), NEW t \in Seq(Item),
         (Members(s) \cup Members(t)) \cap k.fresh = {},
         NEW f, NEW e, NEW u, NEW r, Readdressed(k, s, t, f, e, u, r)
  PROVE  AddsAll(k, s, t, r)
<1> DEFINE new == Members(f)
<1>1. /\ f \in [CopiesIn(t) -> k.fresh] /\ Injective(f)
      /\ u \in Seq(Item) /\ DOMAIN u = DOMAIN t
      /\ \A i \in DOMAIN t : t[i] \in Copy => u[i] = f[i]
      /\ \A i \in DOMAIN t : t[i] \notin Copy => u[i] = t[i]
      /\ \A i \in CopiesIn(t) : e[i] = k.elem[t[i]]
      /\ r.k = xmlXPathNodeSetDupNs(k, f, e) /\ r.s = s \o u
  BY DEF Readdressed
<1>2. /\ k.fresh \subseteq Copy /\ k.elem \in [Copy -> Node \cup {NULL}]
      /\ Copy \cap Node = {}
  BY CopiesAreNoObjects DEF CopyHeap
<1>3. /\ \A i \in DOMAIN t : t[i] \in Item /\ t[i] \in Members(t)
      /\ \A i \in CopiesIn(t) : i \in DOMAIN t /\ t[i] \in Copy
      /\ \A i \in DOMAIN t : t[i] \in Copy => i \in CopiesIn(t)
      /\ \A m \in Members(t) : \E i \in DOMAIN t : t[i] = m
  BY MembersOfSeq DEF CopiesIn
<1>4. \A i \in CopiesIn(t) : e[i] = k.elem[t[i]] /\ e[i] \in Node \cup {NULL}
  BY <1>1, <1>2, <1>3
<1>6. /\ r.k \in CopyHeap
      /\ r.k.fresh = k.fresh \ new /\ r.k.live = k.live \cup new
      /\ r.k.owned = k.owned /\ r.k.stray = k.stray
      /\ new \subseteq k.fresh
      /\ \A c \in Copy \ new : r.k.elem[c] = k.elem[c]
      /\ \A i \in CopiesIn(t) : f[i] \in new /\ r.k.elem[f[i]] = e[i]
  <2>1. r.k = xmlXPathNodeSetDupNs(k, f, e)
    BY <1>1
  <2>2. \A i \in CopiesIn(t) : e[i] \in Node \cup {NULL}
    BY <1>4
  <2>3. Dups(k, r.k, CopiesIn(t), f, e)
    BY <1>1, <2>1, <2>2, DupNsIs
  <2>4. QED BY <2>3 DEF Dups
<1>7. \A c \in new : \E i \in CopiesIn(t) : c = f[i]
  BY <1>1 DEF Members
<1> HIDE DEF new
<1>8. r.s \in Seq(Item) /\ Members(r.s) = Members(s) \cup Members(u)
  BY <1>1, ConcatMembers
<1>9. /\ \A i \in DOMAIN t : t[i] \in Copy => u[i] = f[i]
      /\ \A i \in DOMAIN t : t[i] \in Node => u[i] = t[i]
  BY <1>1, <1>2
<1>10. \A m : m \in Members(u) <=> \E i \in DOMAIN t : u[i] = m
  BY <1>1 DEF Members
<1>11. Members(u) \cap Copy = new
  <2>1. ASSUME NEW m \in Members(u), m \in Copy PROVE m \in new
    <3>1. PICK i \in DOMAIN t : u[i] = m
      BY <1>10
    <3>2. t[i] \in Copy
      BY <1>2, <1>3, <1>9, <2>1, <3>1 DEF Item
    <3>3. QED BY <1>3, <1>6, <1>9, <3>1, <3>2
  <2>2. ASSUME NEW c \in new PROVE c \in Members(u) \cap Copy
    BY <1>2, <1>3, <1>6, <1>7, <1>9, <1>10, <2>2
  <2>3. QED BY <2>1, <2>2
<1>12. Members(u) \cap Node = Members(t) \cap Node
  <2>1. ASSUME NEW m \in Members(u), m \in Node PROVE m \in Members(t)
    <3>1. PICK i \in DOMAIN t : u[i] = m
      BY <1>10
    <3>2. t[i] \in Node
      <4>1. t[i] \in Copy => u[i] \in Copy
        BY <1>2, <1>3, <1>6, <1>9
      <4>2. QED BY <1>2, <1>3, <2>1, <3>1, <4>1 DEF Item
    <3>3. QED BY <1>3, <1>9, <3>1, <3>2
  <2>2. ASSUME NEW m \in Members(t), m \in Node PROVE m \in Members(u)
    BY <1>3, <1>9, <1>10, <2>2
  <2>3. QED BY <2>1, <2>2
<1>13. \A c \in new : r.k.elem[c] \in ElemsOf(k, t)
  <2>1. SUFFICES ASSUME NEW c \in new PROVE r.k.elem[c] \in ElemsOf(k, t)
    OBVIOUS
  <2>2. PICK i \in CopiesIn(t) : c = f[i]
    BY <1>7
  <2>3. r.k.elem[c] = k.elem[t[i]] /\ t[i] \in Members(t) \cap Copy
    BY <1>3, <1>4, <1>6, <2>2
  <2>4. QED BY <2>3 DEF ElemsOf
<1>14. Adds(k, s, r, new, Members(t) \cap Node, ElemsOf(k, t))
  BY <1>6, <1>8, <1>11, <1>12, <1>13 DEF Adds
<1>15. IsFiniteSet(k.fresh) => Cardinality(new) = Cardinality(CopiesIn(t))
  BY <1>1, InjectionBound DEF new
<1>16. Members(r.s) \cap Node = (Members(s) \cup Members(t)) \cap Node
  BY <1>8, <1>12
<1>17. KeysOf(r.k, r.s) = KeysOf(k, s) \cup KeysOf(k, t)
  <2>1. \A m \in Members(s) \cup Members(t) : m \in Item /\ m \notin new
    BY <1>6, MembersOfSeq
  <2>2. \A m \in Item : m \notin new => Key(r.k, m) = Key(k, m)
    BY <1>6 DEF Key
  <2>3. \A i \in CopiesIn(t) : Key(r.k, f[i]) = Key(k, t[i])
    <3>1. SUFFICES ASSUME NEW i \in CopiesIn(t) PROVE Key(r.k, f[i]) = Key(k, t[i])
      OBVIOUS
    <3>2. f[i] \in Copy /\ t[i] \in Copy /\ r.k.elem[f[i]] = k.elem[t[i]]
      BY <1>2, <1>3, <1>4, <1>6
    <3>3. QED BY <3>2 DEF Key
  <2>4. \A i \in DOMAIN t : Key(r.k, u[i]) = Key(k, t[i])
    <3>1. SUFFICES ASSUME NEW i \in DOMAIN t PROVE Key(r.k, u[i]) = Key(k, t[i])
      OBVIOUS
    <3>2. CASE t[i] \in Copy
      BY <1>3, <1>9, <2>3, <3>2
    <3>3. CASE t[i] \in Node
      BY <1>3, <1>9, <2>1, <2>2, <3>3
    <3>4. QED BY <1>3, <3>2, <3>3 DEF Item
  <2>5. ASSUME NEW x \in KeysOf(r.k, r.s) PROVE x \in KeysOf(k, s) \cup KeysOf(k, t)
    <3>1. PICK m \in Members(r.s) : x = Key(r.k, m)
      BY DEF KeysOf
    <3>2. CASE m \in Members(s)
      BY <2>1, <2>2, <3>1, <3>2 DEF KeysOf
    <3>3. CASE m \in Members(u)
      <4>1. PICK i \in DOMAIN t : u[i] = m
        BY <1>10, <3>3
      <4>2. x = Key(k, t[i]) /\ t[i] \in Members(t)
        BY <1>3, <2>4, <3>1, <4>1
      <4>3. QED BY <4>2 DEF KeysOf
    <3>4. QED BY <1>8, <3>1, <3>2, <3>3
  <2>6. ASSUME NEW x \in KeysOf(k, s) PROVE x \in KeysOf(r.k, r.s)
    <3>1. PICK m \in Members(s) : x = Key(k, m)
      BY DEF KeysOf
    <3>2. QED BY <1>8, <2>1, <2>2, <3>1 DEF KeysOf
  <2>7. ASSUME NEW x \in KeysOf(k, t) PROVE x \in KeysOf(r.k, r.s)
    <3>1. PICK m \in Members(t) : x = Key(k, m)
      BY DEF KeysOf
    <3>2. PICK i \in DOMAIN t : t[i] = m
      BY <1>3, <3>1
    <3>3. x = Key(r.k, u[i]) /\ u[i] \in Members(r.s)
      BY <1>8, <1>10, <2>4, <3>1, <3>2
    <3>4. QED BY <3>3 DEF KeysOf
  <2>8. QED BY <2>5, <2>6, <2>7
<1>18. ASSUME Members(t) \subseteq Node PROVE r.s = s \o t
  <2>1. \A i \in DOMAIN t : u[i] = t[i]
    BY <1>3, <1>9, <1>18
  <2>2. u = t
    <3>1. u = [i \in DOMAIN t |-> u[i]] /\ t = [i \in DOMAIN t |-> t[i]]
      BY <1>1
    <3>2. QED BY <2>1, <3>1
  <2>3. QED BY <1>1, <2>2
<1>19. new \in SUBSET k.fresh
  BY <1>6
<1>20. QED BY <1>14, <1>15, <1>16, <1>17, <1>18, <1>19 DEF AddsAll

\* xmlXPathNodeSetAddUnique: what it adds, and what the members of the result stand
\* for.
LEMMA AddUniqueAdds ==
  ASSUME NEW k \in CopyHeap, NEW s \in Seq(Item), NEW t \in Seq(Item), CanCopyAll(k, t),
         (Members(s) \cup Members(t)) \cap k.fresh = {},
         NEW r, r = xmlXPathNodeSetAddUnique(k, s, t)
  PROVE  AddsAll(k, s, t, r)
<1> DEFINE f == CHOOSE g \in Addresses(k, CopiesIn(t)) : TRUE
           e == [i \in CopiesIn(t) |-> k.elem[t[i]]]
           u == [i \in DOMAIN t |-> IF t[i] \in Copy THEN f[i] ELSE t[i]]
<1>1. f \in [CopiesIn(t) -> k.fresh] /\ Injective(f)
  BY DEF CanCopyAll, Addresses
<1>2. r.k = xmlXPathNodeSetDupNs(k, f, e) /\ r.s = s \o u
  BY DEF xmlXPathNodeSetAddUnique
<1> HIDE DEF f
<1>3. k.fresh \subseteq Copy
  BY DEF CopyHeap
<1>4. \A i \in DOMAIN t : t[i] \in Item
  BY MembersOfSeq
<1>5. \A i \in DOMAIN t : u[i] \in Item
  BY <1>1, <1>3, <1>4 DEF CopiesIn, Item
<1>6. u \in Seq(Item)
  <2>1. Len(t) \in Nat /\ DOMAIN t = 1 .. Len(t)
    BY MembersOfSeq
  <2>2. u \in [1 .. Len(t) -> Item]
    BY <1>5, <2>1
  <2>3. QED BY <2>1, <2>2, SeqDef
<1>7. /\ DOMAIN u = DOMAIN t
      /\ \A i \in DOMAIN t : t[i] \in Copy => u[i] = f[i]
      /\ \A i \in DOMAIN t : t[i] \notin Copy => u[i] = t[i]
      /\ \A i \in CopiesIn(t) : e[i] = k.elem[t[i]]
  OBVIOUS
<1> HIDE DEF e, u
<1>8. Readdressed(k, s, t, f, e, u, r)
  BY <1>1, <1>2, <1>6, <1>7 DEF Readdressed
<1>9. QED BY <1>8, AddedTo

-----------------------------------------------------------------------------
(* The operations on arrays.                                               *)

\* no member of s is an address that is not allocated
NotFresh(k, s) == s \in Seq(Item) /\ Members(s) \cap k.fresh = {}

\* r is s with nodes and new copies of what is in t: no more copies than t has
\* namespaces, and all that t stands for
MergedFrom(k, s, t, r) ==
  /\ \E new \in SUBSET k.fresh :
       /\ Adds(k, s, r, new, Members(t) \cap Node, ElemsOf(k, t))
       /\ Cardinality(new) <= Cardinality(CopiesIn(t))
  /\ KeysOf(r.k, r.s) = KeysOf(k, s) \cup KeysOf(k, t)
  /\ (Members(s) \cup Members(t) \subseteq Node /\ Injective(s) /\ Injective(t)) => Injective(r.s)

\* t are the members of s that are in A
PartOf(k, s, A, t) ==
  /\ t \in Seq(Item) /\ Members(t) = Members(s) \cap A
  /\ KeysOf(k, t) = {Key(k, m) : m \in Members(s) \cap A}
  /\ ElemsOf(k, t) \subseteq ElemsOf(k, s)
  /\ Injective(s) => Injective(t)

\* r is s with the part u of t
AddedPart(k, s, t, u, r) ==
  /\ \E new \in SUBSET k.fresh :
       /\ Adds(k, s, r, new, Members(t) \cap Node, ElemsOf(k, t))
       /\ Cardinality(new) <= Cardinality(CopiesIn(t))
  /\ KeysOf(r.k, r.s) = KeysOf(k, s) \cup KeysOf(k, u)
  /\ Members(u) \subseteq Node => r.s = s \o u

\* The empty array has no members.
LEMMA EmptyArray ==
  /\ <<>> \in Seq(Item) /\ Members(<<>>) = {} /\ Injective(<<>>)
  /\ \A k : KeysOf(k, <<>>) = {}
BY DEF Members, Injective, KeysOf

\* There are finitely many addresses left.
LEMMA FreshIsFinite ==
  ASSUME NEW k \in CopyHeap
  PROVE  IsFiniteSet(k.fresh) /\ Cardinality(k.fresh) \in Nat
<1>1. k.fresh \subseteq Copy
  BY DEF CopyHeap
<1>2. QED BY <1>1, FiniteMemory, FS_Subset, FS_CardinalityType

\* An array contains a member if and only if it contains what the member stands for.
LEMMA ContainsIs ==
  ASSUME NEW k, NEW s \in Seq(Item), NEW m \in Item
  PROVE  xmlXPathNodeSetContains(k, s, m) <=> Key(k, m) \in KeysOf(k, s)
<1>1. /\ \A i \in DOMAIN s : s[i] \in Item /\ s[i] \in Members(s)
      /\ \A x \in Members(s) : \E i \in DOMAIN s : s[i] = x
  BY MembersOfSeq
<1>2. \A a, b \in Item : Same(k, a, b) <=> Key(k, a) = Key(k, b)
  <2>1. SUFFICES ASSUME NEW a \in Item, NEW b \in Item
                 PROVE  Same(k, a, b) <=> Key(k, a) = Key(k, b)
    OBVIOUS
  <2>2. CASE a \in Copy /\ b \in Copy
    BY <2>2 DEF Same, Key
  <2>3. CASE a \notin Copy /\ b \notin Copy
    BY <2>3 DEF Same, Key
  <2>4. CASE a \in Copy /\ b \notin Copy
    BY <2>4 DEF Same, Key
  <2>5. CASE a \notin Copy /\ b \in Copy
    BY <2>5 DEF Same, Key
  <2>6. QED BY <2>2, <2>3, <2>4, <2>5
<1>3. ASSUME xmlXPathNodeSetContains(k, s, m) PROVE Key(k, m) \in KeysOf(k, s)
  <2>1. PICK i \in DOMAIN s : Same(k, s[i], m)
    BY <1>3 DEF xmlXPathNodeSetContains
  <2>2. Key(k, s[i]) = Key(k, m) /\ s[i] \in Members(s)
    BY <1>1, <1>2, <2>1
  <2>3. QED BY <2>2 DEF KeysOf
<1>4. ASSUME Key(k, m) \in KeysOf(k, s) PROVE xmlXPathNodeSetContains(k, s, m)
  <2>1. PICK x \in Members(s) : Key(k, m) = Key(k, x)
    BY <1>4 DEF KeysOf
  <2>2. PICK i \in DOMAIN s : s[i] = x
    BY <1>1
  <2>3. Same(k, s[i], m)
    BY <1>1, <1>2, <2>1, <2>2
  <2>4. QED BY <2>3 DEF xmlXPathNodeSetContains
<1>5. QED BY <1>3, <1>4

\* What the members of s that are in A stand for.
LEMMA AmongKeys ==
  ASSUME NEW k, NEW s \in Seq(Item), NEW A, NEW t, t = Among(s, A)
  PROVE  PartOf(k, s, A, t)
<1>1. t \in Seq(Item) /\ Members(t) = Members(s) \cap A /\ (Injective(s) => Injective(t))
  BY AmongMembers
<1>2. QED BY <1>1 DEF KeysOf, ElemsOf, PartOf

\* An array of copies with smaller arrays: more copies and more nodes may be added.
LEMMA AddsMore ==
  ASSUME NEW k, NEW s, NEW r, NEW new, NEW N, NEW E, NEW N2, NEW E2,
         Adds(k, s, r, new, N, E), N \subseteq N2, E \subseteq E2
  PROVE  Adds(k, s, r, new, N2, E2)
BY DEF Adds

\* Two additions, one after the other, are an addition.
LEMMA AddsThen ==
  ASSUME NEW k \in CopyHeap, NEW s, NEW r, NEW new, NEW N, NEW E,
         Adds(k, s, r, new, N, E),
         NEW q, NEW new2, NEW N2, NEW E2, Adds(r.k, r.s, q, new2, N2, E2)
  PROVE  Adds(k, s, q, new \cup new2, N \cup N2, E \cup E2)
<1>1. k.fresh \subseteq Copy
  BY DEF CopyHeap
<1>2. new2 \cap new = {} /\ new2 \subseteq k.fresh /\ new \subseteq k.fresh
  BY DEF Adds
<1>3. /\ \A c \in Copy \ (new \cup new2) : q.k.elem[c] = k.elem[c]
      /\ \A c \in new : q.k.elem[c] \in E
      /\ \A c \in new2 : q.k.elem[c] \in E2
  BY <1>1, <1>2 DEF Adds
<1>4. /\ q.k \in CopyHeap /\ q.s \in Seq(Item)
      /\ q.k.fresh = k.fresh \ (new \cup new2) /\ q.k.live = k.live \cup (new \cup new2)
      /\ q.k.owned = k.owned /\ q.k.stray = k.stray
  BY DEF Adds
<1>5. /\ Members(q.s) \cap Copy = (Members(s) \cap Copy) \cup (new \cup new2)
      /\ Members(q.s) \cap Node \subseteq Members(s) \cup (N \cup N2)
  BY DEF Adds
<1>6. QED BY <1>2, <1>3, <1>4, <1>5 DEF Adds

\* What an array of allocated members stands for is the same after an addition.
LEMMA AddsKeeps ==
  ASSUME NEW k \in CopyHeap, NEW s, NEW r, NEW new, NEW N, NEW E,
         Adds(k, s, r, new, N, E), NEW t, NotFresh(k, t)
  PROVE  /\ KeysOf(r.k, t) = KeysOf(k, t) /\ ElemsOf(r.k, t) = ElemsOf(k, t)
         /\ NotFresh(r.k, t)
<1>1. \A m \in Members(t) : m \in Item /\ m \notin new
  BY MembersOfSeq DEF NotFresh, Adds
<1>2. \A m \in Members(t) : m \in Copy => r.k.elem[m] = k.elem[m]
  BY <1>1 DEF Adds
<1>3. \A m \in Members(t) : Key(r.k, m) = Key(k, m)
  BY <1>2 DEF Key
<1>4. NotFresh(r.k, t)
  BY DEF NotFresh, Adds
<1>5. KeysOf(r.k, t) = KeysOf(k, t)
  BY <1>3 DEF KeysOf
<1>6. ElemsOf(r.k, t) = ElemsOf(k, t)
  <2>1. \A m \in Members(t) \cap Copy : r.k.elem[m] = k.elem[m]
    BY <1>2
  <2>2. QED BY <2>1 DEF ElemsOf
<1>7. QED BY <1>4, <1>5, <1>6

\* The members of t that are in A are added to s.
LEMMA AddsAmong ==
  ASSUME NEW k \in CopyHeap, NEW s, NotFresh(k, s), NEW t, NotFresh(k, t),
         CanCopyAll(k, t), NEW A, NEW u, u = Among(t, A),
         NEW r, r = xmlXPathNodeSetAddUnique(k, s, u)
  PROVE  AddedPart(k, s, t, u, r)
<1>1. /\ s \in Seq(Item) /\ t \in Seq(Item)
      /\ (Members(s) \cup Members(t)) \cap k.fresh = {}
  BY DEF NotFresh
<1>2. /\ u \in Seq(Item) /\ Members(u) = Members(t) \cap A
      /\ ElemsOf(k, u) \subseteq ElemsOf(k, t)
  BY <1>1, AmongKeys DEF PartOf
<1>3. CanCopyAll(k, u)
  BY <1>1, AmongPart
<1>4. Cardinality(CopiesIn(u)) <= Cardinality(CopiesIn(t))
  <2>1. PICK e \in [DOMAIN u -> DOMAIN t] :
                Injective(e) /\ \A j \in DOMAIN u : u[j] = t[e[j]]
    BY <1>1, AmongMembers, SMTT(30)
  <2>2. QED BY <1>1, <1>2, <2>1, CopyPart
<1>5. (Members(s) \cup Members(u)) \cap k.fresh = {}
  BY <1>1, <1>2
<1>6. AddsAll(k, s, u, r)
  BY <1>1, <1>2, <1>3, <1>5, AddUniqueAdds
<1>7. PICK new \in SUBSET k.fresh :
        /\ Adds(k, s, r, new, Members(u) \cap Node, ElemsOf(k, u))
        /\ IsFiniteSet(k.fresh) => Cardinality(new) = Cardinality(CopiesIn(u))
  BY <1>6 DEF AddsAll
<1>8. Adds(k, s, r, new, Members(t) \cap Node, ElemsOf(k, t))
  BY <1>2, <1>7, AddsMore
<1>9. Cardinality(new) <= Cardinality(CopiesIn(t))
  BY <1>4, <1>7, FreshIsFinite
<1>10. /\ KeysOf(r.k, r.s) = KeysOf(k, s) \cup KeysOf(k, u)
       /\ Members(u) \subseteq Node => r.s = s \o u
  BY <1>6 DEF AddsAll
<1>11. QED BY <1>8, <1>9, <1>10 DEF AddedPart

\* xmlXPathNodeSetMerge adds what is missing.
LEMMA MergeIs ==
  ASSUME NEW k \in CopyHeap, NEW s, NotFresh(k, s), NEW t, NotFresh(k, t),
         CanCopyAll(k, t), NEW r, r = xmlXPathNodeSetMerge(k, s, t)
  PROVE  MergedFrom(k, s, t, r)
<1> DEFINE A == {m \in Item : ~xmlXPathNodeSetContains(k, s, m)}
           u == Among(t, A)
<1>1. s \in Seq(Item) /\ t \in Seq(Item)
  BY DEF NotFresh
<1>2. r = xmlXPathNodeSetAddUnique(k, s, u)
  BY DEF xmlXPathNodeSetMerge
<1>3. \A m \in Item : m \in A <=> Key(k, m) \notin KeysOf(k, s)
  BY <1>1, ContainsIs
<1>4. /\ \A m \in Members(t) : m \in Item
      /\ \A m \in Members(s) : m \in Item
  BY <1>1, MembersOfSeq
<1> HIDE DEF A
<1>5. /\ u \in Seq(Item) /\ Members(u) = Members(t) \cap A
      /\ KeysOf(k, u) = {Key(k, m) : m \in Members(t) \cap A}
      /\ Injective(t) => Injective(u)
  <2>1. PartOf(k, t, A, u)
    BY <1>1, AmongKeys
  <2>2. QED BY <2>1 DEF PartOf
<1> HIDE DEF u
<1>6. /\ \E new \in SUBSET k.fresh :
           /\ Adds(k, s, r, new, Members(t) \cap Node, ElemsOf(k, t))
           /\ Cardinality(new) <= Cardinality(CopiesIn(t))
      /\ KeysOf(r.k, r.s) = KeysOf(k, s) \cup KeysOf(k, u)
      /\ Members(u) \subseteq Node => r.s = s \o u
  <2>1. AddedPart(k, s, t, u, r)
    BY <1>2, AddsAmong DEF u
  <2>2. QED BY <2>1 DEF AddedPart
<1>7. KeysOf(k, s) \cup KeysOf(k, u) = KeysOf(k, s) \cup KeysOf(k, t)
  <2>1. \A x \in KeysOf(k, u) : x \in KeysOf(k, t)
    BY <1>5 DEF KeysOf
  <2>2. ASSUME NEW x \in KeysOf(k, t), x \notin KeysOf(k, s) PROVE x \in KeysOf(k, u)
    <3>1. PICK m \in Members(t) : x = Key(k, m)
      BY DEF KeysOf
    <3>2. m \in A
      BY <1>3, <1>4, <2>2, <3>1
    <3>3. QED BY <1>5, <3>1, <3>2
  <2>3. QED BY <2>1, <2>2
<1>8. ASSUME Members(s) \cup Members(t) \subseteq Node, Injective(s), Injective(t)
      PROVE  Injective(r.s)
  <2>1. \A m \in Members(s) : m \notin A
    BY <1>3, <1>4 DEF KeysOf
  <2>2. Members(s) \cap Members(u) = {}
    BY <1>5, <2>1
  <2>3. r.s = s \o u
    BY <1>5, <1>6, <1>8
  <2>4. QED BY <1>1, <1>5, <1>8, <2>2, <2>3, ConcatMembers
<1>9. QED BY <1>6, <1>7, <1>8 DEF MergedFrom

\* r.s are nodes of N and new copies of namespaces of E
Gathered(k, r, N, E) == \E new \in SUBSET k.fresh : Adds(k, <<>>, r, new, N, E)

\* If the copies of two arrays have room, those of the second have room once those of
\* the first are made.
LEMMA ConcatRoom ==
  ASSUME NEW k \in CopyHeap, NEW s \in Seq(Item), NEW t \in Seq(Item), CanCopyAll(k, s \o t)
  PROVE  /\ CanCopyAll(k, s) /\ CanCopyAll(k, t)
         /\ \A new \in SUBSET k.fresh, g \in CopyHeap :
              /\ Cardinality(new) <= Cardinality(CopiesIn(s))
              /\ g.fresh = k.fresh \ new
              => CanCopyAll(g, t)
<1> DEFINE c == s \o t
           m == Len(s)
           shift == [i \in CopiesIn(t) |-> m + i]
           a == CopiesIn(s)
           b == CopiesIn(t)
<1>1. /\ c \in Seq(Item)
      /\ DOMAIN c = 1 .. m + Len(t)
      /\ \A i \in 1 .. m : c[i] = s[i]
      /\ \A i \in 1 .. Len(t) : c[m + i] = t[i]
  BY ConcatMembers
<1>2. m \in Nat /\ Len(t) \in Nat /\ DOMAIN s = 1 .. m /\ DOMAIN t = 1 .. Len(t)
  BY MembersOfSeq
<1> HIDE DEF c, m
<1>3. \A i \in a : i \in CopiesIn(c) /\ i \in 1 .. m
  BY <1>1, <1>2 DEF CopiesIn
<1>4. \A i \in b : m + i \in CopiesIn(c) /\ m + i \notin 1 .. m /\ i \in Nat
  BY <1>1, <1>2 DEF CopiesIn
<1>5. shift \in [b -> CopiesIn(c)] /\ Injective(shift)
  BY <1>2, <1>4 DEF Injective
<1>6. \A x \in Members(shift) : x \notin 1 .. m
  BY <1>4 DEF Members
<1>7. /\ Cardinality(CopiesIn(c)) <= Cardinality(k.fresh)
      /\ IsFiniteSet(CopiesIn(c)) /\ IsFiniteSet(a) /\ IsFiniteSet(b)
  BY <1>1, CanCopyIs, FreshIsFinite DEF c
<1>8. /\ Cardinality(Members(shift)) = Cardinality(b)
      /\ Members(shift) \subseteq CopiesIn(c) /\ IsFiniteSet(Members(shift))
  BY <1>5, <1>7, InjectionBound
<1> HIDE DEF shift, a, b
<1>9. a \cap Members(shift) = {} /\ a \cup Members(shift) \subseteq CopiesIn(c)
  BY <1>3, <1>6, <1>8
<1>10. /\ Cardinality(a \cup Members(shift)) <= Cardinality(CopiesIn(c))
       /\ Cardinality(CopiesIn(c)) \in Nat
  BY <1>7, <1>9, FS_Subset, FS_CardinalityType
<1>11. Cardinality(a \cup Members(shift)) = Cardinality(a) + Cardinality(b)
  <2>1. Cardinality(a \cap Members(shift)) = 0
    BY <1>9, FS_EmptySet
  <2>2. /\ Cardinality(a) \in Nat /\ Cardinality(b) \in Nat
        /\ Cardinality(a \cup Members(shift))
             = Cardinality(a) + Cardinality(Members(shift)) - Cardinality(a \cap Members(shift))
    BY <1>7, <1>8, FS_Union, FS_CardinalityType
  <2>3. QED BY <1>8, <2>1, <2>2
<1>12. Cardinality(a) + Cardinality(b) <= Cardinality(k.fresh)
       /\ Cardinality(a) \in Nat /\ Cardinality(b) \in Nat /\ Cardinality(k.fresh) \in Nat
  BY <1>7, <1>10, <1>11, FS_CardinalityType, FreshIsFinite
<1>13. CanCopyAll(k, s) /\ CanCopyAll(k, t)
  BY <1>12, FreshIsFinite, CanCopyIs DEF a, b
<1>14. ASSUME NEW new \in SUBSET k.fresh, NEW g \in CopyHeap,
              Cardinality(new) <= Cardinality(a), g.fresh = k.fresh \ new
       PROVE  CanCopyAll(g, t)
  <2>1. /\ Cardinality(k.fresh \ new) = Cardinality(k.fresh) - Cardinality(k.fresh \cap new)
        /\ IsFiniteSet(k.fresh \ new) /\ Cardinality(new) \in Nat
    <3>1. IsFiniteSet(k.fresh)
      BY FreshIsFinite
    <3>2. Cardinality(k.fresh \ new) = Cardinality(k.fresh) - Cardinality(k.fresh \cap new)
      BY <3>1, FS_Difference
    <3>3. IsFiniteSet(k.fresh \ new)
      BY <3>1, FS_Difference
    <3>4. Cardinality(new) \in Nat
      BY <3>1, <1>14, FS_Subset, FS_CardinalityType
    <3>5. QED BY <3>2, <3>3, <3>4
  <2>2. k.fresh \cap new = new
    OBVIOUS
  <2>3. Cardinality(b) <= Cardinality(g.fresh)
    <3>1. Cardinality(g.fresh) = Cardinality(k.fresh) - Cardinality(new)
      BY <1>14, <2>1, <2>2
    <3>2. Cardinality(new) <= Cardinality(a)
      BY <1>14
    <3>3. QED BY <1>12, <2>1, <3>1, <3>2
  <2>4. QED BY <1>14, <2>1, <2>3, CanCopyIs DEF b
<1>15. QED BY <1>13, <1>14 DEF a

\* The intersection is made of what the first array holds.
LEMMA IntersectionIs ==
  ASSUME NEW k \in CopyHeap, NEW s, NotFresh(k, s), NEW t, NotFresh(k, t),
         CanCopyAll(k, s), NEW r, r = intersection(k, s, t)
  PROVE  /\ Gathered(k, r, Members(s) \cap Node, ElemsOf(k, s))
         /\ KeysOf(r.k, r.s) = KeysOf(k, s) \cap KeysOf(k, t)
<1> DEFINE A == {m \in Item : xmlXPathNodeSetContains(k, t, m)}
           u == Among(s, A)
<1>1. s \in Seq(Item) /\ t \in Seq(Item) /\ NotFresh(k, <<>>)
  BY EmptyArray DEF NotFresh
<1>2. r = xmlXPathNodeSetAddUnique(k, <<>>, u)
  BY DEF intersection, xmlXPathIntersection
<1>3. \A m \in Item : m \in A <=> Key(k, m) \in KeysOf(k, t)
  BY <1>1, ContainsIs
<1>4. \A m \in Members(s) : m \in Item
  BY <1>1, MembersOfSeq
<1> HIDE DEF A
<1>5. PartOf(k, s, A, u)
  BY <1>1, AmongKeys
<1>6. AddedPart(k, <<>>, s, u, r)
  BY <1>1, <1>2, AddsAmong
<1> HIDE DEF u
<1>7. KeysOf(k, u) = KeysOf(k, s) \cap KeysOf(k, t)
  <2>1. KeysOf(k, u) = {Key(k, m) : m \in Members(s) \cap A}
    BY <1>5 DEF PartOf
  <2>2. \A x \in KeysOf(k, u) : x \in KeysOf(k, s) /\ x \in KeysOf(k, t)
    BY <1>3, <1>4, <2>1 DEF KeysOf
  <2>3. ASSUME NEW x \in KeysOf(k, s), x \in KeysOf(k, t) PROVE x \in KeysOf(k, u)
    <3>1. PICK m \in Members(s) : x = Key(k, m)
      BY DEF KeysOf
    <3>2. m \in A
      BY <1>3, <1>4, <2>3, <3>1
    <3>3. QED BY <2>1, <3>1, <3>2
  <2>4. QED BY <2>2, <2>3
<1>8. QED BY <1>6, <1>7, EmptyArray DEF AddedPart, Gathered

\* The union is made of what either holds, and of nodes it holds each once.
LEMMA UnionIs ==
  ASSUME NEW k \in CopyHeap, NEW s, NotFresh(k, s), NEW t, NotFresh(k, t),
         CanCopyAll(k, s \o t), NEW r, r = rb_xml_node_set_union(k, s, t)
  PROVE  /\ Gathered(k, r, (Members(s) \cup Members(t)) \cap Node, ElemsOf(k, s) \cup ElemsOf(k, t))
         /\ KeysOf(r.k, r.s) = KeysOf(k, s) \cup KeysOf(k, t)
         /\ (Members(s) \cup Members(t) \subseteq Node /\ Injective(s) /\ Injective(t))
              => Injective(r.s)
<1> DEFINE q == xmlXPathNodeSetMerge(k, <<>>, s)
<1>1. s \in Seq(Item) /\ t \in Seq(Item) /\ NotFresh(k, <<>>)
  BY EmptyArray DEF NotFresh
<1>2. r = xmlXPathNodeSetMerge(q.k, q.s, t)
  BY DEF rb_xml_node_set_union
<1>3. MergedFrom(k, <<>>, s, q)
  BY <1>1, ConcatRoom, MergeIs
<1> HIDE DEF q
<1>4. PICK new \in SUBSET k.fresh : /\ Adds(k, <<>>, q, new, Members(s) \cap Node, ElemsOf(k, s))
                                    /\ Cardinality(new) <= Cardinality(CopiesIn(s))
  BY <1>3 DEF MergedFrom
<1>5. q.k \in CopyHeap /\ q.k.fresh = k.fresh \ new /\ q.s \in Seq(Item)
      /\ Members(q.s) \cap Copy = new /\ Members(q.s) \cap Node \subseteq Members(s)
  BY <1>4, EmptyArray DEF Adds
<1>6. CanCopyAll(q.k, t)
  BY <1>1, <1>4, <1>5, ConcatRoom
<1>7. /\ KeysOf(q.k, t) = KeysOf(k, t) /\ ElemsOf(q.k, t) = ElemsOf(k, t)
      /\ NotFresh(q.k, t)
  BY <1>4, AddsKeeps
<1>8. NotFresh(q.k, q.s)
  <2>1. q.k.fresh \subseteq Copy
    BY <1>5 DEF CopyHeap
  <2>2. QED BY <1>5, <2>1 DEF NotFresh
<1>9. MergedFrom(q.k, q.s, t, r)
  BY <1>2, <1>5, <1>6, <1>7, <1>8, MergeIs
<1>10. PICK new2 \in SUBSET q.k.fresh :
          Adds(q.k, q.s, r, new2, Members(t) \cap Node, ElemsOf(k, t))
  BY <1>7, <1>9 DEF MergedFrom
<1>11. Gathered(k, r, (Members(s) \cup Members(t)) \cap Node, ElemsOf(k, s) \cup ElemsOf(k, t))
  <2>1. Adds(k, <<>>, r, new \cup new2, (Members(s) \cap Node) \cup (Members(t) \cap Node),
             ElemsOf(k, s) \cup ElemsOf(k, t))
    BY <1>4, <1>10, AddsThen
  <2>2. new \cup new2 \in SUBSET k.fresh
    BY <1>5
  <2>3. (Members(s) \cap Node) \cup (Members(t) \cap Node) = (Members(s) \cup Members(t)) \cap Node
    OBVIOUS
  <2>4. QED BY <2>1, <2>2, <2>3 DEF Gathered
<1>12. KeysOf(r.k, r.s) = KeysOf(k, s) \cup KeysOf(k, t)
  BY <1>3, <1>7, <1>9, EmptyArray DEF MergedFrom
<1>13. ASSUME Members(s) \cup Members(t) \subseteq Node, Injective(s), Injective(t)
       PROVE  Injective(r.s)
  <2>1. Injective(q.s)
    BY <1>3, <1>13, EmptyArray DEF MergedFrom
  <2>2. Members(q.s) \subseteq Node
    <3>1. CopiesIn(s) = {}
      BY <1>1, <1>13, CopiesAreNoObjects, MembersOfSeq DEF CopiesIn
    <3>2. new = {}
      <4>1. Cardinality(new) <= 0
        BY <1>4, <3>1, FS_EmptySet
      <4>2. IsFiniteSet(new) /\ Cardinality(new) \in Nat
        BY FreshIsFinite, FS_Subset, FS_CardinalityType
      <4>3. Cardinality(new) = 0
        BY <4>1, <4>2
      <4>4. QED BY <4>2, <4>3, FS_EmptySet
    <3>3. \A m \in Members(q.s) : m \in Item
      BY <1>5, MembersOfSeq
    <3>4. QED BY <1>5, <3>2, <3>3 DEF Item
  <2>3. QED BY <1>9, <1>13, <2>1, <2>2 DEF MergedFrom
<1>14. QED BY <1>11, <1>12, <1>13

\* A member less: one of its places goes, and with it the member if it has no other.
LEMMA DelIs ==
  ASSUME NEW S, NEW s \in Seq(S), NEW m, NEW t, t = Without(s, m)
  PROVE  /\ t \in Seq(S)
         /\ Members(t) \subseteq Members(s) /\ Members(s) \ {m} \subseteq Members(t)
         /\ Injective(s) => Injective(t) /\ m \notin Members(t)
<1> DEFINE n == Len(s)
           k == Position(s, m)
           u == [i \in 1 .. n - 1 |-> IF i < k THEN s[i] ELSE s[i + 1]]
<1>1. n \in Nat /\ DOMAIN s = 1 .. n /\ \A i \in 1 .. n : s[i] \in Members(s) /\ s[i] \in S
  BY MembersOfSeq
<1>2. CASE m \in Members(s)
  <2>1. k \in 1 .. n /\ s[k] = m
    BY <1>2, PositionOfMember
  <2>2. t = u
    BY <1>2 DEF Without
  <2> HIDE DEF k
  <2>3. n - 1 \in Nat /\ DOMAIN u = 1 .. n - 1
    BY <1>1, <2>1
  <2>4. \A i \in 1 .. n - 1 : i \in 1 .. n /\ i + 1 \in 1 .. n
    BY <1>1
  <2>5. \A i \in 1 .. n - 1 : u[i] \in S /\ u[i] \in Members(s)
    BY <1>1, <2>4
  <2>6. u \in Seq(S)
    BY <2>3, <2>5, SeqDef
  <2>7. Members(u) \subseteq Members(s)
    BY <2>3, <2>5 DEF Members
  <2>8. ASSUME NEW x \in Members(s), x # m PROVE x \in Members(u)
    <3>1. PICK i \in 1 .. n : s[i] = x
      BY <1>1 DEF Members
    <3>2. i # k
      BY <2>1, <2>8, <3>1
    <3>3. CASE i < k
      <4>1. i \in 1 .. n - 1 /\ u[i] = x
        BY <1>1, <2>1, <3>1, <3>3
      <4>2. QED BY <2>3, <4>1 DEF Members
    <3>4. CASE i > k
      <4>1. i - 1 \in 1 .. n - 1 /\ u[i - 1] = x
        BY <1>1, <2>1, <3>1, <3>4
      <4>2. QED BY <2>3, <4>1 DEF Members
    <3>5. QED BY <1>1, <2>1, <3>2, <3>3, <3>4
  <2>9. ASSUME Injective(s) PROVE Injective(u) /\ m \notin Members(u)
    <3>1. \A i, j \in 1 .. n : s[i] = s[j] => i = j
      BY <1>1, <2>9 DEF Injective
    <3>2. \A i, j \in 1 .. n - 1 : u[i] = u[j] => i = j
      BY <1>1, <2>1, <2>4, <3>1
    <3>3. \A i \in 1 .. n - 1 : u[i] # m
      BY <1>1, <2>1, <2>4, <3>1
    <3> HIDE DEF u
    <3>4. QED BY <2>3, <3>2, <3>3 DEF Injective, Members
  <2>10. QED BY <2>2, <2>6, <2>7, <2>8, <2>9
<1>3. CASE m \notin Members(s)
  BY <1>3 DEF Without
<1>4. QED BY <1>2, <1>3

\* r is q without places of members of t, and without all of them if q has each once
Remains(q, t, r) ==
  /\ r.k = q.k /\ r.s \in Seq(Item)
  /\ Members(r.s) \subseteq Members(q.s) /\ Members(q.s) \ Members(t) \subseteq Members(r.s)
  /\ Injective(q.s) => Members(r.s) \cap Members(t) = {}

\* minus takes one place from the copy of s for each member of t.
LEMMA DelEachIs ==
  ASSUME NEW k, NEW s, NEW t \in Seq(Item), xmlXPathNodeSetMerge(k, <<>>, s).s \in Seq(Item)
  PROVE  Remains(xmlXPathNodeSetMerge(k, <<>>, s), t, minus(k, s, t))
<1> DEFINE q == xmlXPathNodeSetMerge(k, <<>>, s)
           r == minus(k, s, t)
           Def(e, m) == e = [j \in 0 .. m |-> IF j = 0 THEN q ELSE xpath_node_set_del(e[j - 1], t[j])]
           n == Len(t)
           T == {m \in 0 .. n : \E e : Def(e, m)}
<1>1. n \in Nat /\ DOMAIN t = 1 .. n /\ \A i \in 1 .. n : t[i] \in Members(t)
  BY MembersOfSeq
<1>2. 0 \in T
  <2> DEFINE e == [j \in 0 .. 0 |-> q]
  <2>1. e = [j \in 0 .. 0 |-> IF j = 0 THEN q ELSE xpath_node_set_del(e[j - 1], t[j])]
    OBVIOUS
  <2>2. Def(e, 0)
    BY <2>1
  <2> HIDE DEF e, Def
  <2>3. 0 \in 0 .. n /\ \E g : Def(g, 0)
    BY <2>2, <1>1
  <2>4. QED BY <2>3
<1>3. ASSUME NEW m \in 1 .. n, m - 1 \in T PROVE m \in T
  <2>1. PICK e : Def(e, m - 1)
    BY <1>3
  <2> DEFINE last == xpath_node_set_del(e[m - 1], t[m])
             g == [j \in 0 .. m |-> IF j = m THEN last ELSE e[j]]
  <2>2. (\A j \in 0 .. m - 1 : g[j] = e[j]) /\ g[m] = last
    <3> HIDE DEF last
    <3> QED BY <1>1
  <2>3. \A j \in 0 .. m : g[j] = IF j = 0 THEN q ELSE xpath_node_set_del(g[j - 1], t[j])
    <3>1. SUFFICES ASSUME NEW j \in 0 .. m
          PROVE g[j] = IF j = 0 THEN q ELSE xpath_node_set_del(g[j - 1], t[j])
      OBVIOUS
    <3> HIDE DEF g
    <3>2. CASE j = m
      <4>1. m - 1 \in 0 .. m - 1
        BY <1>1
      <4>2. g[m - 1] = e[m - 1] /\ m # 0
        BY <4>1, <2>2
      <4>3. QED BY <2>2, <3>2, <4>2 DEF last
    <3>3. CASE j # m
      <4>1. j \in 0 .. m - 1 /\ (j # 0 => j - 1 \in 0 .. m - 1)
        BY <3>3
      <4>2. g[j] = e[j] /\ (j # 0 => g[j - 1] = e[j - 1])
        BY <2>2, <4>1
      <4>3. e[j] = IF j = 0 THEN q ELSE xpath_node_set_del(e[j - 1], t[j])
        BY <2>1, <4>1
      <4>4. QED BY <4>2, <4>3
    <3>4. QED BY <3>2, <3>3
  <2>4. Def(g, m)
    <3>1. g = [j \in 0 .. m |-> g[j]]
      OBVIOUS
    <3> HIDE DEF g
    <3>2. QED BY <2>3, <3>1
  <2>5. m \in 0 .. n /\ \E h : Def(h, m)
    <3> HIDE DEF g, Def
    <3>1. QED BY <2>4, <1>1
  <2>6. QED BY <2>5
<1>4. PICK w : Def(w, n)
  <2>1. \A i \in 1 .. n : i - 1 \in T => i \in T
    BY <1>3
  <2> HIDE DEF T
  <2>2. 0 .. n \subseteq T
    BY <1>1, <1>2, <2>1, CountingUp
  <2>3. n \in T
    BY <1>1, <2>2
  <2>4. QED BY <2>3 DEF T
<1> DEFINE e == CHOOSE e : Def(e, n)
<1>5. Def(e, n)
  BY <1>4
<1>6. r = e[n]
  BY DEF minus
<1>7. \A j \in 0 .. n : e[j] = IF j = 0 THEN q ELSE xpath_node_set_del(e[j - 1], t[j])
  BY <1>5
<1> HIDE DEF e, Def
<1> DEFINE Upto(j) == {t[i] : i \in 1 .. j}
           L == {j \in 0 .. n :
                  /\ e[j] = [k |-> q.k, s |-> e[j].s] /\ e[j].s \in Seq(Item)
                  /\ Members(e[j].s) \subseteq Members(q.s)
                  /\ Members(q.s) \ Upto(j) \subseteq Members(e[j].s)
                  /\ Injective(q.s) => Injective(e[j].s) /\ Members(e[j].s) \cap Upto(j) = {}}
<1>8. 0 \in L
  <2>1. e[0] = q /\ 0 \in 0 .. n /\ Upto(0) = {}
    BY <1>1, <1>7
  <2>2. q = [k |-> q.k, s |-> q.s]
    BY DEF xmlXPathNodeSetMerge, xmlXPathNodeSetAddUnique
  <2> HIDE DEF Upto
  <2>3. QED BY <2>1, <2>2
<1>9. ASSUME NEW j \in 1 .. n, j - 1 \in L PROVE j \in L
  <2> DEFINE v == e[j - 1].s
             x == Without(v, t[j])
             B == Upto(j - 1)
             C == Upto(j)
  <2>1. j \in 0 .. n /\ e[j] = xpath_node_set_del(e[j - 1], t[j])
    BY <1>1, <1>7
  <2>2. /\ e[j - 1] = [k |-> q.k, s |-> v] /\ v \in Seq(Item)
        /\ Members(v) \subseteq Members(q.s)
        /\ Members(q.s) \ B \subseteq Members(v)
        /\ Injective(q.s) => Injective(v) /\ Members(v) \cap B = {}
    BY <1>9
  <2>3. C = B \cup {t[j]}
    BY <1>1
  <2> HIDE DEF v, B, C
  <2>4. e[j] = [k |-> q.k, s |-> x]
    BY <2>1, <2>2 DEF xpath_node_set_del
  <2>5. /\ x \in Seq(Item)
        /\ Members(x) \subseteq Members(v) /\ Members(v) \ {t[j]} \subseteq Members(x)
        /\ Injective(v) => Injective(x) /\ t[j] \notin Members(x)
    BY <2>2, DelIs
  <2> HIDE DEF x
  <2>6. e[j].s = x
    BY <2>4
  <2>7. /\ Members(x) \subseteq Members(q.s) /\ Members(q.s) \ C \subseteq Members(x)
        /\ Injective(q.s) => Injective(x) /\ Members(x) \cap C = {}
    BY <2>2, <2>3, <2>5
  <2>8. QED BY <2>1, <2>4, <2>5, <2>6, <2>7 DEF C
<1>10. n \in L
  <2>1. \A j \in 1 .. n : j - 1 \in L => j \in L
    BY <1>9
  <2> HIDE DEF L
  <2>2. 0 .. n \subseteq L
    BY <1>1, <1>8, <2>1, CountingUp
  <2>3. QED BY <1>1, <2>2
<1>11. Upto(n) = Members(t)
  BY <1>1 DEF Members
<1> HIDE DEF Upto, q, r
<1>12. Remains(q, t, r)
  BY <1>6, <1>10, <1>11 DEF Remains
<1>13. QED BY <1>12 DEF q, r

\* The difference is made of what the first array holds; of nodes, without those of the
\* second if the first has none twice.
LEMMA MinusIs ==
  ASSUME NEW k \in CopyHeap, NEW s, NotFresh(k, s), NEW t, NotFresh(k, t),
         CanCopyAll(k, s), NEW r, r = minus(k, s, t)
  PROVE  /\ Gathered(k, r, Members(s) \cap Node, ElemsOf(k, s))
         /\ Members(s) \cup Members(t) \subseteq Node
              => /\ KeysOf(r.k, r.s) \subseteq KeysOf(k, s)
                 /\ KeysOf(k, s) \ KeysOf(k, t) \subseteq KeysOf(r.k, r.s)
         /\ Members(s) \cup Members(t) \subseteq Node /\ Injective(s)
              => KeysOf(r.k, r.s) = KeysOf(k, s) \ KeysOf(k, t)
<1> DEFINE q == xmlXPathNodeSetMerge(k, <<>>, s)
<1>1. s \in Seq(Item) /\ t \in Seq(Item) /\ NotFresh(k, <<>>)
  BY EmptyArray DEF NotFresh
<1>2. MergedFrom(k, <<>>, s, q)
  BY <1>1, MergeIs
<1>3. q = xmlXPathNodeSetMerge(k, <<>>, s)
  OBVIOUS
<1> HIDE DEF q
<1>4. PICK new \in SUBSET k.fresh : Adds(k, <<>>, q, new, Members(s) \cap Node, ElemsOf(k, s))
  BY <1>2 DEF MergedFrom
<1>5. /\ q.s \in Seq(Item)
      /\ Members(q.s) \cap Copy = new /\ Members(q.s) \cap Node \subseteq Members(s)
  BY <1>4, EmptyArray DEF Adds
<1> DEFINE M == Members(q.s)
           R == Members(r.s)
<1>6. /\ r.k = q.k /\ r.s \in Seq(Item)
      /\ R \subseteq M /\ M \ Members(t) \subseteq R
      /\ Injective(q.s) => R \cap Members(t) = {}
  <2>1. t \in Seq(Item) /\ xmlXPathNodeSetMerge(k, <<>>, s).s \in Seq(Item)
    BY <1>1, <1>3, <1>5
  <2>2. Remains(q, t, r)
    BY <1>3, <2>1, DelEachIs
  <2>3. QED BY <2>2 DEF Remains
<1>7. Members(r.s) \cap Copy = new
  <2>1. \A m \in new : m \notin Members(t)
    BY DEF NotFresh
  <2>2. QED BY <1>5, <1>6, <2>1
<1>8. Adds(k, <<>>, r, new, Members(s) \cap Node, ElemsOf(k, s))
  BY <1>4, <1>5, <1>6, <1>7, EmptyArray DEF Adds
<1>9. Members(s) \subseteq Node /\ Injective(s) => Injective(q.s)
  BY <1>2, EmptyArray DEF MergedFrom
<1>10. ASSUME Members(s) \cup Members(t) \subseteq Node
       PROVE  /\ KeysOf(r.k, r.s) \subseteq KeysOf(k, s)
              /\ KeysOf(k, s) \ KeysOf(k, t) \subseteq KeysOf(r.k, r.s)
              /\ Injective(q.s) => KeysOf(r.k, r.s) = KeysOf(k, s) \ KeysOf(k, t)
  <2>1. Node \cap Copy = {}
    BY CopiesAreNoObjects
  <2>2. ElemsOf(k, s) = {}
    BY <1>10, <2>1 DEF ElemsOf
  <2>3. new = {}
    BY <1>4, <2>2 DEF Adds
  <2>4. \A m \in M : m \in Node
    BY <1>5, <2>3, MembersOfSeq DEF Item
  <2>5. \A g, m : m \in Node => Key(g, m) = <<"node", m>>
    BY <2>1 DEF Key
  <2>6. KeysOf(q.k, q.s) = KeysOf(k, s)
    BY <1>2, EmptyArray DEF MergedFrom
  <2>7. \A x : x \in KeysOf(r.k, r.s) <=> \E m \in R : x = <<"node", m>>
    BY <1>6, <2>4, <2>5 DEF KeysOf
  <2>8. \A x : x \in KeysOf(k, s) <=> \E m \in M : x = <<"node", m>>
    BY <2>4, <2>5, <2>6 DEF KeysOf
  <2>9. \A x : x \in KeysOf(k, t) <=> \E m \in Members(t) : x = <<"node", m>>
    BY <1>10, <2>5 DEF KeysOf
  <2>10. \A m, n : <<"node", m>> = <<"node", n>> => m = n
    OBVIOUS
  <2> HIDE DEF M, R
  <2>11. KeysOf(r.k, r.s) \subseteq KeysOf(k, s)
    BY <1>6, <2>7, <2>8
  <2>12. KeysOf(k, s) \ KeysOf(k, t) \subseteq KeysOf(r.k, r.s)
    BY <1>6, <2>7, <2>8, <2>9
  <2>13. ASSUME Injective(q.s) PROVE KeysOf(r.k, r.s) \cap KeysOf(k, t) = {}
    BY <1>6, <2>7, <2>9, <2>10, <2>13
  <2>14. QED BY <2>11, <2>12, <2>13
<1>11. QED BY <1>8, <1>9, <1>10 DEF Gathered

\* A part of an array that is cut out of it.
LEMMA SubseqIs ==
  ASSUME NEW k \in CopyHeap, NEW s, NotFresh(k, s), CanCopyAll(k, s),
         NEW beg \in 0 .. Len(s), NEW len \in Nat, NEW r, r = subseq(k, s, beg, len)
  PROVE  Gathered(k, r, Members(s) \cap Node, ElemsOf(k, s))
<1> DEFINE last == IF beg + len > Len(s) THEN Len(s) ELSE beg + len
           t == SubSeq(s, beg + 1, last)
           e == [j \in DOMAIN t |-> beg + j]
<1>1. /\ s \in Seq(Item) /\ Len(s) \in Nat /\ DOMAIN s = 1 .. Len(s) /\ beg \in Nat
      /\ beg <= Len(s)
  BY MembersOfSeq DEF NotFresh
<1>2. r = xmlXPathNodeSetAddUnique(k, <<>>, t)
  BY DEF subseq
<1>3. last \in Int /\ last <= Len(s) /\ last >= beg
  BY <1>1
<1>4. \A i \in beg + 1 .. last : s[i] \in Item
  BY <1>1, <1>3, MembersOfSeq
<1> HIDE DEF last
<1>5. /\ t \in Seq(Item) /\ DOMAIN t = 1 .. last - beg
      /\ \A j \in 1 .. last - beg : t[j] = s[beg + j]
  BY <1>1, <1>3, <1>4
<1> HIDE DEF t
<1>6. e \in [DOMAIN t -> DOMAIN s] /\ Injective(e) /\ \A j \in DOMAIN t : t[j] = s[e[j]]
  BY <1>1, <1>3, <1>5 DEF Injective
<1>7. Members(t) \subseteq Members(s)
  BY <1>6 DEF Members
<1> HIDE DEF e
<1>8. CanCopyAll(k, t)
  BY <1>1, <1>5, <1>6, CopyPart
<1>9. (Members(<<>>) \cup Members(t)) \cap k.fresh = {}
  BY <1>7, EmptyArray DEF NotFresh
<1>10. AddsAll(k, <<>>, t, r)
  BY <1>2, <1>5, <1>8, <1>9, EmptyArray, AddUniqueAdds
<1>11. ElemsOf(k, t) \subseteq ElemsOf(k, s)
  BY <1>7 DEF ElemsOf
<1>12. PICK new \in SUBSET k.fresh : Adds(k, <<>>, r, new, Members(t) \cap Node, ElemsOf(k, t))
  BY <1>10 DEF AddsAll
<1>13. Members(t) \cap Node \subseteq Members(s) \cap Node
  BY <1>7
<1>14. QED BY <1>11, <1>12, <1>13, AddsMore DEF Gathered

\* A copy of an array.
LEMMA CopyIs ==
  ASSUME NEW k \in CopyHeap, NEW s, NotFresh(k, s), CanCopyAll(k, s),
         NEW r, r = xmlXPathNodeSetMerge(k, <<>>, s)
  PROVE  Gathered(k, r, Members(s) \cap Node, ElemsOf(k, s))
<1>1. NotFresh(k, <<>>)
  BY EmptyArray DEF NotFresh
<1>2. MergedFrom(k, <<>>, s, r)
  BY <1>1, MergeIs
<1>3. QED BY <1>2 DEF MergedFrom, Gathered

\* One more member: the node, or a copy of the namespace.
LEMMA AddIs ==
  ASSUME NEW k \in CopyHeap, NEW s, NotFresh(k, s), NEW m \in Item \ k.fresh,
         CanCopyAll(k, <<m>>), NEW r, r = xmlXPathNodeSetAdd(k, s, m)
  PROVE  \E new \in SUBSET k.fresh : Adds(k, s, r, new, {m} \cap Node, ElemsOf(k, <<m>>))
<1>1. s \in Seq(Item) /\ Members(s) \cap k.fresh = {}
  BY DEF NotFresh
<1>2. <<m>> \in Seq(Item) /\ Members(<<m>>) = {m}
  BY DEF Members
<1>3. CASE m \in Members(s)
  <2>1. r.k = k /\ r.s = s
    BY <1>3 DEF xmlXPathNodeSetAdd
  <2>2. Adds(k, s, r, {}, {m} \cap Node, ElemsOf(k, <<m>>))
    BY <1>1, <2>1 DEF Adds
  <2>3. QED BY <2>2
<1>4. CASE m \notin Members(s)
  <2>1. r = xmlXPathNodeSetAddUnique(k, s, <<m>>)
    BY <1>4 DEF xmlXPathNodeSetAdd
  <2>2. (Members(s) \cup Members(<<m>>)) \cap k.fresh = {}
    BY <1>1, <1>2
  <2>3. AddsAll(k, s, <<m>>, r)
    BY <1>1, <1>2, <2>1, <2>2, AddUniqueAdds
  <2>4. QED BY <1>2, <2>3 DEF AddsAll
<1>5. QED BY <1>3, <1>4

\* The array of the nodes of a set.
LEMMA NodesFoundIs ==
  ASSUME NEW k \in CopyHeap, NEW S \in SUBSET Node, NEW r, r = NodesFound(k, S)
  PROVE  /\ Gathered(k, r, S, {})
         /\ r.k = k /\ r.s \in [1 .. Cardinality(S) -> S] /\ Cardinality(S) \in Nat
<1> DEFINE n == Cardinality(S)
<1>1. IsFiniteSet(S) /\ n \in Nat
  BY FiniteMemory, FS_Subset, FS_CardinalityType
<1>2. IsFiniteSet(1 .. n) /\ Cardinality(1 .. n) = n
  <2>1. IsFiniteSet(1 .. n)
    BY <1>1, FS_Interval
  <2>2. Cardinality(1 .. n) = IF 1 > n THEN 0 ELSE n - 1 + 1
    BY <1>1, FS_Interval
  <2>3. QED BY <1>1, <2>1, <2>2
<1>3. \E f \in [1 .. n -> S] : Injective(f)
  <2>1. Cardinality(1 .. n) <= Cardinality(S)
    BY <1>1, <1>2
  <2>2. QED BY <1>1, <1>2, <2>1, InjectionExists
<1>4. r.k = k /\ r.s \in [1 .. n -> S]
  BY <1>3 DEF NodesFound
<1>5. r.s \in Seq(Item) /\ Members(r.s) \subseteq S
  <2>1. \A i \in 1 .. n : r.s[i] \in S
    BY <1>4
  <2>2. r.s \in [1 .. n -> Item]
    BY <1>4 DEF Item
  <2>3. QED BY <1>1, <1>4, <2>1, <2>2, SeqDef DEF Members
<1>6. Members(r.s) \cap Copy = {}
  BY <1>5, CopiesAreNoObjects
<1>7. Adds(k, <<>>, r, {}, S, {})
  BY <1>4, <1>5, <1>6, EmptyArray DEF Adds
<1>8. QED BY <1>1, <1>4, <1>7 DEF Gathered

\* The array of copies of the namespaces of the elements of a set.
LEMMA NamespacesFoundIs ==
  ASSUME NEW k \in CopyHeap, NEW S \in SUBSET Node,
         Cardinality(S) <= Cardinality(k.fresh), NEW r, r = NamespacesFound(k, S)
  PROVE  Gathered(k, r, {}, S)
<1> DEFINE q == NodesFound(k, S)
           I == 1 .. Cardinality(S)
           f == CHOOSE g \in Addresses(k, DOMAIN q.s) : TRUE
<1>1. q.s \in [I -> S] /\ Cardinality(S) \in Nat
  BY NodesFoundIs
<1> HIDE DEF q
<1>2. DOMAIN q.s = I /\ \A i \in I : q.s[i] \in S
  BY <1>1
<1>3. IsFiniteSet(I) /\ Cardinality(I) = Cardinality(S)
  <2>1. IsFiniteSet(I)
    BY <1>1, FS_Interval
  <2>2. Cardinality(I) = IF 1 > Cardinality(S) THEN 0 ELSE Cardinality(S) - 1 + 1
    BY <1>1, FS_Interval
  <2>3. QED BY <1>1, <2>1, <2>2
<1>4. \E g \in [I -> k.fresh] : Injective(g)
  <2>1. Cardinality(I) <= Cardinality(k.fresh)
    BY <1>3
  <2>2. QED BY <1>3, <2>1, FreshIsFinite, InjectionExists
<1>5. f \in [I -> k.fresh] /\ Injective(f)
  BY <1>2, <1>4 DEF Addresses
<1>6. r.k = xmlXPathNodeSetDupNs(k, f, q.s) /\ r.s = f
  BY DEF NamespacesFound, q
<1> HIDE DEF f
<1>7. \A i \in I : q.s[i] \in Node \cup {NULL}
  BY <1>2
<1>8. Dups(k, r.k, I, f, q.s)
  BY <1>5, <1>6, <1>7, DupNsIs
<1>9. Members(f) \subseteq k.fresh /\ k.fresh \subseteq Copy
  BY <1>8 DEF Dups, CopyHeap
<1>10. f \in Seq(Item)
  <2>1. f \in [1 .. Cardinality(S) -> Item]
    BY <1>5, <1>9 DEF Item
  <2>2. QED BY <1>1, <2>1, SeqDef
<1>11. \A c \in Members(f) : r.k.elem[c] \in S
  <2>1. SUFFICES ASSUME NEW c \in Members(f) PROVE r.k.elem[c] \in S
    OBVIOUS
  <2>2. PICK i \in I : c = f[i]
    BY <1>5 DEF Members
  <2>3. r.k.elem[f[i]] = q.s[i]
    BY <1>8 DEF Dups
  <2>4. QED BY <1>2, <2>2, <2>3
<1>12. Members(f) \cap Node = {}
  BY <1>9, CopiesAreNoObjects
<1>13. Adds(k, <<>>, r, Members(f), {}, S)
  BY <1>6, <1>8, <1>9, <1>10, <1>11, <1>12, EmptyArray DEF Adds, Dups
<1>14. QED BY <1>9, <1>13 DEF Gathered

-----------------------------------------------------------------------------
(* What the operations on nodes leave to a set.                            *)

\* no node that is allocated is freed, and none changes its document
Stays(h, g) == /\ h.alive \subseteq g.alive
               /\ \A m \in Node \ h.fresh : g.doc[m] = h.doc[m]

\* Two steps that leave the nodes there, one after the other.
LEMMA StaysComposes ==
  ASSUME NEW h, NEW g, NEW k, Stays(h, g), g.fresh \subseteq h.fresh, Stays(g, k)
  PROVE  Stays(h, k)
BY DEF Stays

\* A text merged into another one is the only node that goes.
LEMMA MergeSpares ==
  ASSUME NEW h, IsTree(h), NEW c \in Node, NEW left
  PROVE  /\ IsTree(xmlTextMerge(h, left, c))
         /\ h.alive \ {c} \subseteq xmlTextMerge(h, left, c).alive
<1> DEFINE g == xmlTextMerge(h, left, c)
<1>1. Shifts(h, g, {c}) /\ g.alive = h.alive \ {c} /\ g.parent = [h.parent EXCEPT ![c] = NULL]
  BY MergeShifts
<1>2. QED BY <1>1 DEF Shifts

\* A node that is linked frees none.
LEMMA LinkSpares ==
  ASSUME NEW h, IsTree(h), NEW p, NEW i, NEW n
  PROVE  Link(h, p, i, n).alive = h.alive
BY DEF Link, IsTree

\* A text that settles at its place frees no other node.
LEMMA SettleSpares ==
  ASSUME NEW h, NEW D, Sound(h, D, NULL), NEW c \in h.alive, NEW k,
         NEW q, q = Settle([h |-> h, n |-> c], c, k)
  PROVE  h.alive \ {c} \subseteq q.h.alive
<1> DEFINE left == TextBefore(h, c)
           h1 == IF left # c THEN xmlTextMerge(h, left, c) ELSE h
           g == IF k = Text THEN [h1 EXCEPT !.kind[left] = Text] ELSE h1
<1>1. IsTree(h) /\ c \in Node /\ c # NULL
  BY SoundIsTree, NullIsNoObject DEF IsTree
<1>2. q = [h |-> g, n |-> left]
  BY <1>1 DEF Settle, MergeInto
<1> HIDE DEF left
<1>3. IsTree(h1) /\ h.alive \ {c} \subseteq h1.alive
  <2>1. CASE left # c
    <3>1. h1 = xmlTextMerge(h, left, c)
      BY <2>1
    <3> HIDE DEF h1
    <3>2. QED BY <1>1, <3>1, MergeSpares
  <2>2. CASE left = c
    BY <1>1, <2>2
  <2>3. QED BY <2>1, <2>2
<1> HIDE DEF h1
<1>4. g.alive = h1.alive
  BY <1>3 DEF IsTree
<1> HIDE DEF g
<1>5. q.h = g
  BY <1>2
<1>6. QED BY <1>3, <1>4, <1>5

\* The functions that link a node free at most that node, a text.
LEMMA PrfSpares ==
  ASSUME NEW h, NEW D, Sound(h, D, NULL), NEW c, Ready(h, D, c),
         NEW pivot, NEW how, PlaceFor(h, D, pivot, c, how)
  PROVE  h.alive \ {c} \subseteq prf(h, pivot, c, how).h.alive
<1>1. IsTree(h) /\ c \in h.alive /\ c \in Node
  BY SoundIsTree DEF Ready, IsTree
<1>2. CASE how = "child"
  BY <1>1, <1>2, MergeSpares, LinkSpares DEF prf, xmlAddChild
<1>3. CASE how = "next" \/ how = "prev"
  BY <1>1, <1>3, MergeSpares, LinkSpares DEF prf, xmlAddSibling
<1>4. CASE how = "replace"
  <2>1. prf(h, pivot, c, how) = xmlReplaceNodeWrapper(h, pivot, c)
    BY <1>4 DEF prf
  <2>2. pivot \in h.alive /\ h.kind[pivot] # Attr /\ h.doc[pivot] = h.doc[c]
        /\ (h.parent[pivot] # NULL => MayContain(h, h.parent[pivot], c))
    BY <1>4 DEF PlaceFor
  <2>3. ASSUME NEW g, Sound(g, D, NULL), Ready(g, D, c), pivot \in g.alive,
               g.kind[pivot] # Attr, g.doc[pivot] = g.doc[c],
               g.parent[pivot] # NULL => MayContain(g, g.parent[pivot], c),
               NEW k, NEW q, q = Settle(xmlReplaceNode(g, pivot, c), c, k)
        PROVE  g.alive \ {c} \subseteq q.h.alive
    <3> DEFINE r == xmlReplaceNode(g, pivot, c)
    <3>1. /\ Placed(g, D, c, r)
          /\ r.n = NULL \/ /\ r.n = c /\ r.h.parent[c] # NULL
                           /\ r.h.alive = g.alive /\ r.h.kind = g.kind /\ r.h.doc = g.doc
                           /\ r.h.ptr = g.ptr /\ r.h.priv = g.priv /\ r.h.pinned = g.pinned
      BY <2>3, ReplaceNodePlaced
    <3>2. CASE g.parent[pivot] = NULL
      <4>1. q = [h |-> g, n |-> NULL]
        BY <2>3, <3>2 DEF Settle, xmlReplaceNode
      <4>2. QED BY <4>1
    <3>3. CASE g.parent[pivot] # NULL
      <4> DEFINE k2 == r.h
      <4>1. r = [h |-> k2, n |-> c]
        BY <3>3 DEF xmlReplaceNode
      <4>2. Sound(k2, D, NULL) /\ c \in k2.alive /\ k2.alive = g.alive
        BY <1>1, <3>1, <4>1, NullIsNoObject, <2>3 DEF Placed, Ready
      <4>3. q = Settle([h |-> k2, n |-> c], c, k)
        BY <2>3, <4>1
      <4> HIDE DEF k2
      <4>4. k2.alive \ {c} \subseteq q.h.alive
        BY <4>2, <4>3, SettleSpares
      <4>5. QED BY <4>2, <4>4
    <3>4. QED BY <3>2, <3>3
  <2> DEFINE nxt == TextAfter(h, pivot)
             k == UnlinkAndPin(h, nxt)
             q == prf(h, pivot, c, how)
  <2>4. CASE ~(IsText(h, c) /\ nxt # NULL)
    <3>1. q = Settle(xmlReplaceNode(h, pivot, c), c, Blank)
      BY <2>1, <2>4 DEF xmlReplaceNodeWrapper
    <3> HIDE DEF q
    <3>2. QED BY <2>2, <2>3, <3>1 DEF q
  <2>5. CASE IsText(h, c) /\ nxt # NULL
    <3> DEFINE kd == h.kind[nxt]
    <3>1. q = Settle(xmlReplaceNode(k, pivot, c), c, kd)
      BY <2>1, <2>5 DEF xmlReplaceNodeWrapper
    <3>2. nxt = TextAfter(h, pivot) /\ k = UnlinkAndPin(h, nxt)
      OBVIOUS
    <3> HIDE DEF nxt, k, q, kd
    <3>3. /\ Sound(k, D, NULL) /\ Keeps(h, k)
          /\ k.alive = h.alive /\ k.kind = h.kind /\ k.doc = h.doc
          /\ Ready(k, D, c) /\ IsText(h, nxt) /\ nxt \in Node
          /\ k.parent[pivot] = NULL \/ k.parent[pivot] = h.parent[pivot]
          /\ pivot # nxt => k.parent[pivot] = h.parent[pivot]
          /\ k.parent[pivot] # NULL => MayContain(k, k.parent[pivot], c)
      BY <2>2, <2>5, <3>2, NextPinned
    <3>4. k.alive \ {c} \subseteq q.h.alive
      BY <2>2, <2>3, <3>1, <3>3
    <3>5. QED BY <3>3, <3>4 DEF q
  <2>6. QED BY <2>4, <2>5
<1>5. QED BY <1>2, <1>3, <1>4 DEF PlaceFor

\* Copying a node changes no node that there was.
LEMMA CopyStays ==
  ASSUME NEW h, NEW D, NEW x, Sound(h, D, x), NEW n \in h.alive, CanCopy(h, n),
         NEW d \in Doc, NEW g, g = xmlDocCopyNode(h, n, d)
  PROVE  Stays(h, g) /\ g.fresh \subseteq h.fresh /\ CopyOf(h, n) \in h.fresh
<1> DEFINE S == Subtree(h, n)
           f == CopyMap(h, S)
<1>1. /\ S \in SUBSET h.alive /\ n \in S
      /\ \A m \in h.alive : h.parent[m] \in S => m \in S
  BY BelowIsLeast DEF Subtree
<1>2. RoomFor(h, S)
  BY DEF CanCopy
<1> HIDE DEF S
<1>3. f \in [S -> h.fresh] /\ Injective(f)
  BY <1>2 DEF RoomFor, CopyMap
<1>4. g = CopyBy(h, f, d) /\ CopyOf(h, n) = f[n]
  BY DEF xmlDocCopyNode, CopyOf, S
<1> HIDE DEF f
<1>5. Copies(h, g, f, d)
  BY <1>1, <1>3, <1>4, CopyFields
<1>6. QED BY <1>1, <1>3, <1>4, <1>5 DEF Copies, Stays

\* The argument of reparent_node_with is duplicated, or not, and unlinked.
LEMMA ArgumentStays ==
  ASSUME NEW h, NEW D, Sound(h, D, NULL), NEW n \in h.alive, h.kind[n] # Attr,
         NEW w \in Wrapper, h.ptr[w] = n,
         NEW pivot, NEW d \in Doc, DocOf(h, pivot) = d, D[d] = "live",
         NeedsDup(h, pivot, n) => CanCopy(h, n),
         NEW g, g = xmlUnlinkNode(IF NeedsDup(h, pivot, n) THEN Duplicate(h, pivot, n) ELSE h, n),
         NEW c, c = IF NeedsDup(h, pivot, n) THEN CopyOf(h, n) ELSE n
  PROVE  Stays(h, g) /\ g.fresh \subseteq h.fresh /\ c \in h.fresh \cup {n}
<1>1. IsTree(h) /\ n \in Node
  BY SoundIsTree DEF IsTree
<1>2. ASSUME NEW k, IsTree(k), NEW q, q = xmlUnlinkNode(k, n)
      PROVE  q.alive = k.alive /\ q.doc = k.doc /\ q.fresh = k.fresh
  BY <1>1, <1>2 DEF xmlUnlinkNode, IsTree
<1>3. CASE ~NeedsDup(h, pivot, n)
  <2>1. g = xmlUnlinkNode(h, n) /\ c = n
    BY <1>3
  <2>2. g.alive = h.alive /\ g.doc = h.doc /\ g.fresh = h.fresh
    BY <1>1, <1>2, <2>1
  <2>3. QED BY <2>1, <2>2 DEF Stays
<1>4. CASE NeedsDup(h, pivot, n)
  <2> DEFINE h2 == noko_xml_document_pin_node(
                     IF IsText(h, n) THEN [h EXCEPT !.priv[n] = NULL] ELSE h, n)
             h3 == xmlDocCopyNode(h2, n, d)
  <2>1. g = xmlUnlinkNode(h3, n) /\ c = CopyOf(h, n)
    BY <1>4 DEF Duplicate
  <2>2. PICK x \in {n, NULL} :
          /\ Sound(h2, D, x)
          /\ h2.fresh = h.fresh /\ h2.alive = h.alive /\ h2.doc = h.doc /\ h2.parent = h.parent
    <3>1. h2 = noko_xml_document_pin_node(
                 IF IsText(h, n) THEN [h EXCEPT !.priv[n] = NULL] ELSE h, n)
      OBVIOUS
    <3> HIDE DEF h2
    <3>2. QED BY <3>1, OriginalPinned
  <2> HIDE DEF h2
  <2>3. CanCopy(h2, n) /\ CopyOf(h2, n) = c /\ n \in h2.alive
    BY <1>4, <2>1, <2>2, CopyDependsOn
  <2>4. h3 = xmlDocCopyNode(h2, n, d) /\ c = CopyOf(h2, n)
    BY <2>3
  <2> HIDE DEF h3
  <2>5. Stays(h2, h3) /\ h3.fresh \subseteq h2.fresh /\ CopyOf(h2, n) \in h2.fresh
    BY <2>2, <2>3, <2>4, CopyStays
  <2>6. g.alive = h3.alive /\ g.doc = h3.doc /\ g.fresh = h3.fresh
    <3>1. IsTree(h3)
      <4>1. Sound(h3, D, x)
        BY <2>2, <2>3, <2>4, CopyNodeSound
      <4>2. QED BY <4>1, SoundIsTree
    <3>2. QED BY <1>2, <2>1, <3>1
  <2>7. QED BY <2>2, <2>3, <2>5, <2>6 DEF Stays
<1>5. QED BY <1>3, <1>4

\* reparent_node_with frees no node but a duplicate.
LEMMA ReparentStays ==
  ASSUME NEW h, NEW D, Sound(h, D, NULL), NEW G, Usable(h, D, G), NEW w, w \in G \cap Wrapper,
         NEW pivot, NEW how, how \in {"child", "next", "prev", "replace"},
         pivot \in G \cap Doc \/ (pivot \in h.alive /\ h.doc[pivot] \in G),
         how = "child" => MayContain(h, pivot, h.ptr[w]),
         how # "child" => /\ pivot \in Node /\ h.kind[pivot] # Attr
                          /\ MayContain(h, h.parent[pivot], h.ptr[w]),
         how = "replace" => ~IsText(h, pivot),
         NeedsDup(h, pivot, h.ptr[w]) => CanCopy(h, h.ptr[w]) /\ Unborn(h) # {},
         NEW r, r = reparent_node_with(h, pivot, w, how)
  PROVE  Stays(h, r.h)
<1> DEFINE n == h.ptr[w]
           d == DocOf(h, pivot)
           c == IF NeedsDup(h, pivot, n) THEN CopyOf(h, n) ELSE n
           g == xmlUnlinkNode(IF NeedsDup(h, pivot, n) THEN Duplicate(h, pivot, n) ELSE h, n)
           q == prf(g, pivot, c, how)
<1>1. r = Rewrap(w, q)
  BY DEF reparent_node_with
<1>2. /\ n = h.ptr[w] /\ d = DocOf(h, pivot) /\ w \in Wrapper
      /\ c = IF NeedsDup(h, pivot, n) THEN CopyOf(h, n) ELSE n
  OBVIOUS
<1>3. /\ g = xmlUnlinkNode(IF NeedsDup(h, pivot, n) THEN Duplicate(h, pivot, n) ELSE h, n)
      /\ q = prf(g, pivot, c, how)
      /\ how = "child" => MayContain(h, pivot, n)
      /\ how # "child" => MayContain(h, h.parent[pivot], n)
      /\ NeedsDup(h, pivot, n) => CanCopy(h, n)
  OBVIOUS
<1> HIDE DEF n, d, c, g, q
<1>4. /\ n \in h.alive /\ h.doc[n] \in G /\ h.doc[n] \in Doc /\ D[h.doc[n]] = "live"
      /\ h.kind[n] # Attr
      /\ d \in G /\ d \in Doc /\ D[d] = "live"
      /\ Sound(g, D, NULL) /\ Keeps(h, g) /\ g.fresh \subseteq h.fresh
      /\ Ready(g, D, c) /\ g.doc[c] = d
      /\ NeedsDup(h, pivot, n) \/ (~IsText(g, c) /\ g.priv[c] # NULL)
      /\ IsText(h, n) => n \in g.pinned[h.doc[n]]
      /\ PlaceFor(g, D, pivot, c, how)
      /\ \A m \in h.alive : g.kind[m] = h.kind[m]
  BY <1>2, <1>3, ArgumentPlace, Z3T(30)
<1>5. Stays(h, g) /\ g.fresh \subseteq h.fresh /\ c \in h.fresh \cup {n}
  BY <1>2, <1>3, <1>4, ArgumentStays
<1>6. g.alive \ {c} \subseteq q.h.alive
  BY <1>3, <1>4, PrfSpares
<1>7. Placed(g, D, c, q)
  BY <1>3, <1>4, PrfPlaced
<1>8. Sound(q.h, D, NULL) /\ Keeps(g, q.h)
  BY <1>7 DEF Placed
<1>9. q.h.doc = g.doc /\ q.h.fresh = g.fresh
  <2>2. how = "replace" => ~IsText(g, pivot)
    <3>1. how = "replace" => pivot \in Node /\ pivot \in h.alive
      BY DistinctSorts
    <3>2. QED BY <1>4, <3>1 DEF IsText
  <2>3. Moves(g, q, pivot, c, how)
    BY <1>3, <1>4, <2>2, PrfMoves
  <2>4. QED BY <2>3 DEF Moves, Shifts
<1>10. h.alive \subseteq q.h.alive
  <2>1. \A m \in h.alive : m # c => m \in q.h.alive
    BY <1>5, <1>6 DEF Stays
  <2>2. c \in h.alive => c \in q.h.alive
    <3>1. c \in h.alive => c = h.ptr[w]
      BY <1>2, <1>5 DEF Sound, Allocated
    <3>2. c \in h.alive => c = g.ptr[w] /\ g.ptr[w] \in g.alive
      BY <1>2, <1>4, <1>5, <3>1 DEF Keeps, Stays
    <3>3. QED BY <1>2, <1>8, <3>2 DEF Keeps
  <2>3. QED BY <2>1, <2>2
<1>11. Stays(h, q.h)
  BY <1>5, <1>9, <1>10 DEF Stays
<1>12. r.h.alive = q.h.alive /\ r.h.doc = q.h.doc
  <2>1. IsTree(q.h)
    BY <1>8, SoundIsTree
  <2>2. /\ Shifts(q.h, r.h, {}) /\ r.n = q.n
        /\ r.h.alive = q.h.alive /\ r.h.parent = q.h.parent
    BY <1>1, <2>1, RewrapShifts
  <2>3. QED BY <2>2 DEF Shifts
<1>13. QED BY <1>11, <1>12 DEF Stays

\* add_child, add_next_sibling, add_previous_sibling and replace.
LEMMA ReparentSpares ==
  ASSUME IInv, NEW how \in {"child", "next", "prev", "replace"}, Reparent(how)
  PROVE  Stays(heap, heap')
<1> DEFINE G == Marked(heap, held)
<1>1. PICK pivot \in Pivots, w \in HeldWrappers :
        LET n == heap.ptr[w]
            parent == IF how = "child" THEN pivot ELSE heap.parent[pivot]
        IN  /\ CallerAllows(heap, pivot, n, how)
            /\ MayContain(heap, parent, n)
            /\ NeedsDup(heap, pivot, n) => CanCopy(heap, n) /\ Unborn(heap) # {}
            /\ Reparented(pivot, n, how, reparent_node_with(heap, pivot, w, how))
  BY DEF Reparent
<1> DEFINE r == reparent_node_with(heap, pivot, w, how)
<1>2. /\ Sound(heap, dstate, NULL) /\ Usable(heap, dstate, G)
      /\ w \in G \cap Wrapper
  BY HeldAreUsable DEF IInv
<1>3. pivot \in G \cap Doc \/ (pivot \in heap.alive /\ heap.doc[pivot] \in G)
  BY PivotIsUsable
<1>4. /\ how = "child" => MayContain(heap, pivot, heap.ptr[w])
      /\ how # "child" => /\ pivot \in Node /\ heap.kind[pivot] # Attr
                          /\ MayContain(heap, heap.parent[pivot], heap.ptr[w])
      /\ how = "replace" => ~IsText(heap, pivot)
      /\ NeedsDup(heap, pivot, heap.ptr[w]) => CanCopy(heap, heap.ptr[w]) /\ Unborn(heap) # {}
  BY <1>1 DEF CallerAllows, SiblingAllowed, ReplaceAllowed
<1>5. heap' = r.h \/ heap' = noko_xml_document_pin_node(r.h, pivot)
  BY <1>1 DEF Reparented
<1>6. r = reparent_node_with(heap, pivot, w, how)
  OBVIOUS
<1> HIDE DEF G, r
<1>7. Stays(heap, r.h)
  BY <1>2, <1>3, <1>4, <1>6, ReparentStays
<1>8. IsTree(r.h)
  <2>1. MovedSoundly(heap, dstate, G, r)
    BY <1>2, <1>3, <1>4, <1>6, ReparentSound
  <2>2. QED BY <2>1, SoundIsTree DEF MovedSoundly
<1>9. heap'.alive = r.h.alive /\ heap'.doc = r.h.doc
  BY <1>5, <1>8 DEF noko_xml_document_pin_node, IsTree
<1>10. QED BY <1>7, <1>9 DEF Stays

\* unlink_node.
LEMMA UnlinkSpares ==
  ASSUME IInv, unlink_node
  PROVE  /\ Sound(heap', dstate, NULL) /\ Keeps(heap, heap') /\ Stays(heap, heap')
         /\ UNCHANGED <<dstate, held, lost>>
<1>1. PICK w \in HeldWrappers : /\ heap' = UnlinkAndPin(heap, heap.ptr[w])
                                /\ UNCHANGED <<dstate, held, lost>>
  BY DEF unlink_node
<1> DEFINE n == heap.ptr[w]
<1>2. n \in heap.alive /\ dstate[heap.doc[n]] # "freed" /\ Sound(heap, dstate, NULL)
  BY HeldAreUsable
<1>3. heap' = UnlinkAndPin(heap, n)
  BY <1>1
<1> HIDE DEF n
<1>4. /\ Sound(heap', dstate, NULL)
      /\ Keeps(heap, heap')
      /\ heap'.fresh = heap.fresh /\ heap'.alive = heap.alive /\ heap'.kind = heap.kind
      /\ heap'.doc = heap.doc
      /\ heap'.priv = heap.priv
      /\ heap'.parent = [heap.parent EXCEPT ![n] = NULL]
      /\ \A p \in Node \cup Doc : p # heap.parent[n] => heap'.kids[p] = heap.kids[p]
      /\ heap.parent[n] # NULL
           => heap'.kids[heap.parent[n]] = Without(heap.kids[heap.parent[n]], n)
  BY <1>2, <1>3, UnlinkAndPinSound, Z3
<1>5. QED BY <1>1, <1>4 DEF Stays

-----------------------------------------------------------------------------
(* Making Ruby objects for the nodes of a set.                             *)

\* g is h with the new wrapper f[n] for each node n of N
Wraps(h, g, N, f) ==
  /\ g \in Heap
  /\ g.fresh = h.fresh /\ g.alive = h.alive /\ g.kind = h.kind /\ g.doc = h.doc
  /\ g.parent = h.parent /\ g.kids = h.kids /\ g.pinned = h.pinned
  /\ \A n \in N : /\ h.priv[n] = NULL /\ g.priv[n] = f[n] /\ g.ptr[f[n]] = n
                  /\ f[n] \in Wrapper /\ h.ptr[f[n]] = NULL
                  /\ f[n] \in g.cache[h.doc[n]]
  /\ \A n \in Node \ N : g.priv[n] = h.priv[n]
  /\ \A v \in Wrapper : g.ptr[v] = h.ptr[v] \/ \E n \in N : v = f[n]
  /\ \A d \in Doc : /\ h.cache[d] \subseteq g.cache[d]
                    /\ \A v \in g.cache[d] : v \in h.cache[d] \/ \E n \in N : v = f[n] /\ h.doc[n] = d

\* the nodes of s that have no wrapper
Bare(h, s) == {n \in Members(s) \cap Node : h.priv[n] = NULL}

\* What WrapNodes changes, by field.
LEMMA WrapNodesFields ==
  ASSUME NEW h \in Heap, NEW s, NEW f \in [Bare(h, s) -> Unborn(h)], Injective(f),
         f = CHOOSE e \in [Bare(h, s) -> Unborn(h)] : Injective(e),
         NEW g, g = WrapNodes(h, s)
  PROVE  Wraps(h, g, Bare(h, s), f)
<1> DEFINE N == Bare(h, s)
           nodeOf(w) == CHOOSE n \in N : f[n] = w
           pv == [n \in Node |-> IF n \in N THEN f[n] ELSE h.priv[n]]
           pt == [w \in Wrapper |-> IF w \in Members(f) THEN nodeOf(w) ELSE h.ptr[w]]
           ch == [d \in Doc |-> h.cache[d] \cup {f[n] : n \in {x \in N : h.doc[x] = d}}]
<1>1. g = [h EXCEPT !.priv = pv, !.ptr = pt, !.cache = ch]
  BY DEF WrapNodes, Bare
<1>2. /\ N \subseteq Node /\ DOMAIN f = N
      /\ \A n \in N : h.priv[n] = NULL /\ f[n] \in Wrapper /\ h.ptr[f[n]] = NULL
  BY DEF Bare, Unborn
<1>3. \A w : w \in Members(f) <=> \E n \in N : f[n] = w
  BY <1>2 DEF Members
<1>4. \A n \in N : f[n] \in Members(f) /\ nodeOf(f[n]) = n
  BY <1>2, <1>3 DEF Injective
<1>5. \A w \in Members(f) : nodeOf(w) \in N /\ f[nodeOf(w)] = w
  BY <1>3
<1> HIDE DEF N, nodeOf
<1>6. pv \in [Node -> Wrapper \cup {NULL}]
  BY <1>2 DEF Heap
<1>7. pt \in [Wrapper -> Node \cup {NULL}]
  BY <1>2, <1>5 DEF Heap
<1>8. ch \in [Doc -> SUBSET Wrapper]
  <2>1. ASSUME NEW d \in Doc
        PROVE  h.cache[d] \cup {f[n] : n \in {x \in N : h.doc[x] = d}} \subseteq Wrapper
    <3>1. h.cache[d] \subseteq Wrapper
      BY DEF Heap
    <3>2. {f[n] : n \in {x \in N : h.doc[x] = d}} \subseteq Wrapper
      BY <1>2
    <3>3. QED BY <3>1, <3>2
  <2>2. QED BY <2>1
<1>9. /\ \A n \in N : pv[n] = f[n] /\ pt[f[n]] = n
      /\ \A n \in Node \ N : pv[n] = h.priv[n]
      /\ \A v \in Wrapper : pt[v] = h.ptr[v] \/ \E n \in N : v = f[n]
  BY <1>2, <1>3, <1>4
<1>10. \A n \in N : h.doc[n] \in Doc /\ f[n] \in ch[h.doc[n]]
  <2>1. ASSUME NEW n \in N PROVE h.doc[n] \in Doc /\ f[n] \in ch[h.doc[n]]
    <3>1. h.doc[n] \in Doc
      BY <1>2 DEF Heap
    <3> DEFINE e == h.doc[n]
    <3>2. f[n] \in {f[m] : m \in {x \in N : h.doc[x] = e}}
      OBVIOUS
    <3>3. e \in Doc
      BY <3>1
    <3> HIDE DEF e
    <3>4. ch[e] = h.cache[e] \cup {f[m] : m \in {x \in N : h.doc[x] = e}}
      BY <3>3
    <3> HIDE DEF ch
    <3>5. e \in Doc /\ f[n] \in ch[e]
      BY <3>2, <3>3, <3>4
    <3>6. QED BY <3>5 DEF e
  <2>2. QED BY <2>1
<1>11. \A d \in Doc : /\ h.cache[d] \subseteq ch[d]
                      /\ \A v \in ch[d] : v \in h.cache[d] \/ \E n \in N : v = f[n] /\ h.doc[n] = d
  OBVIOUS
<1> HIDE DEF pv, pt, ch
<1>12. /\ g.fresh = h.fresh /\ g.alive = h.alive /\ g.kind = h.kind /\ g.doc = h.doc
       /\ g.parent = h.parent /\ g.kids = h.kids /\ g.pinned = h.pinned
       /\ g.priv = pv /\ g.ptr = pt /\ g.cache = ch
       /\ g \in Heap
  BY <1>1, <1>6, <1>7, <1>8 DEF Heap
<1>13. Wraps(h, g, N, f)
  BY <1>2, <1>9, <1>10, <1>11, <1>12 DEF Wraps
<1>14. QED BY <1>13 DEF N

\* After new wrappers the heap is as sound as before, and they may be used.
LEMMA WrapsSound ==
  ASSUME NEW h, NEW D, Sound(h, D, NULL), NEW G, Usable(h, D, G),
         NEW N, N \subseteq h.alive, \A n \in N : h.doc[n] \in G,
         NEW f, NEW g, Wraps(h, g, N, f)
  PROVE  /\ Sound(g, D, NULL)
         /\ SameTree(h, g)
         /\ Usable(g, D, G \cup Image(f, N))
<1>1. /\ h \in Heap /\ \A n \in h.alive : n \in Node /\ n \notin h.fresh /\ h.doc[n] \in Doc
      /\ \A v \in Wrapper : h.ptr[v] \in Node \cup {NULL} /\ v # NULL
      /\ NULL \notin Node
  BY NullIsNoObject DEF Sound, Heap, Allocated
<1>2. /\ g \in Heap
      /\ g.fresh = h.fresh /\ g.alive = h.alive /\ g.kind = h.kind /\ g.doc = h.doc
      /\ g.parent = h.parent /\ g.kids = h.kids /\ g.pinned = h.pinned
  BY DEF Wraps
<1>3. \A n \in N : /\ h.priv[n] = NULL /\ g.priv[n] = f[n] /\ g.ptr[f[n]] = n
                   /\ f[n] \in Wrapper /\ h.ptr[f[n]] = NULL
                   /\ f[n] \in g.cache[h.doc[n]]
  BY DEF Wraps
<1>4. /\ \A n \in Node \ N : g.priv[n] = h.priv[n]
      /\ \A v \in Wrapper : g.ptr[v] = h.ptr[v] \/ \E n \in N : v = f[n]
  BY DEF Wraps
<1>5. \A d \in Doc : /\ h.cache[d] \subseteq g.cache[d]
                     /\ \A v \in g.cache[d] : v \in h.cache[d] \/ \E n \in N : v = f[n]
  BY DEF Wraps
<1>6. Allocated(g) /\ Upward(g) /\ Downward(g, D)
  BY <1>2 DEF Sound, Allocated, Upward, Downward, InTree
<1>7. \A n \in Node : h.priv[n] # NULL => g.priv[n] = h.priv[n]
  BY <1>3, <1>4
<1>8. \A n \in N : g.priv[n] # NULL
  BY <1>1, <1>3
<1>9. Pins(g, NULL)
  <2>1. ASSUME NEW e \in Doc, NEW m \in h.pinned[e]
        PROVE  /\ m \in h.alive /\ h.doc[m] = e
               /\ m # NULL /\ h.parent[m] # NULL => /\ h.kind[m] # Attr /\ ~IsText(h, m)
                                                    /\ h.priv[m] # NULL
    BY DEF Sound, Pins
  <2>2. QED BY <1>1, <1>2, <1>7, <2>1 DEF Pins, IsText
<1>10. Agrees(g)
  <2>1. SUFFICES ASSUME NEW m \in h.alive, IsText(h, m), h.parent[m] # NULL, g.priv[m] # NULL
                 PROVE  g.ptr[g.priv[m]] = m
    BY <1>2 DEF Agrees, IsText
  <2>2. CASE m \in N
    BY <1>3, <2>2
  <2>3. CASE m \notin N
    <3>1. g.priv[m] = h.priv[m] /\ h.priv[m] \in Wrapper /\ h.ptr[h.priv[m]] = m
      BY <1>1, <1>4, <2>1, <2>3 DEF Sound, Agrees, Heap
    <3>2. \A n \in N : h.priv[m] # f[n]
      BY <1>1, <1>3, <3>1
    <3>3. QED BY <1>4, <3>1, <3>2
  <2>4. QED BY <2>2, <2>3
<1>11. Pointing(g)
  <2>1. ASSUME NEW v \in Wrapper PROVE g.ptr[v] \notin h.fresh
    <3>1. CASE g.ptr[v] = h.ptr[v]
      BY <3>1 DEF Sound, Pointing
    <3>2. CASE \E n \in N : v = f[n]
      BY <1>1, <1>3, <3>2
    <3>3. QED BY <1>4, <3>1, <3>2
  <2>2. QED BY <1>2, <2>1 DEF Pointing
<1>12. Cached(g, D)
  <2>1. ASSUME NEW m \in h.alive, g.priv[m] # NULL, D[h.doc[m]] # "freed"
        PROVE  g.priv[m] \in g.cache[h.doc[m]]
    <3>1. CASE m \in N
      BY <1>3, <3>1
    <3>2. CASE m \notin N
      <4>1. g.priv[m] = h.priv[m]
        BY <1>1, <1>4, <3>2
      <4>2. h.priv[m] \in h.cache[h.doc[m]]
        BY <2>1, <4>1 DEF Sound, Cached
      <4>3. QED BY <1>1, <1>5, <4>1, <4>2
    <3>3. QED BY <3>1, <3>2
  <2>2. QED BY <1>2, <2>1 DEF Cached
<1>13. Forgotten(g, NULL)
  <2>1. ASSUME NEW v \in Wrapper, g.ptr[v] \in h.alive, g.priv[g.ptr[v]] = NULL
        PROVE  IsText(h, g.ptr[v]) /\ (g.ptr[v] = NULL \/ h.parent[g.ptr[v]] = NULL)
    <3>1. ~ \E n \in N : v = f[n]
      BY <1>3, <1>8, <2>1
    <3>2. g.ptr[v] = h.ptr[v]
      BY <1>4, <3>1
    <3>3. h.priv[h.ptr[v]] = NULL
      BY <1>1, <1>7, <2>1, <3>2
    <3>4. QED BY <2>1, <3>2, <3>3 DEF Sound, Forgotten
  <2>2. QED BY <1>2, <2>1 DEF Forgotten, IsText
<1>14. NotBorn(g, D)
  <2>1. ASSUME NEW d \in Doc, D[d] = "unborn" PROVE g.cache[d] = {}
    <3>1. h.cache[d] = {} /\ \A n \in h.alive : h.doc[n] # d
      BY <2>1 DEF Sound, NotBorn
    <3>2. \A v \in g.cache[d] : v \in h.cache[d] \/ \E n \in N : v = f[n] /\ h.doc[n] = d
      BY DEF Wraps
    <3>3. QED BY <3>1, <3>2
  <2>2. QED BY <1>2, <2>1 DEF Sound, NotBorn
<1>15. Usable(g, D, G \cup Image(f, N))
  <2> DEFINE F == Image(f, N)
  <2>1. \A v \in F : v \in Wrapper /\ v \notin Doc /\ \E n \in N : v = f[n]
    BY <1>3, DistinctSorts DEF Image
  <2>2. \A v \in G \cap Wrapper : g.ptr[v] \in g.alive /\ g.doc[g.ptr[v]] \in G
    <3>1. ASSUME NEW v \in G \cap Wrapper PROVE g.ptr[v] \in g.alive /\ g.doc[g.ptr[v]] \in G
      <4>1. h.ptr[v] \in h.alive /\ h.doc[h.ptr[v]] \in G
        BY DEF Usable
      <4>2. \A n \in N : v # f[n]
        BY <1>1, <1>3, <4>1
      <4>3. QED BY <1>2, <1>4, <4>1, <4>2
    <3>2. QED BY <3>1
  <2>3. \A v \in F : g.ptr[v] \in g.alive /\ g.doc[g.ptr[v]] \in G
    BY <1>2, <1>3, <2>1
  <2>4. \A d \in G \cap Doc : D[d] = "live" /\ g.cache[d] \subseteq G \cup F
    <3>1. \A d \in G \cap Doc : D[d] = "live" /\ h.cache[d] \subseteq G
      BY DEF Usable
    <3>2. QED BY <1>5, <3>1 DEF Image
  <2>5. G \subseteq Objects /\ F \subseteq Objects
    BY <2>1 DEF Usable, Objects
  <2> HIDE DEF F
  <2>6. Usable(g, D, G \cup F)
    BY <2>1, <2>2, <2>3, <2>4, <2>5 DEF Usable
  <2>7. QED BY <2>6 DEF F
<1>16. QED
  BY <1>2, <1>6, <1>7, <1>9, <1>10, <1>11, <1>12, <1>13, <1>14, <1>15 DEF Sound, SameTree

\* g is h with a usable wrapper for every node of s.
Made(h, D, G, s, g) ==
  /\ Sound(g, D, NULL)
  /\ SameTree(h, g)
  /\ \E F : /\ Usable(g, D, F) /\ G \subseteq F
            /\ \A n \in Members(s) \cap Node : g.priv[n] \in F \cap Wrapper

\* noko_xml_node_wrap of the nodes of a set.
LEMMA WrapNodesMakes ==
  ASSUME NEW h, NEW D, Sound(h, D, NULL), NEW G, Usable(h, D, G),
         NEW s \in Seq(Item), RoomToWrap(h, s),
         \A n \in Members(s) \cap Node : n \in h.alive /\ h.doc[n] \in G,
         NEW g, g = WrapNodes(h, s)
  PROVE  Made(h, D, G, s, g)
<1> DEFINE N == Bare(h, s)
<1>1. /\ h \in Heap /\ \A n \in h.alive : h.doc[n] \in Doc
      /\ N \subseteq h.alive /\ N \subseteq Members(s) /\ \A n \in N : h.doc[n] \in G
  BY DEF Sound, Heap, Bare
<1>2. \E f \in [N -> Unborn(h)] : Injective(f)
  <2>1. IsFiniteSet(Unborn(h))
    BY FiniteMemory, FS_Subset DEF Unborn
  <2>2. IsFiniteSet(N)
    BY <1>1, FiniteMembers, FS_Subset
  <2>3. Cardinality(N) <= Cardinality(Unborn(h))
    BY DEF RoomToWrap, Bare
  <2> HIDE DEF N
  <2>4. QED BY <2>1, <2>2, <2>3, InjectionExists
<1> DEFINE f == CHOOSE e \in [N -> Unborn(h)] : Injective(e)
<1>3. f \in [N -> Unborn(h)] /\ Injective(f)
  BY <1>2
<1>4. Wraps(h, g, N, f)
  <2>1. f = CHOOSE e \in [Bare(h, s) -> Unborn(h)] : Injective(e)
    OBVIOUS
  <2> HIDE DEF f
  <2>2. QED BY <1>1, <1>3, <2>1, WrapNodesFields
<1> HIDE DEF N, f
<1>5. Sound(g, D, NULL) /\ SameTree(h, g) /\ Usable(g, D, G \cup Image(f, N))
  BY <1>1, <1>4, WrapsSound
<1> DEFINE F == G \cup Image(f, N)
<1>6. ASSUME NEW n \in Members(s) \cap Node PROVE g.priv[n] \in F \cap Wrapper
  <2>1. CASE n \in N
    <3>1. g.priv[n] = f[n] /\ f[n] \in Wrapper
      BY <1>4, <2>1 DEF Wraps
    <3>2. QED BY <2>1, <3>1 DEF Image
  <2>2. CASE n \notin N
    <3>1. h.priv[n] # NULL /\ n \in h.alive /\ h.doc[n] \in G /\ h.doc[n] \in Doc
      BY <1>1, <2>2 DEF N, Bare
    <3>2. h.priv[n] \in h.cache[h.doc[n]] /\ h.priv[n] \in Wrapper
      BY <1>1, <3>1 DEF Sound, Cached, Usable, Heap
    <3>3. g.priv[n] = h.priv[n] /\ h.priv[n] \in G
      BY <1>5, <3>1, <3>2 DEF SameTree, Usable
    <3>4. QED BY <3>2, <3>3
  <2>3. QED BY <2>1, <2>2
<1>7. Usable(g, D, F) /\ G \subseteq F
  BY <1>5
<1> HIDE DEF F
<1>8. QED BY <1>5, <1>6, <1>7 DEF Made

\* The nodes S are unlinked and pinned.
LEMMA UnlinkAllSound ==
  ASSUME NEW h, NEW D, Sound(h, D, NULL), NEW S, S \subseteq h.alive,
         NEW g, g = UnlinkAll(h, S)
  PROVE  /\ Sound(g, D, NULL) /\ Keeps(h, g)
         /\ g.alive = h.alive /\ g.doc = h.doc /\ g.fresh = h.fresh
<1>1. /\ h \in Heap /\ NULL \notin Node \cup Doc
      /\ \A n \in h.alive : n \in Node /\ h.doc[n] \in Doc
  BY NullIsNoObject DEF Sound, Heap
<1> DEFINE pr == [n \in Node |-> IF n \in S THEN NULL ELSE h.parent[n]]
           ks == [p \in Node \cup Doc |-> Among(h.kids[p], Node \ S)]
           pn == [d \in Doc |-> h.pinned[d] \cup {n \in S : h.doc[n] = d}]
<1>2. g = [h EXCEPT !.parent = pr, !.kids = ks, !.pinned = pn]
  BY <1>1 DEF UnlinkAll, Heap
<1>3. pr \in [Node -> Node \cup Doc \cup {NULL}] /\ pn \in [Doc -> SUBSET Node]
  BY <1>1 DEF Heap
<1>4. ASSUME NEW p \in Node \cup Doc
      PROVE  /\ ks[p] \in Seq(Node)
             /\ Members(ks[p]) = Members(h.kids[p]) \ S
             /\ Injective(h.kids[p]) => Injective(ks[p])
  <2>1. h.kids[p] \in Seq(Node)
    BY <1>1 DEF Heap
  <2>2. Members(h.kids[p]) \subseteq Node
    BY <2>1, MembersOfSeq
  <2> DEFINE t == Among(h.kids[p], Node \ S)
  <2>3. t = Among(h.kids[p], Node \ S) /\ ks[p] = t
    OBVIOUS
  <2> HIDE DEF t, ks
  <2>4. /\ t \in Seq(Node)
        /\ Members(t) = Members(h.kids[p]) \cap (Node \ S)
        /\ Injective(h.kids[p]) => Injective(t)
    BY <2>1, <2>3, AmongMembers
  <2>5. QED BY <2>2, <2>3, <2>4
<1>5. ks \in [Node \cup Doc -> Seq(Node)]
  <2>1. \A p \in Node \cup Doc : Among(h.kids[p], Node \ S) \in Seq(Node)
    BY <1>4
  <2>2. QED BY <2>1
<1>6. /\ \A n \in Node : pr[n] = IF n \in S THEN NULL ELSE h.parent[n]
      /\ \A d \in Doc : pn[d] = h.pinned[d] \cup {n \in S : h.doc[n] = d}
  OBVIOUS
<1> HIDE DEF pr, ks, pn
<1>7. /\ g.fresh = h.fresh /\ g.alive = h.alive /\ g.kind = h.kind /\ g.doc = h.doc
      /\ g.priv = h.priv /\ g.ptr = h.ptr /\ g.cache = h.cache
      /\ g.parent = pr /\ g.kids = ks /\ g.pinned = pn
      /\ g \in Heap
  BY <1>1, <1>2, <1>3, <1>5 DEF Heap
<1>8. \A n \in h.alive : pr[n] = NULL \/ pr[n] = h.parent[n]
  BY <1>1, <1>6
<1>9. Upward(g)
  BY <1>1, <1>7, <1>8 DEF Sound, Upward
<1>10. Downward(g, D)
  <2>1. ASSUME NEW p \in Node \cup Doc, InTree(g, D, p)
        PROVE  /\ Injective(ks[p])
               /\ \A n \in Node : n \in Members(ks[p])
                                    <=> n \in h.alive /\ pr[n] = p /\ h.kind[n] # Attr
    <3>1. /\ Injective(h.kids[p])
          /\ \A n \in Node : n \in Members(h.kids[p])
                               <=> n \in h.alive /\ h.parent[n] = p /\ h.kind[n] # Attr
      BY <1>7, <2>1 DEF Sound, Downward, InTree
    <3>2. Injective(ks[p]) /\ Members(ks[p]) = Members(h.kids[p]) \ S
      BY <1>4, <3>1
    <3>3. \A n \in Node : pr[n] = p <=> n \notin S /\ h.parent[n] = p
      BY <1>1, <1>6
    <3>4. QED BY <3>1, <3>2, <3>3
  <2>2. QED BY <1>7, <2>1 DEF Downward
<1>11. Forgotten(g, NULL)
  BY <1>7, <1>8 DEF Sound, Forgotten, IsText
<1>12. Pins(g, NULL)
  <2>1. ASSUME NEW d \in Doc, NEW n \in pn[d]
        PROVE  /\ n \in h.alive /\ h.doc[n] = d
               /\ n # NULL /\ pr[n] # NULL => /\ h.kind[n] # Attr /\ ~IsText(h, n)
                                              /\ h.priv[n] # NULL
    <3>1. CASE n \in S
      BY <1>1, <1>6, <2>1, <3>1 DEF Sound, Pins
    <3>2. CASE n \notin S
      <4>1. n \in h.pinned[d]
        BY <1>6, <2>1, <3>2
      <4>2. /\ n \in h.alive /\ h.doc[n] = d
            /\ n # NULL /\ h.parent[n] # NULL => /\ h.kind[n] # Attr /\ ~IsText(h, n)
                                                 /\ h.priv[n] # NULL
        BY <4>1 DEF Sound, Pins
      <4>3. QED BY <1>8, <4>2
    <3>3. QED BY <3>1, <3>2
  <2>2. QED BY <1>7, <2>1 DEF Pins, IsText
<1>13. Agrees(g)
  BY <1>7, <1>8 DEF Sound, Agrees, IsText
<1>14. Allocated(g) /\ Pointing(g) /\ Cached(g, D) /\ NotBorn(g, D)
  BY <1>7 DEF Sound, Allocated, Pointing, Cached, NotBorn
<1>15. Keeps(h, g)
  BY <1>6, <1>7 DEF Keeps, SameNode
<1>16. QED
  BY <1>7, <1>9, <1>10, <1>11, <1>12, <1>13, <1>14, <1>15 DEF Sound

-----------------------------------------------------------------------------
(* The inductive invariant.                                                *)

\* the documents of the sets and of the evaluation
SetDocs == {sets[id].doc : id \in Existing} \cup (IF call = NULL THEN {} ELSE {call.doc})

\* The heap is sound, and what the program, the sets and the evaluation keep may
\* be used.
HeapInv ==
  /\ Sound(heap, dstate, NULL)
  /\ Usable(heap, dstate, Marked(heap, held \cup SetDocs))
  /\ dstate \in DState
  /\ held \cup SetDocs \subseteq Objects
  /\ lost \subseteq Node

SetsTyped ==
  /\ sets \in [SetId -> NodeSet \cup {NULL}]
  /\ copies \in CopyHeap
  /\ keptCopies \subseteq copies.owned
  /\ call \in Evaluation \cup {NULL}

\* the array that an evaluation waits with
Waiting == IF call = NULL THEN {} ELSE Members(call.mem)

\* the nodes that a set, or an evaluation, points at have not been freed
PointedInTree ==
  /\ \A id \in Existing : Members(sets[id].mem) \cap Node \subseteq heap.alive
  /\ Waiting \cap Node \subseteq heap.alive
  /\ call # NULL => \A n \in call.found : n \in heap.alive /\ heap.doc[n] = call.doc

\* element e has been freed only with its document
InPlace(e) == /\ e \in Node \ heap.fresh
              /\ e \in heap.alive \/ dstate[heap.doc[e]] = "freed"

\* the element of a copy goes with its document
Located == \A c \in copies.live : InPlace(copies.elem[c])

\* The copies in a set have an owner, or were made by push or dup; those of an
\* evaluation have none yet and are in no set.
CopiesSound ==
  /\ copies.live \cap copies.fresh = {} /\ copies.owned \cap copies.fresh = {}
  /\ keptCopies \subseteq copies.live
  /\ \A id \in Existing :
       /\ Members(sets[id].mem) \cap Copy \subseteq copies.live \cap (copies.owned \cup copies.stray)
       /\ Waiting \cap Members(sets[id].mem) \cap Copy = {}
  /\ Waiting \cap Copy \subseteq copies.live \ copies.owned
  /\ copies.live \subseteq copies.owned \cup copies.stray \cup Waiting

SInv == HeapInv /\ SetsTyped /\ PointedInTree /\ Located /\ CopiesSound /\ Homogeneous

\* After a step whose objects G may be used, and hold what is kept.
LEMMA ReachSets ==
  ASSUME NEW G, Sound(heap', dstate', NULL), Usable(heap', dstate', G), dstate' \in DState,
         held' \cup SetDocs' \subseteq G, lost' \subseteq Node
  PROVE  HeapInv'
<1>1. heap' \in Heap /\ held' \cup SetDocs' \in SUBSET G /\ held' \cup SetDocs' \subseteq Objects
  BY DEF Sound, Usable
<1>2. Usable(heap', dstate', Marked(heap', held' \cup SetDocs'))
  BY <1>1, MarkedIsUsable
<1>3. QED BY <1>1, <1>2 DEF HeapInv

\* What is kept may be used, and the heap is as NodeLifecycle keeps it.
LEMMA KeptAreUsable ==
  ASSUME HeapInv, NEW G, G = Marked(heap, held \cup SetDocs)
  PROVE  /\ IInv /\ heap \in Heap /\ Usable(heap, dstate, G)
         /\ held \subseteq G /\ SetDocs \subseteq G
<1>1. heap \in Heap /\ held \cup SetDocs \subseteq G /\ Usable(heap, dstate, G)
  BY MarkedIsLeast DEF HeapInv, Sound
<1>2. held \in SUBSET G /\ held \subseteq Objects
  BY <1>1 DEF HeapInv
<1> HIDE DEF HeapInv
<1>3. Usable(heap, dstate, Marked(heap, held))
  BY <1>1, <1>2, MarkedIsUsable
<1>4. IInv
  BY <1>2, <1>3 DEF IInv, HeapInv
<1>5. QED BY <1>1, <1>4

-----------------------------------------------------------------------------
(* The operations on nodes.                                                *)

\* The sets are sound after a step that frees nothing and leaves them alone.
LEMMA SetsStay ==
  ASSUME SInv, HeapInv', UNCHANGED setVars, Stays(heap, heap'), heap'.fresh \subseteq heap.fresh,
         dstate' = dstate, Homogeneous'
  PROVE  SInv'
<1>1. sets' = sets /\ copies' = copies /\ keptCopies' = keptCopies /\ call' = call
  BY DEF setVars
<1>2. Existing' = Existing /\ Waiting' = Waiting
  BY <1>1 DEF Existing, Waiting
<1>3. SetsTyped' /\ CopiesSound'
  BY <1>1, <1>2 DEF SInv, SetsTyped, CopiesSound
<1>4. /\ heap.alive \subseteq heap'.alive
      /\ \A m \in Node \ heap.fresh : heap'.doc[m] = heap.doc[m]
      /\ heap.alive \subseteq Node \ heap.fresh
  BY DEF Stays, SInv, HeapInv, Sound, Heap, Allocated
<1>5. PointedInTree'
  BY <1>1, <1>2, <1>4 DEF SInv, PointedInTree
<1>6. Located'
  BY <1>1, <1>4 DEF SInv, Located, InPlace
<1>7. QED BY <1>3, <1>5, <1>6 DEF SInv

\* Node#unlink beside the sets: a member that leaves the tree is pinned, not freed.
LEMMA UnlinkNodeSets == ASSUME SInv, unlink_node, UNCHANGED setVars, Homogeneous' PROVE SInv'
<1> DEFINE G == Marked(heap, held \cup SetDocs)
<1>1. HeapInv
  BY DEF SInv
<1>2. IInv /\ Usable(heap, dstate, G) /\ held \subseteq G /\ SetDocs \subseteq G
  BY <1>1, KeptAreUsable
<1> HIDE DEF G
<1>3. /\ Sound(heap', dstate, NULL) /\ Keeps(heap, heap') /\ Stays(heap, heap')
      /\ UNCHANGED <<dstate, held, lost>>
  BY <1>2, UnlinkSpares
<1>4. Usable(heap', dstate, G) /\ heap'.fresh \subseteq heap.fresh
  BY <1>2, <1>3, KeepsUsable DEF Keeps
<1>5. SetDocs' = SetDocs
  BY DEF SetDocs, Existing, setVars
<1>6. HeapInv'
  <2>1. /\ Sound(heap', dstate', NULL) /\ Usable(heap', dstate', G) /\ dstate' \in DState
        /\ held' \cup SetDocs' \subseteq G /\ lost' \subseteq Node
    BY <1>1, <1>2, <1>3, <1>4, <1>5 DEF HeapInv
  <2>2. QED BY <2>1, ReachSets
<1>7. QED BY <1>3, <1>4, <1>6, SetsStay

\* add_child, add_next_sibling, add_previous_sibling and replace beside the sets: a text
\* that is merged away was a copy, which no set names.
LEMMA ReparentSets ==
  ASSUME SInv, NEW how \in {"child", "next", "prev", "replace"}, Reparent(how),
         UNCHANGED setVars, Homogeneous'
  PROVE  SInv'
<1> DEFINE G == Marked(heap, held \cup SetDocs)
<1>1. HeapInv
  BY DEF SInv
<1>2. IInv /\ Usable(heap, dstate, G) /\ held \subseteq G /\ SetDocs \subseteq G
  BY <1>1, KeptAreUsable
<1> HIDE DEF G
<1>3. /\ Sound(heap', dstate, NULL) /\ dstate' = dstate /\ lost' \subseteq Node
      /\ heap'.fresh \subseteq heap.fresh
      /\ \E F : Usable(heap', dstate, F) /\ G \cup held' \subseteq F
  BY <1>2, ReparentReaches
<1>4. PICK F : Usable(heap', dstate, F) /\ G \cup held' \subseteq F
  BY <1>3
<1>5. SetDocs' = SetDocs
  BY DEF SetDocs, Existing, setVars
<1>6. HeapInv'
  <2>1. /\ Sound(heap', dstate', NULL) /\ Usable(heap', dstate', F) /\ dstate' \in DState
        /\ held' \cup SetDocs' \subseteq F /\ lost' \subseteq Node
    BY <1>1, <1>2, <1>3, <1>4, <1>5 DEF HeapInv
  <2>2. QED BY <2>1, ReachSets
<1>7. Stays(heap, heap')
  BY <1>2, ReparentSpares
<1>8. QED BY <1>3, <1>6, <1>7, SetsStay

\* The program forgets a node: what the sets keep is still marked.
LEMMA ForgetSets == ASSUME SInv, Forget, UNCHANGED setVars, Homogeneous' PROVE SInv'
<1> DEFINE G == Marked(heap, held \cup SetDocs)
<1>1. HeapInv
  BY DEF SInv
<1>2. IInv /\ Usable(heap, dstate, G) /\ held \subseteq G /\ SetDocs \subseteq G
  BY <1>1, KeptAreUsable
<1> HIDE DEF G
<1>3. held' \subseteq held /\ UNCHANGED <<heap, dstate, lost>>
  BY DEF Forget
<1>4. SetDocs' = SetDocs
  BY DEF SetDocs, Existing, setVars
<1>5. HeapInv'
  <2>1. /\ Sound(heap', dstate', NULL) /\ Usable(heap', dstate', G) /\ dstate' \in DState
        /\ held' \cup SetDocs' \subseteq G /\ lost' \subseteq Node
    BY <1>1, <1>2, <1>3, <1>4 DEF HeapInv
  <2>2. QED BY <2>1, ReachSets
<1>6. Stays(heap, heap')
  BY <1>3 DEF Stays
<1>7. QED BY <1>3, <1>5, <1>6, SetsStay

\* What the sets mark may be used.
LEMMA SetRootsUsable ==
  ASSUME SInv, NEW G, Usable(heap, dstate, G), SetDocs \subseteq G
  PROVE  SetRoots \subseteq G /\ SetDocs \subseteq SetRoots
<1>1. heap \in Heap /\ Cached(heap, dstate)
  BY DEF SInv, HeapInv, Sound
<1>2. ASSUME NEW id \in Existing
      PROVE  xml_node_set_mark(sets[id].mem) \subseteq G
  <2>1. SUFFICES ASSUME NEW n \in Members(sets[id].mem) \cap Node, heap.priv[n] # NULL
        PROVE  heap.priv[n] \in G
    BY DEF xml_node_set_mark
  <2>2. n \in heap.alive /\ heap.doc[n] = sets[id].doc
    BY DEF SInv, PointedInTree, Homogeneous, Within
  <2>3. heap.doc[n] \in G /\ heap.doc[n] \in Doc
    BY <1>1, <2>2 DEF SetDocs, Heap
  <2>4. dstate[heap.doc[n]] = "live" /\ heap.cache[heap.doc[n]] \subseteq G
    BY <2>3 DEF Usable
  <2>5. QED BY <1>1, <2>1, <2>2, <2>4 DEF Cached
<1>3. \A id \in Existing : sets[id].doc \in SetDocs
  BY DEF SetDocs
<1>4. (IF call = NULL THEN {} ELSE {call.doc}) \subseteq SetDocs
  BY DEF SetDocs
<1>5. SetRoots \subseteq G
  <2>1. SUFFICES ASSUME NEW o \in SetRoots
        PROVE  o \in G
    OBVIOUS
  <2>2. o \in (IF call = NULL THEN {} ELSE {call.doc})
        \/ \E id \in Existing : o \in xml_node_set_mark(sets[id].mem) \/ o = sets[id].doc
    BY <2>1 DEF SetRoots
  <2>3. QED BY <1>2, <1>3, <1>4, <2>2
<1>6. SetDocs \subseteq SetRoots
  <2>1. SUFFICES ASSUME NEW o \in SetDocs
        PROVE  o \in SetRoots
    OBVIOUS
  <2>2. o \in (IF call = NULL THEN {} ELSE {call.doc}) \/ \E id \in Existing : o = sets[id].doc
    BY <2>1 DEF SetDocs
  <2>3. QED BY <2>2 DEF SetRoots
<1>7. QED BY <1>5, <1>6

\* A document is freed: no set is of that document, since a set marks its own.
LEMMA CollectSets ==
  ASSUME SInv, Collect(held \cup SetRoots), UNCHANGED setVars, Homogeneous'
  PROVE  SInv'
<1> DEFINE G == Marked(heap, held \cup SetDocs)
           R == held \cup SetRoots
           M == Marked(heap, R)
<1>1. PICK d \in {c \in Doc : dstate[c] = "live"} \ M :
        /\ heap' = dealloc(heap, d)
        /\ dstate' = [dstate EXCEPT ![d] = "freed"]
        /\ UNCHANGED <<held, lost>>
  BY DEF Collect
<1>2. HeapInv
  BY DEF SInv
<1>3. IInv /\ heap \in Heap /\ Usable(heap, dstate, G) /\ held \subseteq G /\ SetDocs \subseteq G
  BY <1>2, KeptAreUsable
<1> HIDE DEF G
<1>4. SetRoots \subseteq G /\ SetDocs \subseteq SetRoots
  BY <1>3, SetRootsUsable
<1>5. R \in SUBSET G /\ R \in SUBSET Objects
  BY <1>3, <1>4 DEF Usable
<1>6. Usable(heap, dstate, M) /\ R \subseteq M
  <2> HIDE DEF R
  <2>1. R \subseteq M
    BY <1>5, MarkedIsLeast
  <2>2. QED BY <1>3, <1>5, <2>1, MarkedIsUsable
<1> HIDE DEF M
<1>7. dstate' \in DState /\ Sound(heap', dstate', NULL) /\ Usable(heap', dstate', M)
  BY <1>1, <1>2, <1>6, DeallocSound DEF HeapInv
<1>8. d \notin SetDocs
  BY <1>1, <1>4, <1>6
<1>9. SetDocs' = SetDocs
  BY DEF SetDocs, Existing, setVars
<1>10. HeapInv'
  <2>1. held' \cup SetDocs' \subseteq M /\ lost' \subseteq Node
    BY <1>1, <1>2, <1>4, <1>6, <1>9 DEF HeapInv
  <2>2. QED BY <1>7, <2>1, ReachSets
<1>11. /\ heap'.alive = heap.alive \ FreedWith(heap, d)
       /\ heap'.fresh = heap.fresh /\ heap'.doc = heap.doc
  BY <1>1, <1>3 DEF dealloc, xmlFree, Heap
<1>12. \A n \in FreedWith(heap, d) : heap.doc[n] = d
  BY <1>1, <1>2, FreedWithIsInDocument DEF HeapInv
<1>13. sets' = sets /\ copies' = copies /\ keptCopies' = keptCopies /\ call' = call
  BY DEF setVars
<1>14. Existing' = Existing /\ Waiting' = Waiting
  BY <1>13 DEF Existing, Waiting
<1>15. SetsTyped' /\ CopiesSound'
  BY <1>13, <1>14 DEF SInv, SetsTyped, CopiesSound
<1>16. PointedInTree'
  <2>1. ASSUME NEW id \in Existing, NEW n \in Members(sets[id].mem) \cap Node
        PROVE  n \in heap'.alive
    <3>1. n \in heap.alive /\ heap.doc[n] = sets[id].doc /\ sets[id].doc # d
      BY <1>8 DEF SInv, PointedInTree, Homogeneous, Within, SetDocs
    <3>2. QED BY <1>11, <1>12, <3>1
  <2>2. ASSUME call # NULL
        PROVE  /\ Members(call.mem) \cap Node \subseteq heap'.alive
               /\ \A n \in call.found : n \in heap'.alive /\ heap'.doc[n] = call.doc
    <3>1. call.doc # d
      BY <1>8, <2>2 DEF SetDocs
    <3>2. \A n \in Members(call.mem) \cap Node : n \in heap.alive /\ heap.doc[n] = call.doc
      BY <2>2 DEF SInv, PointedInTree, Waiting, Homogeneous, Within
    <3>3. \A n \in call.found : n \in heap.alive /\ heap.doc[n] = call.doc
      BY <2>2 DEF SInv, PointedInTree
    <3>4. QED BY <1>11, <1>12, <3>1, <3>2, <3>3
  <2>3. Waiting \cap Node \subseteq heap'.alive
    BY <2>2 DEF Waiting
  <2>4. QED BY <1>13, <1>14, <2>1, <2>2, <2>3 DEF PointedInTree
<1>17. Located'
  <2>1. ASSUME NEW c \in copies.live
        PROVE  /\ copies.elem[c] \in Node \ heap.fresh
               /\ copies.elem[c] \in heap'.alive \/ dstate'[heap.doc[copies.elem[c]]] = "freed"
    <3> DEFINE e == copies.elem[c]
    <3>1. e \in Node \ heap.fresh /\ (e \in heap.alive \/ dstate[heap.doc[e]] = "freed")
      BY DEF SInv, Located, InPlace
    <3>2. heap.doc[e] \in Doc /\ dstate \in DState
      BY <1>2, <1>3, <3>1 DEF Heap, HeapInv
    <3> HIDE DEF e
    <3>3. e \in heap'.alive \/ dstate'[heap.doc[e]] = "freed"
      <4>1. CASE heap.doc[e] = d
        BY <1>1, <3>2, <4>1 DEF DState
      <4>2. CASE heap.doc[e] # d
        BY <1>1, <1>11, <1>12, <3>1, <3>2, <4>2 DEF DState
      <4>3. QED BY <4>1, <4>2
    <3>4. QED BY <3>1, <3>3 DEF e
  <2>2. QED BY <1>11, <1>13, <2>1 DEF Located, InPlace
<1>18. QED BY <1>10, <1>15, <1>16, <1>17 DEF SInv

\* Every operation on nodes, beside the sets.
LEMMA TreeSets == ASSUME SInv, TreeNext, Homogeneous' PROVE SInv'
<1>1. CASE add_child
  BY <1>1, ReparentSets DEF TreeNext, add_child
<1>2. CASE replace
  BY <1>2, ReparentSets DEF TreeNext, replace
<1>3. CASE unlink_node
  BY <1>3, UnlinkNodeSets DEF TreeNext
<1>4. CASE Forget
  BY <1>4, ForgetSets DEF TreeNext
<1>5. CASE Collect(held \cup SetRoots)
  BY <1>5, CollectSets DEF TreeNext
<1>6. QED BY <1>1, <1>2, <1>3, <1>4, <1>5 DEF TreeNext

-----------------------------------------------------------------------------
(* The operations on sets: the heap.                                       *)

\* Nothing but wrappers is new in the heap.
SameNodes == /\ heap'.alive = heap.alive /\ heap'.fresh = heap.fresh /\ heap'.doc = heap.doc
             /\ dstate' = dstate

\* A step that leaves the heap alone and keeps no new object.
LEMMA HeapStays ==
  ASSUME SInv, UNCHANGED vars, SetDocs' \subseteq SetDocs
  PROVE  HeapInv' /\ SameNodes
<1> DEFINE G == Marked(heap, held \cup SetDocs)
<1>1. heap' = heap /\ dstate' = dstate /\ held' = held /\ lost' = lost
  BY DEF vars
<1>2. HeapInv
  BY DEF SInv
<1>3. Usable(heap, dstate, G) /\ held \subseteq G /\ SetDocs \subseteq G
  BY <1>2, KeptAreUsable
<1> HIDE DEF G
<1>4. /\ Sound(heap', dstate', NULL) /\ Usable(heap', dstate', G) /\ dstate' \in DState
      /\ held' \cup SetDocs' \subseteq G /\ lost' \subseteq Node
  BY <1>1, <1>2, <1>3 DEF HeapInv
<1>5. HeapInv'
  BY <1>4, ReachSets
<1>6. QED BY <1>1, <1>5 DEF SameNodes

\* A step that makes wrappers for the nodes of an array, and keeps no other object.
LEMMA HeapWraps ==
  ASSUME SInv, NEW G, G = Marked(heap, held \cup SetDocs),
         NEW s \in Seq(Item), RoomToWrap(heap, s),
         \A n \in Members(s) \cap Node : n \in heap.alive /\ heap.doc[n] \in G,
         heap' = WrapNodes(heap, s), UNCHANGED <<dstate, lost>>,
         SetDocs' \subseteq G,
         \A o \in held' : o \in held \/ \E n \in Members(s) \cap Node : o = heap'.priv[n]
  PROVE  HeapInv' /\ SameNodes
<1>1. HeapInv
  BY DEF SInv
<1>2. Usable(heap, dstate, G) /\ held \subseteq G
  BY <1>1, KeptAreUsable
<1>3. Sound(heap, dstate, NULL)
  BY <1>1 DEF HeapInv
<1>4. Made(heap, dstate, G, s, heap')
  BY <1>2, <1>3, WrapNodesMakes
<1>5. /\ Sound(heap', dstate, NULL) /\ SameTree(heap, heap')
  BY <1>4 DEF Made
<1>6. PICK F : /\ Usable(heap', dstate, F) /\ G \subseteq F
               /\ \A n \in Members(s) \cap Node : heap'.priv[n] \in F \cap Wrapper
  BY <1>4 DEF Made
<1>7. held' \subseteq F
  BY <1>2, <1>6
<1>8. /\ Sound(heap', dstate', NULL) /\ Usable(heap', dstate', F) /\ dstate' \in DState
      /\ held' \cup SetDocs' \subseteq F /\ lost' \subseteq Node
  BY <1>1, <1>5, <1>6, <1>7 DEF HeapInv
<1>9. HeapInv'
  BY <1>8, ReachSets
<1>10. QED BY <1>5, <1>9 DEF SameNodes, SameTree

-----------------------------------------------------------------------------
(* The operations on sets: the sets.                                       *)

\* Set id becomes q.
LEMMA PutSet ==
  ASSUME SetsTyped, NEW id \in SetId, NEW q \in NodeSet, sets' = [sets EXCEPT ![id] = q]
  PROVE  /\ sets' \in [SetId -> NodeSet \cup {NULL}]
         /\ Existing' = Existing \cup {id}
         /\ sets'[id] = q /\ q.mem \in Seq(Item) /\ q.doc \in Doc
         /\ \A j \in Existing' : j = id \/ (j \in Existing /\ sets'[j] = sets[j])
<1>1. q # NULL
  BY NullIsNoRecord
<1>2. sets \in [SetId -> NodeSet \cup {NULL}]
  BY DEF SetsTyped
<1>3. sets' \in [SetId -> NodeSet \cup {NULL}]
  BY <1>2
<1>4. q.mem \in Seq(Item) /\ q.doc \in Doc
  BY DEF NodeSet
<1>5. sets'[id] = q /\ \A j \in SetId : j # id => sets'[j] = sets[j]
  BY <1>2
<1>6. Existing' = Existing \cup {id}
  BY <1>1, <1>5 DEF Existing
<1>7. QED BY <1>3, <1>4, <1>5, <1>6 DEF Existing

\* The record of a set.
LEMMA SetRecord ==
  ASSUME SetsTyped, NEW id \in Existing
  PROVE  /\ id \in SetId /\ sets[id] \in NodeSet
         /\ sets[id].mem \in Seq(Item) /\ sets[id].doc \in Doc
         /\ \A s \in Seq(Item) :
              /\ [sets EXCEPT ![id].mem = s]
                   = [sets EXCEPT ![id] = [mem |-> s, doc |-> sets[id].doc]]
              /\ [mem |-> s, doc |-> sets[id].doc] \in NodeSet
<1>1. id \in SetId /\ sets[id] \in NodeSet /\ sets \in [SetId -> NodeSet \cup {NULL}]
  BY DEF SetsTyped, Existing
<1>2. /\ sets[id].mem \in Seq(Item) /\ sets[id].doc \in Doc
      /\ sets[id] = [mem |-> sets[id].mem, doc |-> sets[id].doc]
  BY <1>1 DEF NodeSet
<1>3. ASSUME NEW s \in Seq(Item)
      PROVE  /\ [sets EXCEPT ![id].mem = s] = [sets EXCEPT ![id] = [mem |-> s, doc |-> sets[id].doc]]
             /\ [mem |-> s, doc |-> sets[id].doc] \in NodeSet
  <2>1. [mem |-> s, doc |-> sets[id].doc] \in NodeSet
    BY <1>2 DEF NodeSet
  <2>2. [sets[id] EXCEPT !.mem = s] = [mem |-> s, doc |-> sets[id].doc]
    BY <1>2
  <2>3. QED BY <2>1, <2>2
<1>4. QED BY <1>1, <1>2, <1>3

\* The documents that a set in place of id, and the evaluation, keep.
LEMMA PutDocs ==
  ASSUME SetsTyped, NEW id \in SetId, NEW q \in NodeSet, sets' = [sets EXCEPT ![id] = q],
         call' = call \/ call' = NULL \/ call'.doc = q.doc
  PROVE  SetDocs' \subseteq SetDocs \cup {q.doc}
<1>1. \A j \in Existing' : sets'[j].doc = q.doc \/ (j \in Existing /\ sets'[j] = sets[j])
  BY PutSet
<1>2. SUFFICES ASSUME NEW o \in SetDocs'
      PROVE  o \in SetDocs \cup {q.doc}
  OBVIOUS
<1>3. (call' # NULL /\ o = call'.doc) \/ \E j \in Existing' : o = sets'[j].doc
  BY <1>2 DEF SetDocs
<1>4. CASE call' # NULL /\ o = call'.doc
  BY <1>4 DEF SetDocs
<1>5. CASE \E j \in Existing' : o = sets'[j].doc
  BY <1>1, <1>5 DEF SetDocs
<1>6. QED BY <1>3, <1>4, <1>5

\* The copies new are allocated, and the others keep what they have.
CopiesGrow(new) ==
  /\ new \subseteq copies.fresh
  /\ copies' \in CopyHeap
  /\ copies'.fresh = copies.fresh \ new /\ copies'.live = copies.live \cup new
  /\ copies.owned \subseteq copies'.owned /\ copies.stray \subseteq copies'.stray
  /\ \A c \in Copy \ new : copies'.elem[c] = copies.elem[c]
  /\ \A c \in new : InPlace(copies'.elem[c])

\* The copies are where they were found, after copies were made.
LEMMA LocatedStays ==
  ASSUME Located, SetsTyped, CopiesSound, SameNodes, NEW new, CopiesGrow(new)
  PROVE  Located'
<1>1. ASSUME NEW c \in copies'.live
      PROVE  InPlace(copies'.elem[c])
  <2>1. c \in new \/ (c \in copies.live /\ c \in Copy \ new)
    BY <1>1 DEF CopiesGrow, CopiesSound, SetsTyped, CopyHeap
  <2>2. QED BY <2>1 DEF CopiesGrow, Located
<1>2. QED BY <1>1 DEF Located, InPlace, SameNodes

\* After set id became q, and the copies new were made.
LEMMA PutSound ==
  ASSUME SInv, HeapInv', SameNodes, Homogeneous',
         NEW id \in SetId, NEW q \in NodeSet, sets' = [sets EXCEPT ![id] = q],
         Members(q.mem) \cap Node \subseteq heap.alive,
         NEW new, CopiesGrow(new),
         copies'.owned \subseteq copies.owned \cup Members(q.mem),
         new \subseteq copies'.owned \cup copies'.stray,
         Members(q.mem) \cap Copy \subseteq copies'.live \cap (copies'.owned \cup copies'.stray),
         Members(q.mem) \cap Waiting' \cap Copy = {},
         keptCopies' \subseteq copies'.owned \cap copies'.live,
         call' \in Evaluation \cup {NULL},
         Waiting' = Waiting \/ (Waiting' = {} /\ Waiting \cap Copy \subseteq copies'.owned),
         call' # NULL => \A n \in call'.found : n \in heap.alive /\ heap.doc[n] = call'.doc
  PROVE  SInv'
<1>1. SetsTyped /\ CopiesSound /\ Located /\ PointedInTree /\ Homogeneous
  BY DEF SInv
<1>2. /\ sets' \in [SetId -> NodeSet \cup {NULL}]
      /\ Existing' = Existing \cup {id} /\ sets'[id] = q
      /\ \A j \in Existing' : j = id \/ (j \in Existing /\ sets'[j] = sets[j])
  BY <1>1, PutSet
<1>3. SetsTyped'
  BY <1>2 DEF SetsTyped, CopiesGrow
<1>4. /\ copies' \in CopyHeap /\ copies \in CopyHeap /\ new \subseteq copies.fresh
      /\ copies'.fresh = copies.fresh \ new /\ copies'.live = copies.live \cup new
      /\ copies.owned \subseteq copies'.owned /\ copies.stray \subseteq copies'.stray
  BY <1>1 DEF CopiesGrow, SetsTyped
<1>5. Waiting' \subseteq Waiting
  OBVIOUS
<1>6. /\ copies'.live \subseteq Copy /\ copies'.owned \subseteq Copy
  BY <1>4 DEF CopyHeap
<1>7. CopiesSound'
  <2>1. copies'.live \cap copies'.fresh = {} /\ copies'.owned \cap copies'.fresh = {}
    BY <1>1, <1>4, <1>6 DEF CopiesSound
  <2>2. ASSUME NEW j \in Existing'
        PROVE  /\ Members(sets'[j].mem) \cap Copy
                    \subseteq copies'.live \cap (copies'.owned \cup copies'.stray)
               /\ Waiting' \cap Members(sets'[j].mem) \cap Copy = {}
    <3>1. CASE j = id
      BY <1>2, <3>1
    <3>2. CASE j \in Existing /\ sets'[j] = sets[j]
      BY <1>1, <1>4, <1>5, <3>2 DEF CopiesSound
    <3>3. QED BY <1>2, <3>1, <3>2
  <2>3. Waiting' \cap Copy \subseteq copies'.live \ copies'.owned
    BY <1>1, <1>4, <1>5 DEF CopiesSound
  <2>4. copies'.live \subseteq copies'.owned \cup copies'.stray \cup Waiting'
    BY <1>1, <1>4, <1>6 DEF CopiesSound
  <2>5. QED BY <2>1, <2>2, <2>3, <2>4 DEF CopiesSound
<1>8. Located'
  BY <1>1, LocatedStays
<1>9. PointedInTree'
  <2>1. /\ heap'.alive = heap.alive /\ heap'.doc = heap.doc
    BY DEF SameNodes
  <2>2. ASSUME NEW j \in Existing'
        PROVE  Members(sets'[j].mem) \cap Node \subseteq heap'.alive
    <3>1. CASE j = id
      BY <1>2, <2>1, <3>1
    <3>2. CASE j \in Existing /\ sets'[j] = sets[j]
      BY <1>1, <2>1, <3>2 DEF PointedInTree
    <3>3. QED BY <1>2, <3>1, <3>2
  <2>3. Waiting' \cap Node \subseteq heap'.alive
    BY <1>1, <1>5, <2>1 DEF PointedInTree
  <2>4. QED BY <2>1, <2>2, <2>3 DEF PointedInTree
<1>10. QED BY <1>3, <1>7, <1>8, <1>9 DEF SInv

-----------------------------------------------------------------------------
(* The operations on sets: new arrays.                                     *)

\* The elements of what is copied are where they were.
LEMMA ElemsInPlace ==
  ASSUME SInv, NEW s, Members(s) \cap Copy \subseteq copies.live
  PROVE  \A e \in ElemsOf(copies, s) : InPlace(e)
BY DEF SInv, Located, ElemsOf

\* An array whose nodes are in the tree, and whose namespaces are copies that were
\* made for it, is made a set.
LEMMA ResultSound ==
  ASSUME SInv, NEW G, G = Marked(heap, held \cup SetDocs),
         NEW id \in SetId, NEW d \in G \cap Doc, NEW r, NEW N, NEW E, Gathered(copies, r, N, E),
         \A n \in N : n \in heap.alive /\ heap.doc[n] \in G,
         \A e \in E : InPlace(e),
         noko_xml_node_set_wrap(id, r, d),
         UNCHANGED <<dstate, held, lost, keptCopies>>, Homogeneous',
         call' \in Evaluation \cup {NULL},
         call' = call \/ (call = NULL /\ call'.doc = d /\ call'.mem = <<>>),
         call' # NULL => \A n \in call'.found : n \in heap.alive /\ heap.doc[n] = call'.doc
  PROVE  SInv'
<1>1. PICK new \in SUBSET copies.fresh : Adds(copies, <<>>, r, new, N, E)
  BY DEF Gathered
<1>2. SetsTyped /\ CopiesSound /\ HeapInv /\ copies \in CopyHeap
  BY DEF SInv, SetsTyped
<1>3. /\ r.k \in CopyHeap /\ r.s \in Seq(Item)
      /\ r.k.fresh = copies.fresh \ new /\ r.k.live = copies.live \cup new
      /\ r.k.owned = copies.owned /\ r.k.stray = copies.stray
      /\ \A c \in Copy \ new : r.k.elem[c] = copies.elem[c]
      /\ \A c \in new : r.k.elem[c] \in E
      /\ Members(r.s) \cap Copy = new /\ Members(r.s) \cap Node \subseteq N
  BY <1>1, EmptyArray DEF Adds
<1> DEFINE q == [mem |-> r.s, doc |-> d]
<1>4. q \in NodeSet /\ q.mem = r.s /\ q.doc = d
  BY <1>3 DEF NodeSet
<1>5. /\ RoomToWrap(heap, r.s) /\ sets' = [sets EXCEPT ![id] = q]
      /\ heap' = WrapNodes(heap, r.s) /\ copies' = WrapCopies(r.k, r.s)
  BY DEF noko_xml_node_set_wrap
<1> HIDE DEF q
<1>6. SetDocs \subseteq G
  BY <1>2, KeptAreUsable
<1>7. SetDocs' \subseteq SetDocs \cup {q.doc}
  <2>1. call' = call \/ call' = NULL \/ call'.doc = q.doc
    BY <1>4
  <2>2. QED BY <1>2, <1>4, <1>5, <2>1, PutDocs
<1>8. HeapInv' /\ SameNodes
  <2>1. \A n \in Members(r.s) \cap Node : n \in heap.alive /\ heap.doc[n] \in G
    BY <1>3
  <2>2. SetDocs' \subseteq G
    BY <1>4, <1>6, <1>7
  <2>3. QED BY <1>3, <1>5, <2>1, <2>2, HeapWraps
<1>9. /\ copies' \in CopyHeap
      /\ copies'.fresh = r.k.fresh /\ copies'.live = r.k.live /\ copies'.elem = r.k.elem
      /\ copies'.stray = r.k.stray /\ copies'.owned = r.k.owned \cup new
  <2>1. copies' = [r.k EXCEPT !.owned = r.k.owned \cup new]
    BY <1>3, <1>5 DEF WrapCopies
  <2>2. new \subseteq Copy
    BY <1>2 DEF CopyHeap
  <2>3. QED BY <1>3, <2>1, <2>2 DEF CopyHeap
<1>10. CopiesGrow(new)
  BY <1>3, <1>9 DEF CopiesGrow
<1>11. Waiting' = Waiting
  <2>1. CASE call' = call
    BY <2>1 DEF Waiting
  <2>2. CASE call = NULL /\ call'.mem = <<>>
    BY <2>2, EmptyArray DEF Waiting
  <2>3. QED BY <2>1, <2>2
<1>12. Members(q.mem) \cap Waiting' \cap Copy = {}
  BY <1>2, <1>3, <1>4, <1>11 DEF CopiesSound
<1>13. keptCopies' \subseteq copies'.owned \cap copies'.live
  BY <1>2, <1>3, <1>9 DEF CopiesSound, SetsTyped
<1>14. QED
  <2>1. Members(q.mem) \cap Node \subseteq heap.alive
    BY <1>3, <1>4
  <2>2. copies'.owned \subseteq copies.owned \cup Members(q.mem)
        /\ new \subseteq copies'.owned \cup copies'.stray
        /\ Members(q.mem) \cap Copy \subseteq copies'.live \cap (copies'.owned \cup copies'.stray)
    BY <1>3, <1>4, <1>9
  <2>3. QED BY <1>4, <1>5, <1>8, <1>10, <1>11, <1>12, <1>13, <2>1, <2>2, PutSound

-----------------------------------------------------------------------------
(* XPath.                                                                  *)

\* The nodes of document d.
NodesOf(d) == {n \in heap.alive : heap.doc[n] = d}

\* A search stays in the document.
LEMMA SearchedIsInDocument ==
  ASSUME Sound(heap, dstate, NULL), NEW p, p \in Doc \/ p \in heap.alive
  PROVE  Searched(p) \subseteq NodesOf(DocOf(heap, p))
<1>1. heap.alive \subseteq Node
  BY DEF Sound, Heap
<1>2. CASE p \in Doc
  BY <1>2, ContentIsInDocument DEF Searched, NodesOf, DocOf
<1>3. CASE p \in heap.alive
  <2> DEFINE S == NodesOf(heap.doc[p])
  <2>1. p \notin Doc
    BY <1>1, <1>3, DistinctSorts
  <2>2. {p} \subseteq S
    BY <1>3 DEF NodesOf
  <2>3. \A c \in heap.alive : heap.parent[c] \in S => c \in S
    BY <1>1 DEF Sound, Upward, NodesOf
  <2> HIDE DEF S
  <2>4. Below(heap, {p}) \subseteq S
    BY <2>2, <2>3, BelowIsLeast
  <2>5. QED BY <2>1, <2>4 DEF Searched, Subtree, S, DocOf
<1>4. QED BY <1>2, <1>3

\* What an evaluation finds below p: nodes, and copies of namespaces, of its document.
LEMMA AnswerIs ==
  ASSUME Sound(heap, dstate, NULL), copies \in CopyHeap, NEW p, p \in Doc \/ p \in heap.alive,
         NEW d, d = DocOf(heap, p), NEW r \in Answers(p)
  PROVE  /\ Gathered(copies, r, NodesOf(d), NodesOf(d))
         /\ r = [k |-> r.k, s |-> r.s]
<1> DEFINE nodes == {n \in Searched(p) : heap.kind[n] = Elem \/ IsText(heap, n)}
           elems == {n \in nodes : heap.kind[n] = Elem}
           texts == nodes \ elems
<1>1. \/ r = NodesFound(copies, nodes) \/ r = NodesFound(copies, texts)
      \/ Cardinality(elems) <= Cardinality(copies.fresh) /\ r = NamespacesFound(copies, elems)
  BY DEF Answers
<1>2. nodes \subseteq NodesOf(d) /\ NodesOf(d) \subseteq Node
  BY SearchedIsInDocument DEF NodesOf, Sound, Heap
<1>3. elems \subseteq nodes /\ texts \subseteq nodes
  OBVIOUS
<1> HIDE DEF nodes, elems, texts
<1>4. ASSUME NEW S \in SUBSET NodesOf(d), r = NodesFound(copies, S)
      PROVE  Gathered(copies, r, NodesOf(d), NodesOf(d)) /\ r = [k |-> r.k, s |-> r.s]
  <2>1. Gathered(copies, r, S, {})
    BY <1>2, <1>4, NodesFoundIs
  <2>2. PICK new \in SUBSET copies.fresh : Adds(copies, <<>>, r, new, S, {})
    BY <2>1 DEF Gathered
  <2>3. Adds(copies, <<>>, r, new, NodesOf(d), NodesOf(d))
    BY <2>2, AddsMore
  <2>4. r = [k |-> r.k, s |-> r.s]
    BY <1>4 DEF NodesFound
  <2>5. QED BY <2>3, <2>4 DEF Gathered
<1>5. ASSUME Cardinality(elems) <= Cardinality(copies.fresh), r = NamespacesFound(copies, elems)
      PROVE  Gathered(copies, r, NodesOf(d), NodesOf(d)) /\ r = [k |-> r.k, s |-> r.s]
  <2>1. Gathered(copies, r, {}, elems)
    BY <1>2, <1>3, <1>5, NamespacesFoundIs
  <2>2. PICK new \in SUBSET copies.fresh : Adds(copies, <<>>, r, new, {}, elems)
    BY <2>1 DEF Gathered
  <2>3. Adds(copies, <<>>, r, new, NodesOf(d), NodesOf(d))
    BY <1>2, <1>3, <2>2, AddsMore
  <2>4. r = [k |-> r.k, s |-> r.s]
    BY <1>5 DEF NamespacesFound
  <2>5. QED BY <2>3, <2>4 DEF Gathered
<1>6. QED BY <1>1, <1>2, <1>3, <1>4, <1>5

\* What a function is called with.
LEMMA PassedIs ==
  ASSUME copies \in CopyHeap, NEW N, NEW E,
         NEW r, Gathered(copies, r, N, E), r = [k |-> r.k, s |-> r.s],
         Members(r.s) \subseteq Node, NEW arg \in Passed(r)
  PROVE  Gathered(copies, arg, N, E)
<1>1. SUFFICES ASSUME NEW n \in Members(r.s), arg = [r EXCEPT !.s = <<n>>]
      PROVE  Gathered(copies, arg, N, E)
  BY DEF Passed
<1>2. arg.k = r.k /\ arg.s = <<n>>
  BY <1>1
<1>3. PICK new \in SUBSET copies.fresh : Adds(copies, <<>>, r, new, N, E)
  BY DEF Gathered
<1>4. Members(r.s) \cap Copy = new /\ Members(r.s) \cap Node \subseteq N
  BY <1>3, EmptyArray DEF Adds
<1>5. n \in Node /\ n \notin Copy /\ new = {} /\ n \in N
  BY <1>1, <1>4, CopiesAreNoObjects
<1>6. <<n>> \in Seq(Item) /\ Members(<<n>>) = {n}
  BY <1>5 DEF Members, Item
<1>7. Adds(copies, <<>>, arg, new, N, E)
  BY <1>2, <1>3, <1>5, <1>6, EmptyArray DEF Adds
<1>8. QED BY <1>7 DEF Gathered

\* A pivot's document may be used, and the pivot is in the tree.
LEMMA PivotInTree ==
  ASSUME HeapInv, NEW G, G = Marked(heap, held \cup SetDocs), NEW p \in Pivots
  PROVE  /\ p \in Doc \/ p \in heap.alive
         /\ DocOf(heap, p) \in G \cap Doc
<1>1. IInv /\ heap \in Heap /\ Usable(heap, dstate, G) /\ held \subseteq G
  BY KeptAreUsable
<1>2. Marked(heap, held) \subseteq G
  BY <1>1, MarkedIsUsable
<1>3. p \in Marked(heap, held) \cap Doc
      \/ (p \in heap.alive /\ heap.doc[p] \in Marked(heap, held))
  BY <1>1, PivotIsUsable
<1>4. heap.alive \subseteq Node /\ \A n \in Node : heap.doc[n] \in Doc
  BY <1>1 DEF Heap
<1>5. QED BY <1>2, <1>3, <1>4, DistinctSorts DEF DocOf

\* The nodes of a live document are in place.
LEMMA NodesInPlace ==
  ASSUME HeapInv, NEW d, NEW e \in NodesOf(d)
  PROVE  InPlace(e)
BY DEF HeapInv, Sound, Heap, Allocated, NodesOf, InPlace

\* Where a result goes.
LEMMA UnusedIs ==
  /\ \A id \in Unused : id \in SetId \ Existing
  /\ \A id \in Existing : Beside(id) \in SetId
<1>1. Existing \subseteq SetId
  BY DEF Existing
<1>2. ASSUME NEW id \in Unused
      PROVE  id \in SetId /\ sets[id] = NULL
  <2>1. \E new \in SetId : sets[new] = NULL
    BY <1>2 DEF Unused, Existing
  <2>2. QED BY <1>2, <2>1 DEF Unused
<1>3. ASSUME NEW id \in Existing
      PROVE  Beside(id) \in SetId
  <2>1. CASE Existing = SetId
    BY <1>1, <2>1 DEF Beside
  <2>2. CASE Existing # SetId
    <3>1. Unused # {}
      BY <2>2 DEF Unused
    <3>2. QED BY <1>2, <2>2, <3>1 DEF Beside
  <2>3. QED BY <2>1, <2>2
<1>4. QED BY <1>2, <1>3 DEF Existing

\* An XPath evaluation whose result is a new set.
LEMMA EvaluateSets == ASSUME SInv, noko_xml_xpath_context_evaluate, Homogeneous' PROVE SInv'
<1> DEFINE G == Marked(heap, held \cup SetDocs)
<1>1. PICK p \in Pivots, id \in Unused : \E r \in Answers(p) :
        /\ noko_xml_node_set_wrap(id, r, DocOf(heap, p))
        /\ UNCHANGED <<dstate, held, lost, keptCopies, call>>
  BY DEF noko_xml_xpath_context_evaluate
<1>2. PICK r \in Answers(p) :
        /\ noko_xml_node_set_wrap(id, r, DocOf(heap, p))
        /\ UNCHANGED <<dstate, held, lost, keptCopies, call>>
  BY <1>1
<1> DEFINE d == DocOf(heap, p)
<1>3. HeapInv /\ copies \in CopyHeap /\ call \in Evaluation \cup {NULL} /\ Sound(heap, dstate, NULL)
  BY DEF SInv, SetsTyped, HeapInv
<1>4. (p \in Doc \/ p \in heap.alive) /\ d \in G \cap Doc
  BY <1>3, PivotInTree
<1>5. Gathered(copies, r, NodesOf(d), NodesOf(d))
  BY <1>3, <1>4, AnswerIs
<1>6. id \in SetId
  BY <1>1, UnusedIs
<1>7. /\ \A n \in NodesOf(d) : n \in heap.alive /\ heap.doc[n] \in G
      /\ \A e \in NodesOf(d) : InPlace(e)
  BY <1>3, <1>4, NodesInPlace DEF NodesOf
<1>8. call # NULL => \A n \in call.found : n \in heap.alive /\ heap.doc[n] = call.doc
  BY DEF SInv, PointedInTree
<1> HIDE DEF G, d
<1>9. /\ noko_xml_node_set_wrap(id, r, d)
      /\ UNCHANGED <<dstate, held, lost, keptCopies>> /\ call' = call
  BY <1>2 DEF d
<1>10. QED BY <1>3, <1>4, <1>5, <1>6, <1>7, <1>8, <1>9, ResultSound DEF G

\* An evaluation calls a Ruby function with a set.
LEMMA InvokerSets == ASSUME SInv, handler_invoker, Homogeneous' PROVE SInv'
<1> DEFINE G == Marked(heap, held \cup SetDocs)
<1>1. PICK p \in Pivots, id \in Unused : \E r \in {x \in Answers(p) : Members(x.s) \subseteq Node} :
        /\ call = NULL
        /\ \E arg \in Passed(r) : noko_xml_node_set_wrap(id, arg, DocOf(heap, p))
        /\ call' = [doc |-> DocOf(heap, p), found |-> Members(r.s), mem |-> <<>>]
        /\ UNCHANGED <<dstate, held, lost, keptCopies>>
  BY DEF handler_invoker
<1>2. PICK r \in {x \in Answers(p) : Members(x.s) \subseteq Node} :
        /\ call = NULL
        /\ \E arg \in Passed(r) : noko_xml_node_set_wrap(id, arg, DocOf(heap, p))
        /\ call' = [doc |-> DocOf(heap, p), found |-> Members(r.s), mem |-> <<>>]
        /\ UNCHANGED <<dstate, held, lost, keptCopies>>
  BY <1>1
<1>3. PICK arg \in Passed(r) : noko_xml_node_set_wrap(id, arg, DocOf(heap, p))
  BY <1>2
<1> DEFINE d == DocOf(heap, p)
<1>4. HeapInv /\ copies \in CopyHeap /\ Sound(heap, dstate, NULL)
  BY DEF SInv, SetsTyped, HeapInv
<1>5. (p \in Doc \/ p \in heap.alive) /\ d \in G \cap Doc
  BY <1>4, PivotInTree
<1>6. Gathered(copies, r, NodesOf(d), NodesOf(d)) /\ r = [k |-> r.k, s |-> r.s]
  BY <1>4, <1>5, AnswerIs
<1>7. Gathered(copies, arg, NodesOf(d), NodesOf(d))
  BY <1>2, <1>4, <1>6, PassedIs
<1>8. id \in SetId
  BY <1>1, UnusedIs
<1>9. /\ \A n \in NodesOf(d) : n \in heap.alive /\ heap.doc[n] = d
      /\ \A e \in NodesOf(d) : InPlace(e)
  BY <1>4, NodesInPlace DEF NodesOf
<1>10. Members(r.s) \subseteq NodesOf(d)
  <2>1. PICK new \in SUBSET copies.fresh : Adds(copies, <<>>, r, new, NodesOf(d), NodesOf(d))
    BY <1>6 DEF Gathered
  <2>2. Members(r.s) \cap Node \subseteq NodesOf(d)
    BY <2>1, EmptyArray DEF Adds
  <2>3. QED BY <1>2, <2>2
<1>11. NodesOf(d) \subseteq Node
  BY <1>4 DEF NodesOf, Sound, Heap
<1> HIDE DEF d
<1>12. \A n \in NodesOf(d) : n \in heap.alive /\ heap.doc[n] \in G
  BY <1>5, <1>9
<1> HIDE DEF G
<1>13. /\ noko_xml_node_set_wrap(id, arg, d)
       /\ UNCHANGED <<dstate, held, lost, keptCopies>>
       /\ call' = [doc |-> d, found |-> Members(r.s), mem |-> <<>>] /\ call = NULL
  BY <1>2, <1>3 DEF d
<1>14. call' \in Evaluation
  BY <1>5, <1>10, <1>11, <1>13, EmptyArray DEF Evaluation
<1>15. \A n \in call'.found : n \in heap.alive /\ heap.doc[n] = call'.doc
  BY <1>9, <1>10, <1>13
<1>16. call = NULL /\ call'.doc = d /\ call'.mem = <<>>
  BY <1>13
<1>17. QED BY <1>5, <1>7, <1>8, <1>9, <1>12, <1>13, <1>14, <1>15, <1>16, ResultSound DEF G

\* The sets' arrays hold nothing that is still to be allocated.
LEMMA SetsNotFresh ==
  ASSUME SInv
  PROVE  /\ \A id \in Existing : /\ NotFresh(copies, sets[id].mem)
                                 /\ Members(sets[id].mem) \cap Copy \subseteq copies.live
         /\ copies \in CopyHeap /\ copies.live \cap copies.fresh = {}
         /\ copies.live \subseteq Copy /\ copies.fresh \subseteq Copy
<1>1. SetsTyped /\ CopiesSound /\ copies \in CopyHeap
  BY DEF SInv, SetsTyped
<1>2. copies.live \subseteq Copy /\ copies.fresh \subseteq Copy /\ copies.live \cap copies.fresh = {}
  BY <1>1 DEF CopyHeap, CopiesSound
<1>3. ASSUME NEW id \in Existing
      PROVE  /\ NotFresh(copies, sets[id].mem)
             /\ Members(sets[id].mem) \cap Copy \subseteq copies.live
  <2>1. sets[id].mem \in Seq(Item)
    BY <1>1, SetRecord
  <2>2. Members(sets[id].mem) \cap Copy \subseteq copies.live
    BY <1>1 DEF CopiesSound
  <2>3. QED BY <1>2, <2>1, <2>2 DEF NotFresh
<1>4. QED BY <1>1, <1>2, <1>3

\* The function returns a set, and libxml2 gets copies of its namespaces.
LEMMA MarshalSets == ASSUME SInv, marshal_return_values, Homogeneous' PROVE SInv'
<1>1. PICK id \in Existing :
        /\ call # NULL /\ call.mem = <<>>
        /\ CanCopyAll(copies, sets[id].mem)
        /\ LET r == xmlXPathNodeSetMerge(copies, <<>>, sets[id].mem)
           IN  /\ call' = [call EXCEPT !.mem = r.s]
               /\ copies' = r.k
        /\ UNCHANGED <<vars, sets, keptCopies>>
  BY DEF marshal_return_values
<1> DEFINE s == sets[id].mem
           r == xmlXPathNodeSetMerge(copies, <<>>, s)
<1>2. /\ NotFresh(copies, s) /\ Members(s) \cap Copy \subseteq copies.live
      /\ copies \in CopyHeap /\ copies.live \cap copies.fresh = {}
  BY SetsNotFresh
<1>3. CanCopyAll(copies, s) /\ call' = [call EXCEPT !.mem = r.s] /\ copies' = r.k
      /\ call # NULL /\ call.mem = <<>> /\ UNCHANGED <<vars, sets, keptCopies>>
  BY <1>1
<1>4. Gathered(copies, r, Members(s) \cap Node, ElemsOf(copies, s))
  <2> HIDE DEF s
  <2> QED BY <1>2, <1>3, CopyIs
<1>5. PICK new \in SUBSET copies.fresh :
        Adds(copies, <<>>, r, new, Members(s) \cap Node, ElemsOf(copies, s))
  BY <1>4 DEF Gathered
<1> HIDE DEF r
<1>6. /\ r.k \in CopyHeap /\ r.s \in Seq(Item)
      /\ r.k.fresh = copies.fresh \ new /\ r.k.live = copies.live \cup new
      /\ r.k.owned = copies.owned /\ r.k.stray = copies.stray
      /\ \A c \in Copy \ new : r.k.elem[c] = copies.elem[c]
      /\ \A c \in new : r.k.elem[c] \in ElemsOf(copies, s)
      /\ Members(r.s) \cap Copy = new /\ Members(r.s) \cap Node \subseteq Members(s)
  BY <1>5, EmptyArray DEF Adds
<1>7. \A e \in ElemsOf(copies, s) : InPlace(e)
  BY <1>2, ElemsInPlace
<1>8. SetsTyped /\ CopiesSound /\ Located /\ PointedInTree /\ Homogeneous
  BY DEF SInv
<1>9. Members(s) \cap Node \subseteq heap.alive
  BY <1>8 DEF PointedInTree
<1> HIDE DEF s
<1>10. CopiesGrow(new)
  BY <1>3, <1>6, <1>7 DEF CopiesGrow
<1>11. call \in Evaluation
  BY <1>3, <1>8 DEF SetsTyped
<1>12. call' \in Evaluation /\ call'.mem = r.s /\ call'.doc = call.doc /\ call'.found = call.found
  <2>1. call = [doc |-> call.doc, found |-> call.found, mem |-> call.mem]
        /\ call.doc \in Doc /\ call.found \in SUBSET Node
    BY <1>11 DEF Evaluation
  <2>2. call' = [doc |-> call.doc, found |-> call.found, mem |-> r.s]
    BY <1>3, <2>1
  <2>3. QED BY <1>6, <2>1, <2>2 DEF Evaluation
<1>13. call' # NULL /\ sets' = sets /\ Existing' = Existing /\ keptCopies' = keptCopies
  BY <1>3, <1>12, NullIsNoRecord DEF Existing
<1>14. Waiting' = Members(r.s) /\ Waiting = {}
  BY <1>3, <1>12, <1>13, EmptyArray DEF Waiting
<1>15. SetDocs' \subseteq SetDocs
  BY <1>3, <1>12, <1>13 DEF SetDocs
<1>16. HeapInv' /\ SameNodes
  BY <1>3, <1>15, HeapStays
<1>17. SetsTyped'
  BY <1>3, <1>6, <1>8, <1>12, <1>13 DEF SetsTyped
<1>18. CopiesSound'
  <2>1. copies'.live \cap copies'.fresh = {} /\ copies'.owned \cap copies'.fresh = {}
    BY <1>2, <1>3, <1>6, <1>8 DEF CopiesSound
  <2>2. ASSUME NEW j \in Existing'
        PROVE  /\ Members(sets'[j].mem) \cap Copy
                    \subseteq copies'.live \cap (copies'.owned \cup copies'.stray)
               /\ Waiting' \cap Members(sets'[j].mem) \cap Copy = {}
    <3>1. Members(sets[j].mem) \cap Copy \subseteq copies.live \cap (copies.owned \cup copies.stray)
      BY <1>8, <1>13 DEF CopiesSound
    <3>2. new \cap copies.live = {}
      BY <1>2
    <3>3. QED BY <1>3, <1>6, <1>13, <1>14, <3>1, <3>2
  <2>3. Waiting' \cap Copy \subseteq copies'.live \ copies'.owned
    BY <1>3, <1>6, <1>8, <1>14 DEF CopiesSound
  <2>4. copies'.live \subseteq copies'.owned \cup copies'.stray \cup Waiting'
    BY <1>3, <1>6, <1>8, <1>14 DEF CopiesSound
  <2>5. keptCopies' \subseteq copies'.live
    BY <1>3, <1>6, <1>8, <1>13 DEF CopiesSound
  <2>6. QED BY <2>1, <2>2, <2>3, <2>4, <2>5 DEF CopiesSound
<1>19. Located'
  BY <1>8, <1>10, <1>16, LocatedStays
<1>20. PointedInTree'
  <2>1. heap'.alive = heap.alive /\ heap'.doc = heap.doc
    BY <1>16 DEF SameNodes
  <2>2. QED BY <1>3, <1>6, <1>8, <1>9, <1>12, <1>13, <1>14, <2>1 DEF PointedInTree
<1>21. QED BY <1>16, <1>17, <1>18, <1>19, <1>20 DEF SInv

\* An array of the evaluation is made a set.
LEMMA ResultIsKept ==
  ASSUME SInv, call # NULL, call' = NULL, NEW id \in Unused,
         noko_xml_node_set_wrap(id, [k |-> copies, s |-> call.mem], call.doc),
         UNCHANGED <<dstate, held, lost, keptCopies>>, Homogeneous'
  PROVE  SInv'
<1> DEFINE G == Marked(heap, held \cup SetDocs)
           q == [mem |-> call.mem, doc |-> call.doc]
<1>1. /\ SetsTyped /\ CopiesSound /\ PointedInTree /\ Homogeneous /\ HeapInv
      /\ copies \in CopyHeap /\ call \in Evaluation
  BY DEF SInv, SetsTyped
<1>2. call.mem \in Seq(Item) /\ call.doc \in Doc
  BY <1>1 DEF Evaluation
<1>3. q \in NodeSet /\ q.mem = call.mem /\ q.doc = call.doc
  BY <1>2 DEF NodeSet
<1>4. id \in SetId /\ id \notin Existing
  BY UnusedIs
<1>5. SetDocs \subseteq G /\ call.doc \in SetDocs
  BY <1>1, KeptAreUsable DEF SetDocs
<1> HIDE DEF q, G
<1>6. /\ RoomToWrap(heap, call.mem) /\ sets' = [sets EXCEPT ![id] = q]
      /\ heap' = WrapNodes(heap, call.mem) /\ copies' = WrapCopies(copies, call.mem)
  BY DEF noko_xml_node_set_wrap, q
<1>7. Waiting = Members(call.mem) /\ Waiting' = {}
  BY DEF Waiting
<1>8. Members(call.mem) \cap Node \subseteq heap.alive
  BY <1>1, <1>7 DEF PointedInTree
<1>9. SetDocs' \subseteq G
  <2>1. SetDocs' \subseteq SetDocs \cup {q.doc}
    BY <1>1, <1>3, <1>4, <1>6, PutDocs
  <2>2. QED BY <1>3, <1>5, <2>1
<1>10. HeapInv' /\ SameNodes
  <2>1. \A n \in Members(call.mem) \cap Node : n \in heap.alive /\ heap.doc[n] \in G
    BY <1>1, <1>5, <1>8 DEF Homogeneous, Within
  <2>2. QED BY <1>2, <1>6, <1>9, <2>1, HeapWraps DEF G
<1>11. /\ copies' \in CopyHeap
       /\ copies'.fresh = copies.fresh /\ copies'.live = copies.live /\ copies'.elem = copies.elem
       /\ copies'.stray = copies.stray
       /\ copies'.owned = copies.owned \cup (Members(call.mem) \cap Copy)
  BY <1>1, <1>6 DEF WrapCopies, CopyHeap
<1>12. CopiesGrow({})
  BY <1>11 DEF CopiesGrow
<1>13. Members(q.mem) \cap Copy \subseteq copies'.live \cap (copies'.owned \cup copies'.stray)
  BY <1>1, <1>3, <1>7, <1>11 DEF CopiesSound
<1>14. keptCopies' \subseteq copies'.owned \cap copies'.live
  BY <1>1, <1>11 DEF SetsTyped, CopiesSound
<1>15. copies'.owned \subseteq copies.owned \cup Members(q.mem)
       /\ Waiting \cap Copy \subseteq copies'.owned
       /\ Members(q.mem) \cap Node \subseteq heap.alive
       /\ Members(q.mem) \cap Waiting' \cap Copy = {}
       /\ {} \subseteq copies'.owned \cup copies'.stray
  BY <1>3, <1>7, <1>8, <1>11
<1>16. QED BY <1>3, <1>4, <1>6, <1>7, <1>10, <1>12, <1>13, <1>14, <1>15, PutSound

\* The sets stay and copies are freed that are neither kept nor in a set.
LEMMA FreeingSound ==
  ASSUME SInv, UNCHANGED <<vars, sets, keptCopies>>, NEW C,
         copies' = [copies EXCEPT !.live = @ \ C],
         C \cap keptCopies = {},
         \A id \in Existing : C \cap Members(sets[id].mem) \cap Copy = {},
         (call' = call /\ C \cap Waiting = {}) \/ (call' = NULL /\ C = Waiting),
         Homogeneous'
  PROVE  SInv'
<1>1. SetsTyped /\ CopiesSound /\ PointedInTree /\ Located /\ copies \in CopyHeap
  BY DEF SInv, SetsTyped
<1>2. /\ copies' \in CopyHeap
      /\ copies'.fresh = copies.fresh /\ copies'.live = copies.live \ C /\ copies'.elem = copies.elem
      /\ copies'.stray = copies.stray /\ copies'.owned = copies.owned
  BY <1>1 DEF CopyHeap
<1>3. sets' = sets /\ Existing' = Existing /\ keptCopies' = keptCopies
  BY DEF Existing
<1>4. SetDocs' \subseteq SetDocs
  BY <1>3 DEF SetDocs
<1>5. HeapInv' /\ SameNodes
  BY <1>4, HeapStays
<1>6. (Waiting' = Waiting /\ C \cap Waiting = {}) \/ (Waiting' = {} /\ C = Waiting)
  <2>1. CASE call' = call /\ C \cap Waiting = {}
    <3>1. Waiting' = Waiting
      BY <2>1 DEF Waiting
    <3>2. QED BY <2>1, <3>1
  <2>2. CASE call' = NULL /\ C = Waiting
    <3>1. Waiting' = {}
      BY <2>2 DEF Waiting
    <3>2. QED BY <2>2, <3>1
  <2>3. QED BY <2>1, <2>2
<1>7. SetsTyped'
  BY <1>1, <1>2, <1>3 DEF SetsTyped
<1>8. CopiesSound'
  <2>1. /\ copies'.live \cap copies'.fresh = {} /\ copies'.owned \cap copies'.fresh = {}
        /\ keptCopies' \subseteq copies'.live
    BY <1>1, <1>2, <1>3 DEF CopiesSound
  <2>2. ASSUME NEW j \in Existing'
        PROVE  /\ Members(sets'[j].mem) \cap Copy
                    \subseteq copies'.live \cap (copies'.owned \cup copies'.stray)
               /\ Waiting' \cap Members(sets'[j].mem) \cap Copy = {}
    BY <1>1, <1>2, <1>3, <1>6 DEF CopiesSound
  <2>3. /\ Waiting' \cap Copy \subseteq copies'.live \ copies'.owned
        /\ copies'.live \subseteq copies'.owned \cup copies'.stray \cup Waiting'
    BY <1>1, <1>2, <1>6 DEF CopiesSound
  <2>4. QED BY <2>1, <2>2, <2>3 DEF CopiesSound
<1>9. Located'
  BY <1>1, <1>2, <1>5 DEF Located, InPlace, SameNodes
<1>10. PointedInTree'
  <2>1. call' = call \/ call' = NULL
    OBVIOUS
  <2>2. QED BY <1>1, <1>3, <1>5, <1>6, <2>1 DEF PointedInTree, SameNodes
<1>11. QED BY <1>5, <1>7, <1>8, <1>9, <1>10 DEF SInv

\* The evaluation ends: its array becomes a set, or is freed.
LEMMA EvaluationEndsSets == ASSUME SInv, EvaluationEnds, Homogeneous' PROVE SInv'
<1>1. call # NULL /\ call' = NULL /\ UNCHANGED <<dstate, held, lost, keptCopies>>
  BY DEF EvaluationEnds
<1>2. CASE \E id \in Unused :
             noko_xml_node_set_wrap(id, [k |-> copies, s |-> call.mem], call.doc)
  BY <1>1, <1>2, ResultIsKept
<1>3. CASE copies' = xmlXPathFreeNodeSet(copies, call.mem) /\ UNCHANGED <<heap, sets>>
  <2>1. Waiting = Members(call.mem) /\ CopiesSound
    BY <1>1 DEF Waiting, SInv
  <2>2. copies' = [copies EXCEPT !.live = @ \ Waiting]
    BY <1>3, <2>1 DEF xmlXPathFreeNodeSet
  <2>3. /\ Waiting \cap keptCopies = {}
        /\ \A id \in Existing : Waiting \cap Members(sets[id].mem) \cap Copy = {}
    BY <2>1 DEF CopiesSound, SInv, SetsTyped, CopyHeap
  <2>4. UNCHANGED <<vars, sets, keptCopies>>
    BY <1>1, <1>3 DEF vars
  <2>5. QED BY <1>1, <2>2, <2>3, <2>4, FreeingSound
<1>4. QED BY <1>2, <1>3 DEF EvaluationEnds

\* The Ruby object of a namespace is collected.
LEMMA DeallocSets == ASSUME SInv, xml_namespace_dealloc, Homogeneous' PROVE SInv'
<1>1. PICK c \in (copies.owned \cap copies.live) \ MarkedCopies :
        /\ copies' = [copies EXCEPT !.live = @ \ {c}]
        /\ UNCHANGED <<vars, sets, keptCopies, call>>
  BY DEF xml_namespace_dealloc
<1>2. CopiesSound
  BY DEF SInv
<1>3. {c} \cap keptCopies = {} /\ \A id \in Existing : {c} \cap Members(sets[id].mem) \cap Copy = {}
  BY <1>1 DEF MarkedCopies
<1>4. {c} \cap Waiting = {}
  BY <1>1, <1>2 DEF CopiesSound, SInv, SetsTyped, CopyHeap
<1>5. QED BY <1>1, <1>3, <1>4, FreeingSound

\* The program forgets a set or a namespace.
LEMMA ForgetSetSets ==
  ASSUME SInv, ForgetSet \/ ForgetCopy, Homogeneous'
  PROVE  SInv'
<1>1. UNCHANGED <<vars, copies, call>>
  BY DEF ForgetSet, ForgetCopy
<1>2. SetsTyped /\ CopiesSound /\ PointedInTree /\ Located
  BY DEF SInv
<1>3. /\ sets' \in [SetId -> NodeSet \cup {NULL}] /\ keptCopies' \subseteq keptCopies
      /\ \A j \in Existing' : j \in Existing /\ sets'[j] = sets[j]
  <2>1. sets \in [SetId -> NodeSet \cup {NULL}]
    BY <1>2 DEF SetsTyped
  <2>2. QED BY <2>1 DEF ForgetSet, ForgetCopy, Existing
<1>4. copies' = copies /\ call' = call /\ Waiting' = Waiting
  BY <1>1 DEF Waiting
<1>5. SetDocs' \subseteq SetDocs
  BY <1>3, <1>4 DEF SetDocs
<1>6. HeapInv' /\ SameNodes
  BY <1>1, <1>5, HeapStays
<1>7. SetsTyped'
  BY <1>2, <1>3, <1>4 DEF SetsTyped
<1>8. CopiesSound'
  BY <1>2, <1>3, <1>4 DEF CopiesSound
<1>9. PointedInTree' /\ Located'
  BY <1>2, <1>3, <1>4, <1>6 DEF PointedInTree, Located, InPlace, SameNodes
<1>10. QED BY <1>6, <1>7, <1>8, <1>9 DEF SInv

-----------------------------------------------------------------------------
(* The methods of a node set.                                              *)

\* What a program can pass is in the tree, or a namespace that it keeps.
LEMMA ArgumentIs ==
  ASSUME SInv, NEW m \in Arguments
  PROVE  /\ m \in Item \ copies.fresh
         /\ m \in Node => m \in heap.alive
         /\ m \in Copy => m \in keptCopies /\ m \in copies.live
<1>1. HeapInv /\ SetsTyped /\ CopiesSound
  BY DEF SInv
<1>2. copies.live \cap copies.fresh = {} /\ copies.live \subseteq Copy /\ copies.fresh \subseteq Copy
      /\ keptCopies \subseteq copies.live
  BY <1>1 DEF CopiesSound, SetsTyped, CopyHeap
<1>3. CASE m \in keptCopies
  <2>1. m \in Copy /\ m \notin Node
    BY <1>2, <1>3, CopiesAreNoObjects
  <2>2. QED BY <1>2, <1>3, <2>1 DEF Item
<1>4. CASE m \in {heap.ptr[w] : w \in HeldWrappers}
  <2>1. m \in Node /\ m \in heap.alive
    BY <1>1, <1>4, KeptAreUsable, HeldAreUsable
  <2>2. QED BY <1>2, <2>1, CopiesAreNoObjects DEF Item
<1>5. QED BY <1>3, <1>4 DEF Arguments

\* The members of a set are in the tree, in a document that may be used, or are copies
\* with an owner, or made by push or dup.
LEMMA MembersAre ==
  ASSUME SInv, NEW G, G = Marked(heap, held \cup SetDocs), NEW id \in Existing
  PROVE  /\ \A n \in Members(sets[id].mem) \cap Node : n \in heap.alive /\ heap.doc[n] \in G
         /\ Members(sets[id].mem) \cap Copy \subseteq copies.live \cap (copies.owned \cup copies.stray)
         /\ Members(sets[id].mem) \cap Waiting \cap Copy = {}
         /\ \A e \in ElemsOf(copies, sets[id].mem) : InPlace(e)
         /\ sets[id].doc \in SetDocs /\ sets[id].doc \in G \cap Doc
         /\ Members(sets[id].mem) \subseteq Item
<1>1. SetsTyped /\ CopiesSound /\ PointedInTree /\ Homogeneous /\ HeapInv
  BY DEF SInv
<1>2. SetDocs \subseteq G /\ sets[id].doc \in SetDocs /\ sets[id].doc \in Doc
  BY <1>1, KeptAreUsable, SetRecord DEF SetDocs
<1>3. Members(sets[id].mem) \cap Copy \subseteq copies.live \cap (copies.owned \cup copies.stray)
      /\ Members(sets[id].mem) \cap Waiting \cap Copy = {}
  BY <1>1 DEF CopiesSound
<1>4. \A n \in Members(sets[id].mem) \cap Node : n \in heap.alive /\ heap.doc[n] = sets[id].doc
  BY <1>1 DEF PointedInTree, Homogeneous, Within
<1>5. \A e \in ElemsOf(copies, sets[id].mem) : InPlace(e)
  BY <1>3, ElemsInPlace
<1>6. Members(sets[id].mem) \subseteq Item
  BY <1>1, SetRecord, MembersOfSeq
<1>7. QED BY <1>2, <1>3, <1>4, <1>5, <1>6

\* A set to whose array the method itself adds, as push and dup do.
LEMMA AddedSound ==
  ASSUME SInv, NEW id \in SetId, NEW d \in SetDocs \cap Doc,
         NEW s, Members(s) \cap Node \subseteq heap.alive,
         Members(s) \cap Copy \subseteq copies.live \cap (copies.owned \cup copies.stray),
         Members(s) \cap Waiting \cap Copy = {},
         NEW r, NEW new \in SUBSET copies.fresh, NEW N \in SUBSET heap.alive, NEW E,
         Adds(copies, s, r, new, N, E), \A e \in E : InPlace(e),
         sets' = [sets EXCEPT ![id] = [mem |-> r.s, doc |-> d]],
         copies' = [r.k EXCEPT !.stray = @ \cup (r.k.live \ copies.live)],
         UNCHANGED <<vars, keptCopies, call>>, Homogeneous'
  PROVE  SInv'
<1> DEFINE q == [mem |-> r.s, doc |-> d]
<1>1. SetsTyped /\ CopiesSound /\ PointedInTree /\ copies \in CopyHeap /\ call \in Evaluation \cup {NULL}
      /\ copies.fresh \subseteq Copy
  BY DEF SInv, SetsTyped, CopyHeap
<1>2. /\ r.k \in CopyHeap /\ r.s \in Seq(Item)
      /\ r.k.fresh = copies.fresh \ new /\ r.k.live = copies.live \cup new
      /\ r.k.owned = copies.owned /\ r.k.stray = copies.stray
      /\ \A c \in Copy \ new : r.k.elem[c] = copies.elem[c]
      /\ \A c \in new : r.k.elem[c] \in E
      /\ Members(r.s) \cap Copy = (Members(s) \cap Copy) \cup new
      /\ Members(r.s) \cap Node \subseteq Members(s) \cup N
  BY DEF Adds
<1>3. q \in NodeSet /\ q.mem = r.s /\ q.doc = d
  BY <1>2 DEF NodeSet
<1> HIDE DEF q
<1>4. new \cap copies.live = {} /\ new \cap Waiting = {}
  BY <1>1 DEF CopiesSound
<1>5. /\ copies' \in CopyHeap
      /\ copies'.fresh = r.k.fresh /\ copies'.live = r.k.live /\ copies'.elem = r.k.elem
      /\ copies'.stray = copies.stray \cup new /\ copies'.owned = copies.owned
  BY <1>1, <1>2, <1>4 DEF CopyHeap
<1>6. sets' = [sets EXCEPT ![id] = q]
  BY DEF q
<1>7. SetDocs' \subseteq SetDocs
  <2>1. SetDocs' \subseteq SetDocs \cup {q.doc}
    BY <1>1, <1>3, <1>6, PutDocs
  <2>2. QED BY <1>3, <2>1
<1>8. HeapInv' /\ SameNodes
  BY <1>7, HeapStays
<1>9. CopiesGrow(new)
  BY <1>2, <1>5 DEF CopiesGrow
<1>10. Waiting' = Waiting /\ call' = call /\ keptCopies' = keptCopies
  BY DEF Waiting
<1>11. keptCopies' \subseteq copies'.owned \cap copies'.live
  BY <1>1, <1>2, <1>5, <1>10 DEF SetsTyped, CopiesSound
<1>12. /\ Members(q.mem) \cap Node \subseteq heap.alive
       /\ copies'.owned \subseteq copies.owned \cup Members(q.mem)
       /\ new \subseteq copies'.owned \cup copies'.stray
       /\ Members(q.mem) \cap Copy \subseteq copies'.live \cap (copies'.owned \cup copies'.stray)
       /\ Members(q.mem) \cap Waiting' \cap Copy = {}
  BY <1>2, <1>3, <1>4, <1>5, <1>10
<1>13. /\ call' \in Evaluation \cup {NULL}
       /\ call' # NULL => \A n \in call'.found : n \in heap.alive /\ heap.doc[n] = call'.doc
  BY <1>1, <1>10 DEF PointedInTree
<1>14. QED BY <1>3, <1>6, <1>8, <1>9, <1>10, <1>11, <1>12, <1>13, PutSound

\* NodeSet#push of a node or a namespace.
LEMMA PushSets == ASSUME SInv, push, Homogeneous' PROVE SInv'
<1> DEFINE G == Marked(heap, held \cup SetDocs)
<1>1. PICK id \in Existing, m \in Arguments :
        LET r == xmlXPathNodeSetAdd(copies, sets[id].mem, m)
        IN  /\ CanCopyAll(copies, <<m>>)
            /\ sets' = [sets EXCEPT ![id].mem = r.s]
            /\ copies' = [r.k EXCEPT !.stray = @ \cup (r.k.live \ copies.live)]
            /\ UNCHANGED <<vars, keptCopies, call>>
  BY DEF push
<1> DEFINE s == sets[id].mem
           r == xmlXPathNodeSetAdd(copies, s, m)
<1>2. /\ CanCopyAll(copies, <<m>>)
      /\ sets' = [sets EXCEPT ![id].mem = r.s]
      /\ copies' = [r.k EXCEPT !.stray = @ \cup (r.k.live \ copies.live)]
      /\ UNCHANGED <<vars, keptCopies, call>>
  BY <1>1
<1>3. NotFresh(copies, s) /\ copies \in CopyHeap
  BY SetsNotFresh
<1>4. /\ m \in Item \ copies.fresh
      /\ m \in Node => m \in heap.alive
      /\ m \in Copy => m \in copies.live
  BY ArgumentIs
<1>5. /\ \A n \in Members(s) \cap Node : n \in heap.alive
      /\ Members(s) \cap Copy \subseteq copies.live \cap (copies.owned \cup copies.stray)
      /\ Members(s) \cap Waiting \cap Copy = {}
      /\ sets[id].doc \in SetDocs \cap Doc
  BY MembersAre
<1>6. SetsTyped
  BY DEF SInv
<1>7. id \in SetId /\ \A t \in Seq(Item) : [sets EXCEPT ![id].mem = t]
                                            = [sets EXCEPT ![id] = [mem |-> t, doc |-> sets[id].doc]]
  BY <1>6, SetRecord
<1> HIDE DEF s, r
<1>8. PICK new \in SUBSET copies.fresh :
        Adds(copies, s, r, new, {m} \cap Node, ElemsOf(copies, <<m>>))
  BY <1>2, <1>3, <1>4, AddIs DEF r
<1>9. r.s \in Seq(Item)
  BY <1>8 DEF Adds
<1>10. sets' = [sets EXCEPT ![id] = [mem |-> r.s, doc |-> sets[id].doc]]
  BY <1>2, <1>7, <1>9
<1>11. \A e \in ElemsOf(copies, <<m>>) : InPlace(e)
  <2>1. Members(<<m>>) = {m}
    BY DEF Members
  <2>2. QED BY <1>4, <2>1, ElemsInPlace
<1>12. {m} \cap Node \in SUBSET heap.alive /\ Members(s) \cap Node \subseteq heap.alive
  BY <1>4, <1>5
<1>13. QED BY <1>2, <1>5, <1>7, <1>8, <1>10, <1>11, <1>12, AddedSound, ZenonT(60)

\* NodeSet#dup.
LEMMA DupSets == ASSUME SInv, initialize_copy, Homogeneous' PROVE SInv'
<1> DEFINE G == Marked(heap, held \cup SetDocs)
<1>1. PICK id \in Existing, to \in Unused :
        LET r == xmlXPathNodeSetMerge(copies, <<>>, sets[id].mem)
        IN  /\ CanCopyAll(copies, sets[id].mem)
            /\ sets' = [sets EXCEPT ![to] = [mem |-> r.s, doc |-> sets[id].doc]]
            /\ copies' = [r.k EXCEPT !.stray = @ \cup (r.k.live \ copies.live)]
            /\ UNCHANGED <<vars, keptCopies, call>>
  BY DEF initialize_copy
<1> DEFINE s == sets[id].mem
           r == xmlXPathNodeSetMerge(copies, <<>>, s)
<1>2. /\ CanCopyAll(copies, s)
      /\ sets' = [sets EXCEPT ![to] = [mem |-> r.s, doc |-> sets[id].doc]]
      /\ copies' = [r.k EXCEPT !.stray = @ \cup (r.k.live \ copies.live)]
      /\ UNCHANGED <<vars, keptCopies, call>>
  BY <1>1
<1>3. NotFresh(copies, s) /\ copies \in CopyHeap
  BY SetsNotFresh
<1>4. /\ \A n \in Members(s) \cap Node : n \in heap.alive
      /\ sets[id].doc \in SetDocs \cap Doc
      /\ \A e \in ElemsOf(copies, s) : InPlace(e)
  BY MembersAre
<1>5. to \in SetId
  BY UnusedIs
<1> HIDE DEF s, r
<1>6. Gathered(copies, r, Members(s) \cap Node, ElemsOf(copies, s))
  BY <1>2, <1>3, CopyIs DEF r
<1>7. PICK new \in SUBSET copies.fresh :
        Adds(copies, <<>>, r, new, Members(s) \cap Node, ElemsOf(copies, s))
  BY <1>6 DEF Gathered
<1>8. Members(s) \cap Node \in SUBSET heap.alive /\ Members(<<>>) = {}
  BY <1>4, EmptyArray
<1>9. QED BY <1>2, <1>4, <1>5, <1>7, <1>8, AddedSound

\* NodeSet#delete frees no namespace.
LEMMA DeleteSets == ASSUME SInv, delete, Homogeneous' PROVE SInv'
<1> DEFINE G == Marked(heap, held \cup SetDocs)
<1>1. PICK id \in Existing, m \in Arguments :
        LET r == xpath_node_set_del([k |-> copies, s |-> sets[id].mem], m)
        IN  /\ xmlXPathNodeSetContains(copies, sets[id].mem, m)
            /\ sets' = [sets EXCEPT ![id].mem = r.s]
            /\ copies' = r.k
            /\ UNCHANGED <<vars, keptCopies, call>>
  BY DEF delete
<1> DEFINE s == sets[id].mem
           t == Without(s, m)
           q == [mem |-> t, doc |-> sets[id].doc]
<1>2. /\ sets' = [sets EXCEPT ![id].mem = t] /\ copies' = copies
      /\ UNCHANGED <<vars, keptCopies, call>>
  BY <1>1 DEF xpath_node_set_del
<1>3. SetsTyped /\ CopiesSound /\ PointedInTree /\ copies \in CopyHeap /\ call \in Evaluation \cup {NULL}
  BY DEF SInv, SetsTyped
<1>4. /\ id \in SetId /\ s \in Seq(Item)
      /\ \A u \in Seq(Item) : /\ [sets EXCEPT ![id].mem = u]
                                    = [sets EXCEPT ![id] = [mem |-> u, doc |-> sets[id].doc]]
                              /\ [mem |-> u, doc |-> sets[id].doc] \in NodeSet
  BY <1>3, SetRecord
<1>5. /\ \A n \in Members(s) \cap Node : n \in heap.alive
      /\ Members(s) \cap Copy \subseteq copies.live \cap (copies.owned \cup copies.stray)
      /\ Members(s) \cap Waiting \cap Copy = {}
      /\ sets[id].doc \in SetDocs
  BY MembersAre
<1> HIDE DEF s
<1>6. t \in Seq(Item) /\ Members(t) \subseteq Members(s)
  BY <1>4, DelIs
<1> HIDE DEF t
<1>7. q \in NodeSet /\ sets' = [sets EXCEPT ![id] = q]
  BY <1>2, <1>4, <1>6
<1>8. q.mem = t /\ q.doc = sets[id].doc
  OBVIOUS
<1> HIDE DEF q
<1>9. SetDocs' \subseteq SetDocs
  <2>1. SetDocs' \subseteq SetDocs \cup {q.doc}
    BY <1>2, <1>3, <1>4, <1>7, PutDocs
  <2>2. QED BY <1>5, <1>8, <2>1
<1>10. HeapInv' /\ SameNodes
  BY <1>2, <1>9, HeapStays
<1>11. CopiesGrow({})
  BY <1>2, <1>3 DEF CopiesGrow
<1>12. Waiting' = Waiting /\ call' = call /\ keptCopies' = keptCopies
  BY <1>2 DEF Waiting
<1>13. keptCopies' \subseteq copies'.owned \cap copies'.live
  BY <1>2, <1>3, <1>12 DEF SetsTyped, CopiesSound
<1>14. /\ Members(q.mem) \cap Node \subseteq heap.alive
       /\ copies'.owned \subseteq copies.owned \cup Members(q.mem)
       /\ {} \subseteq copies'.owned \cup copies'.stray
       /\ Members(q.mem) \cap Copy \subseteq copies'.live \cap (copies'.owned \cup copies'.stray)
       /\ Members(q.mem) \cap Waiting' \cap Copy = {}
  BY <1>2, <1>5, <1>6, <1>8, <1>12
<1>15. /\ call' \in Evaluation \cup {NULL}
       /\ call' # NULL => \A n \in call'.found : n \in heap.alive /\ heap.doc[n] = call'.doc
  BY <1>3, <1>12 DEF PointedInTree
<1>16. QED BY <1>4, <1>7, <1>10, <1>11, <1>12, <1>13, <1>14, <1>15, PutSound

\* The result of an operator on the sets id and other.
LEMMA OperatorSound ==
  ASSUME SInv, NEW id \in Existing, NEW other \in Existing, NEW r,
         NEW N, N = (Members(sets[id].mem) \cup Members(sets[other].mem)) \cap Node,
         NEW E, E = ElemsOf(copies, sets[id].mem) \cup ElemsOf(copies, sets[other].mem),
         \E new \in SUBSET copies.fresh : Adds(copies, <<>>, r, new, N, E),
         noko_xml_node_set_wrap(Beside(id), r, sets[id].doc),
         UNCHANGED <<dstate, held, lost, keptCopies, call>>, Homogeneous'
  PROVE  SInv'
<1> DEFINE G == Marked(heap, held \cup SetDocs)
           to == Beside(id)
           d == sets[id].doc
<1>1. /\ \A n \in N : n \in heap.alive /\ heap.doc[n] \in G
      /\ \A e \in E : InPlace(e)
      /\ d \in G \cap Doc
  BY MembersAre
<1>2. to \in SetId /\ Gathered(copies, r, N, E)
  BY UnusedIs DEF Gathered
<1>3. /\ call' \in Evaluation \cup {NULL} /\ call' = call
      /\ call' # NULL => \A n \in call'.found : n \in heap.alive /\ heap.doc[n] = call'.doc
  BY DEF SInv, SetsTyped, PointedInTree
<1>4. noko_xml_node_set_wrap(to, r, d) /\ UNCHANGED <<dstate, held, lost, keptCopies>>
  OBVIOUS
<1>5. G = Marked(heap, held \cup SetDocs)
  OBVIOUS
<1> HIDE DEF G, to, d
<1>6. QED BY <1>1, <1>2, <1>3, <1>4, <1>5, ResultSound, ZenonT(60)

\* The operators &, | and - of two sets.
LEMMA OperatorSets == ASSUME SInv, SetOperators, Homogeneous' PROVE SInv'
<1>1. PICK id \in Existing, other \in Existing :
        LET s == sets[id].mem
            t == sets[other].mem
            keep(r) == noko_xml_node_set_wrap(Beside(id), r, sets[id].doc)
        IN  /\ CanCopyAll(copies, s \o t)
            /\ \/ keep(intersection(copies, s, t))
               \/ keep(rb_xml_node_set_union(copies, s, t))
               \/ keep(minus(copies, s, t))
            /\ UNCHANGED <<dstate, held, lost, keptCopies, call>>
  BY DEF SetOperators
<1> DEFINE s == sets[id].mem
           t == sets[other].mem
           N == (Members(s) \cup Members(t)) \cap Node
           E == ElemsOf(copies, s) \cup ElemsOf(copies, t)
<1>2. NotFresh(copies, s) /\ NotFresh(copies, t) /\ copies \in CopyHeap
  BY SetsNotFresh
<1>3. CanCopyAll(copies, s \o t) /\ UNCHANGED <<dstate, held, lost, keptCopies, call>>
  BY <1>1
<1>4. CanCopyAll(copies, s)
  <2> HIDE DEF s, t
  <2> QED BY <1>2, <1>3, ConcatRoom DEF NotFresh
<1>5. PICK r : /\ noko_xml_node_set_wrap(Beside(id), r, sets[id].doc)
               /\ \/ r = intersection(copies, s, t)
                  \/ r = rb_xml_node_set_union(copies, s, t)
                  \/ r = minus(copies, s, t)
  BY <1>1
<1>6. \E new \in SUBSET copies.fresh : Adds(copies, <<>>, r, new, N, E)
  <2> HIDE DEF s, t
  <2>1. ASSUME Gathered(copies, r, Members(s) \cap Node, ElemsOf(copies, s))
        PROVE  \E new \in SUBSET copies.fresh : Adds(copies, <<>>, r, new, N, E)
    <3>1. PICK new \in SUBSET copies.fresh :
            Adds(copies, <<>>, r, new, Members(s) \cap Node, ElemsOf(copies, s))
      BY <2>1 DEF Gathered
    <3>2. Members(s) \cap Node \subseteq N /\ ElemsOf(copies, s) \subseteq E
      OBVIOUS
    <3> HIDE DEF N, E
    <3>3. Adds(copies, <<>>, r, new, N, E)
      BY <3>1, <3>2, AddsMore
    <3>4. QED BY <3>3
  <2>2. CASE r = intersection(copies, s, t)
    BY <1>2, <1>4, <2>1, <2>2, IntersectionIs
  <2>3. CASE r = minus(copies, s, t)
    BY <1>2, <1>4, <2>1, <2>3, MinusIs
  <2>4. CASE r = rb_xml_node_set_union(copies, s, t)
    BY <1>2, <1>3, <2>4, UnionIs DEF Gathered
  <2>5. QED BY <1>5, <2>2, <2>3, <2>4
<1>7. QED BY <1>3, <1>5, <1>6, OperatorSound

\* NodeSet#[start, length].
LEMMA SliceSets == ASSUME SInv, slice, Homogeneous' PROVE SInv'
<1>1. PICK id \in Existing : \E beg, len \in 0 .. Len(sets[id].mem) :
        /\ CanCopyAll(copies, sets[id].mem)
        /\ noko_xml_node_set_wrap(Beside(id), subseq(copies, sets[id].mem, beg, len), sets[id].doc)
        /\ UNCHANGED <<dstate, held, lost, keptCopies, call>>
  BY DEF slice
<1> DEFINE s == sets[id].mem
<1>2. PICK beg \in 0 .. Len(s), len \in 0 .. Len(s) :
        /\ CanCopyAll(copies, s)
        /\ noko_xml_node_set_wrap(Beside(id), subseq(copies, s, beg, len), sets[id].doc)
        /\ UNCHANGED <<dstate, held, lost, keptCopies, call>>
  BY <1>1
<1> DEFINE r == subseq(copies, s, beg, len)
<1>3. NotFresh(copies, s) /\ copies \in CopyHeap
  BY SetsNotFresh
<1>4. Gathered(copies, r, Members(s) \cap Node, ElemsOf(copies, s))
  <2> HIDE DEF s
  <2>1. len \in Nat
    BY <1>2
  <2>2. QED BY <1>2, <1>3, <2>1, SubseqIs
<1>5. noko_xml_node_set_wrap(Beside(id), r, sets[id].doc)
  BY <1>2
<1> HIDE DEF r
<1>6. \E new \in SUBSET copies.fresh :
        Adds(copies, <<>>, r, new, (Members(s) \cup Members(s)) \cap Node,
             ElemsOf(copies, s) \cup ElemsOf(copies, s))
  <2>1. (Members(s) \cup Members(s)) \cap Node = Members(s) \cap Node
        /\ ElemsOf(copies, s) \cup ElemsOf(copies, s) = ElemsOf(copies, s)
    OBVIOUS
  <2>2. QED BY <1>4, <2>1 DEF Gathered
<1>7. QED BY <1>2, <1>5, <1>6, OperatorSound

\* NodeSet#[i] makes, and keeps, the Ruby object of a member.
LEMMA IndexSets == ASSUME SInv, index_at, Homogeneous' PROVE SInv'
<1> DEFINE G == Marked(heap, held \cup SetDocs)
<1>1. PICK id \in Existing : \E m \in Members(sets[id].mem) :
        /\ RoomToWrap(heap, <<m>>)
        /\ heap' = WrapNodes(heap, <<m>>)
        /\ copies' = WrapCopies(copies, <<m>>)
        /\ held' = held \cup IF m \in Node THEN {WrapNodes(heap, <<m>>).priv[m]} ELSE {}
        /\ keptCopies' = keptCopies \cup ({m} \cap Copy)
        /\ UNCHANGED <<dstate, lost, sets, call>>
  BY DEF index_at
<1> DEFINE s == sets[id].mem
           q == sets[id]
<1>2. PICK m \in Members(s) :
        /\ RoomToWrap(heap, <<m>>)
        /\ heap' = WrapNodes(heap, <<m>>)
        /\ copies' = WrapCopies(copies, <<m>>)
        /\ held' = held \cup IF m \in Node THEN {WrapNodes(heap, <<m>>).priv[m]} ELSE {}
        /\ keptCopies' = keptCopies \cup ({m} \cap Copy)
        /\ UNCHANGED <<dstate, lost, sets, call>>
  BY <1>1
<1>3. SetsTyped /\ CopiesSound /\ PointedInTree /\ HeapInv
      /\ copies \in CopyHeap /\ call \in Evaluation \cup {NULL}
  BY DEF SInv, SetsTyped
<1>4. /\ \A n \in Members(s) \cap Node : n \in heap.alive /\ heap.doc[n] \in G
      /\ Members(s) \cap Copy \subseteq copies.live \cap (copies.owned \cup copies.stray)
      /\ Members(s) \cap Waiting \cap Copy = {}
      /\ Members(s) \subseteq Item
  BY MembersAre
<1>5. id \in SetId /\ q \in NodeSet /\ q.mem = s /\ sets \in [SetId -> NodeSet \cup {NULL}]
  BY <1>3, SetRecord DEF SetsTyped
<1>6. G = Marked(heap, held \cup SetDocs)
  OBVIOUS
<1>7. sets' = [sets EXCEPT ![id] = q] /\ SetDocs' = SetDocs
  BY <1>2, <1>5 DEF SetDocs, Existing
<1> HIDE DEF G, s, q
<1>8. <<m>> \in Seq(Item) /\ Members(<<m>>) = {m}
  BY <1>2, <1>4 DEF Members
<1>9. HeapInv' /\ SameNodes
  <2>1. SetDocs' \subseteq G
    BY <1>3, <1>6, <1>7, KeptAreUsable
  <2>2. \A o \in held' : o \in held \/ \E n \in Members(<<m>>) \cap Node : o = heap'.priv[n]
    BY <1>2, <1>8
  <2>3. \A n \in Members(<<m>>) \cap Node : n \in heap.alive /\ heap.doc[n] \in G
    BY <1>2, <1>4, <1>8
  <2>4. QED BY <1>2, <1>6, <1>8, <2>1, <2>2, <2>3, HeapWraps
<1>10. /\ copies' \in CopyHeap
       /\ copies'.fresh = copies.fresh /\ copies'.live = copies.live /\ copies'.elem = copies.elem
       /\ copies'.stray = copies.stray
       /\ copies'.owned = copies.owned \cup ({m} \cap Copy)
  BY <1>2, <1>3, <1>8 DEF WrapCopies, CopyHeap
<1>11. CopiesGrow({})
  BY <1>10 DEF CopiesGrow
<1>12. Waiting' = Waiting /\ call' = call
  BY <1>2 DEF Waiting
<1>13. keptCopies' \subseteq copies'.owned \cap copies'.live
  <2>1. keptCopies \subseteq copies.owned /\ keptCopies \subseteq copies.live
    BY <1>3 DEF SetsTyped, CopiesSound
  <2>2. {m} \cap Copy \subseteq copies.live
    BY <1>2, <1>4
  <2>3. QED BY <1>2, <1>10, <2>1, <2>2
<1>14. /\ Members(q.mem) \cap Node \subseteq heap.alive
       /\ copies'.owned \subseteq copies.owned \cup Members(q.mem)
       /\ {} \subseteq copies'.owned \cup copies'.stray
       /\ Members(q.mem) \cap Copy \subseteq copies'.live \cap (copies'.owned \cup copies'.stray)
       /\ Members(q.mem) \cap Waiting' \cap Copy = {}
  BY <1>2, <1>4, <1>5, <1>10, <1>12
<1>15. /\ call' \in Evaluation \cup {NULL}
       /\ call' # NULL => \A n \in call'.found : n \in heap.alive /\ heap.doc[n] = call'.doc
  BY <1>3, <1>12 DEF PointedInTree
<1>16. QED BY <1>5, <1>7, <1>9, <1>11, <1>12, <1>13, <1>14, <1>15, PutSound

\* NodeSet#unlink: every member becomes the node that its wrapper points at.
LEMMA UnlinkSetSets == ASSUME SInv, unlink_nodeset, Homogeneous' PROVE SInv'
<1> DEFINE G == Marked(heap, held \cup SetDocs)
<1>1. PICK id \in Existing :
        LET s == sets[id].mem
            h == WrapNodes(heap, s)
            now(m) == IF m \in Node THEN h.ptr[h.priv[m]] ELSE m
            gone == {now(m) : m \in Members(s) \cap Node}
        IN  /\ RoomToWrap(heap, s)
            /\ heap' = UnlinkAll(h, gone)
            /\ sets' = [sets EXCEPT ![id].mem = [i \in DOMAIN s |-> now(s[i])]]
            /\ UNCHANGED <<dstate, held, lost, copies, keptCopies, call>>
  BY DEF unlink_nodeset
<1> DEFINE s == sets[id].mem
           h == WrapNodes(heap, s)
           now == [m \in Item |-> IF m \in Node THEN h.ptr[h.priv[m]] ELSE m]
           gone == {now[m] : m \in Members(s) \cap Node}
           t == [i \in DOMAIN s |-> now[s[i]]]
           q == [mem |-> t, doc |-> sets[id].doc]
<1>2. SetsTyped /\ CopiesSound /\ PointedInTree /\ HeapInv
      /\ copies \in CopyHeap /\ call \in Evaluation \cup {NULL}
  BY DEF SInv, SetsTyped
<1>3. /\ \A n \in Members(s) \cap Node : n \in heap.alive /\ heap.doc[n] \in G
      /\ Members(s) \cap Copy \subseteq copies.live \cap (copies.owned \cup copies.stray)
      /\ Members(s) \cap Waiting \cap Copy = {}
      /\ Members(s) \subseteq Item
      /\ sets[id].doc \in SetDocs
  BY MembersAre
<1>4. /\ id \in SetId /\ s \in Seq(Item)
      /\ \A u \in Seq(Item) : /\ [sets EXCEPT ![id].mem = u]
                                    = [sets EXCEPT ![id] = [mem |-> u, doc |-> sets[id].doc]]
                              /\ [mem |-> u, doc |-> sets[id].doc] \in NodeSet
  BY <1>2, SetRecord
<1>5. \A i \in DOMAIN s : s[i] \in Item
  BY <1>4
<1>6. /\ RoomToWrap(heap, s)
      /\ heap' = UnlinkAll(h, gone)
      /\ sets' = [sets EXCEPT ![id].mem = t]
      /\ UNCHANGED <<dstate, held, lost, copies, keptCopies, call>>
  <2> DEFINE at(m) == IF m \in Node THEN h.ptr[h.priv[m]] ELSE m
  <2>1. \A m \in Item : now[m] = at(m)
    OBVIOUS
  <2>2. {at(m) : m \in Members(s) \cap Node} = gone
    BY <2>1, SMTT(30) DEF Item
  <2>3. [i \in DOMAIN s |-> at(s[i])] = t
    BY <1>5, <2>1
  <2>4. /\ RoomToWrap(heap, s)
        /\ heap' = UnlinkAll(h, {at(m) : m \in Members(s) \cap Node})
        /\ sets' = [sets EXCEPT ![id].mem = [i \in DOMAIN s |-> at(s[i])]]
        /\ UNCHANGED <<dstate, held, lost, copies, keptCopies, call>>
    BY <1>1
  <2> HIDE DEF at, gone, t, h, now
  <2>5. QED BY <2>2, <2>3, <2>4
<1>7. /\ Usable(heap, dstate, G) /\ Sound(heap, dstate, NULL) /\ held \subseteq G /\ SetDocs \subseteq G
  <2> HIDE DEF G
  <2>1. G = Marked(heap, held \cup SetDocs)
    BY DEF G
  <2>2. QED BY <1>2, <2>1, KeptAreUsable DEF HeapInv
<1> HIDE DEF G, s
<1>8. Made(heap, dstate, G, s, h)
  BY <1>3, <1>4, <1>6, <1>7, WrapNodesMakes
<1> HIDE DEF h
<1>9. Sound(h, dstate, NULL) /\ SameTree(heap, h)
  BY <1>8 DEF Made
<1>10. PICK F : /\ Usable(h, dstate, F) /\ G \subseteq F
                /\ \A n \in Members(s) \cap Node : h.priv[n] \in F \cap Wrapper
  BY <1>8 DEF Made
<1>11. h.alive \subseteq Node
  BY <1>9 DEF Sound, Heap
<1>12. \A n \in Members(s) \cap Node : now[n] \in h.alive
  BY <1>3, <1>10 DEF Usable
<1>13. \A y \in Members(s) : now[y] \in Item /\ (y \notin Node => now[y] = y)
  BY <1>3, <1>11, <1>12 DEF Item
<1>14. t \in Seq(Item) /\ Members(t) = {now[y] : y \in Members(s)}
  <2> HIDE DEF now
  <2> QED BY <1>4, <1>13, MappedSeq
<1>15. gone \subseteq h.alive
  BY <1>12
<1> HIDE DEF now, gone, t
<1>16. /\ Sound(heap', dstate, NULL) /\ Keeps(h, heap')
       /\ heap'.alive = h.alive /\ heap'.doc = h.doc /\ heap'.fresh = h.fresh
  BY <1>6, <1>9, <1>15, UnlinkAllSound
<1>17. Usable(heap', dstate, F)
  BY <1>10, <1>16, KeepsUsable
<1>18. SameNodes
  BY <1>6, <1>9, <1>16 DEF SameNodes, SameTree
<1>19. q \in NodeSet /\ sets' = [sets EXCEPT ![id] = q]
  BY <1>4, <1>6, <1>14
<1>20. q.mem = t /\ q.doc = sets[id].doc
  OBVIOUS
<1> HIDE DEF q
<1>21. SetDocs' \subseteq SetDocs
  <2>1. SetDocs' \subseteq SetDocs \cup {q.doc}
    BY <1>2, <1>4, <1>6, <1>19, PutDocs
  <2>2. QED BY <1>3, <1>20, <2>1
<1>22. HeapInv'
  <2>1. /\ Sound(heap', dstate', NULL) /\ Usable(heap', dstate', F) /\ dstate' \in DState
        /\ held' \cup SetDocs' \subseteq F /\ lost' \subseteq Node
    BY <1>2, <1>6, <1>7, <1>10, <1>16, <1>17, <1>21 DEF HeapInv
  <2>2. QED BY <2>1, ReachSets
<1>23. CopiesGrow({})
  BY <1>2, <1>6 DEF CopiesGrow
<1>24. Waiting' = Waiting /\ call' = call /\ keptCopies' = keptCopies /\ copies' = copies
  BY <1>6 DEF Waiting
<1>25. keptCopies' \subseteq copies'.owned \cap copies'.live
  BY <1>2, <1>24 DEF SetsTyped, CopiesSound
<1>26. Members(t) \cap Node \subseteq heap.alive /\ Members(t) \cap Copy \subseteq Members(s)
  <2>1. SUFFICES ASSUME NEW y \in Members(s)
        PROVE  /\ now[y] \in Node => now[y] \in heap.alive
               /\ now[y] \in Copy => now[y] \in Members(s)
    BY <1>14
  <2>2. CASE y \in Node
    BY <1>9, <1>11, <1>12, <2>2, CopiesAreNoObjects DEF SameTree
  <2>3. CASE y \notin Node
    BY <1>13, <2>3
  <2>4. QED BY <2>2, <2>3
<1>27. /\ Members(q.mem) \cap Node \subseteq heap.alive
       /\ copies'.owned \subseteq copies.owned \cup Members(q.mem)
       /\ {} \subseteq copies'.owned \cup copies'.stray
       /\ Members(q.mem) \cap Copy \subseteq copies'.live \cap (copies'.owned \cup copies'.stray)
       /\ Members(q.mem) \cap Waiting' \cap Copy = {}
  BY <1>3, <1>20, <1>24, <1>26
<1>28. /\ call' \in Evaluation \cup {NULL}
       /\ call' # NULL => \A n \in call'.found : n \in heap.alive /\ heap.doc[n] = call'.doc
  BY <1>2, <1>24 DEF PointedInTree
<1>29. QED BY <1>4, <1>18, <1>19, <1>22, <1>23, <1>24, <1>25, <1>27, <1>28, PutSound

-----------------------------------------------------------------------------
(* The invariant is inductive.                                             *)

\* No set yet, and a heap that the parser left.
LEMMA InitSInv == InitSets => SInv
<1> SUFFICES ASSUME InitSets PROVE SInv
  OBVIOUS
<1>1. PICK C \in SUBSET Copy : NoSets(C)
  BY DEF InitSets
<1>2. IInv
  BY InitInv DEF InitSets
<1>3. /\ sets = [id \in SetId |-> NULL] /\ call = NULL /\ keptCopies = {}
      /\ copies = [fresh |-> C, live |-> {}, elem |-> [c \in Copy |-> NULL],
                   owned |-> {}, stray |-> {}]
  BY <1>1 DEF NoSets
<1>4. Existing = {} /\ Waiting = {}
  BY <1>3 DEF Existing, Waiting
<1>5. SetDocs = {}
  BY <1>3, <1>4 DEF SetDocs
<1>6. held \cup SetDocs = held
  BY <1>5
<1>7. HeapInv
  BY <1>2, <1>6 DEF IInv, HeapInv
<1>8. SetsTyped
  <2>1. copies \in CopyHeap
    BY <1>3 DEF CopyHeap
  <2>2. QED BY <1>3, <2>1 DEF SetsTyped
<1>9. CopiesSound /\ Located /\ PointedInTree /\ Homogeneous
  BY <1>3, <1>4 DEF CopiesSound, Located, PointedInTree, Homogeneous
<1>10. QED BY <1>7, <1>8, <1>9 DEF SInv

\* Every operation on sets, and every operation on nodes beside them.
LEMMA StepSInv == SInv /\ [NextSets]_allVars => SInv'
<1> SUFFICES ASSUME SInv, [NextSets]_allVars PROVE SInv'
  OBVIOUS
<1>1. CASE UNCHANGED allVars
  <2>1. UNCHANGED <<heap, dstate, held, lost, sets, copies, keptCopies, call>>
    BY <1>1 DEF allVars, vars, setVars
  <2>2. QED BY <2>1 DEF SInv, HeapInv, SetsTyped, PointedInTree, Located, InPlace, CopiesSound,
                        Homogeneous, Within, SetDocs, Existing, Waiting
<1>2. CASE SetNext /\ Homogeneous'
  <2>1. CASE noko_xml_xpath_context_evaluate
    BY <1>2, <2>1, EvaluateSets
  <2>2. CASE handler_invoker
    BY <1>2, <2>2, InvokerSets
  <2>3. CASE marshal_return_values
    BY <1>2, <2>3, MarshalSets
  <2>4. CASE EvaluationEnds
    BY <1>2, <2>4, EvaluationEndsSets
  <2>5. CASE push
    BY <1>2, <2>5, PushSets
  <2>6. CASE delete
    BY <1>2, <2>6, DeleteSets
  <2>7. CASE SetOperators
    BY <1>2, <2>7, OperatorSets
  <2>8. CASE slice
    BY <1>2, <2>8, SliceSets
  <2>9. CASE initialize_copy
    BY <1>2, <2>9, DupSets
  <2>10. CASE index_at
    BY <1>2, <2>10, IndexSets
  <2>11. CASE unlink_nodeset
    BY <1>2, <2>11, UnlinkSetSets
  <2>12. CASE xml_namespace_dealloc
    BY <1>2, <2>12, DeallocSets
  <2>13. CASE ForgetSet \/ ForgetCopy
    BY <1>2, <2>13, ForgetSetSets
  <2>14. QED BY <1>2, <2>1, <2>2, <2>3, <2>4, <2>5, <2>6, <2>7, <2>8, <2>9, <2>10, <2>11,
                <2>12, <2>13 DEF SetNext
<1>3. CASE TreeNext /\ Homogeneous'
  BY <1>3, TreeSets
<1>4. QED BY <1>1, <1>2, <1>3 DEF NextSets, NextMixed

\* The invariant holds in every state of a program that keeps its sets homogeneous.
THEOREM InductiveSets == SpecSets => []SInv
BY InitSInv, StepSInv, PTL DEF SpecSets

-----------------------------------------------------------------------------
(* What follows from it.                                                   *)

\* The nodes and the documents are as NodeLifecycle keeps them.
LEMMA SInvKeepsIInv == SInv => IInv
BY KeptAreUsable DEF SInv

\* The sets, the copies and the evaluation have their types.
THEOREM SetsTypeOKHolds == SpecSets => []SetsTypeOK
<1>1. SInv => SetsTypeOK
  BY SInvKeepsIInv, InvHasTypes DEF SInv, SetsTyped, SetsTypeOK
<1>2. QED BY <1>1, InductiveSets, PTL

\* Beside the sets, the wrappers of nodes are as safe as without them: none points at
\* freed memory, none that can be found was swept, no node is freed twice, and a text
\* in a tree agrees with its wrapper.
THEOREM SetsSpareTheTree ==
  SpecSets => [](/\ NoDanglingWrapper /\ WrapReturnsLiveObject
                 /\ DeallocFreesOnce /\ TextWrapperAgrees)
<1>1. SInv => /\ NoDanglingWrapper /\ WrapReturnsLiveObject
              /\ DeallocFreesOnce /\ TextWrapperAgrees
  BY SInvKeepsIInv, InvSparesWrapped, InvReachesWrappers, InvFreesOnce, InvTextsAgree
<1>2. QED BY <1>1, InductiveSets, PTL

\* The documents of the sets are live.
LEMMA SetDocsLive ==
  ASSUME SInv, NEW d \in SetDocs, d \in Doc
  PROVE  dstate[d] = "live"
<1> DEFINE G == Marked(heap, held \cup SetDocs)
<1>1. Usable(heap, dstate, G) /\ SetDocs \subseteq G
  BY KeptAreUsable DEF SInv
<1> HIDE DEF G
<1>2. QED BY <1>1 DEF Usable

\* An array of nodes and namespaces of a live document has no freed member.
LEMMA WithinIsAlive ==
  ASSUME SInv, NEW d \in SetDocs, NEW s, Within(s, d),
         Members(s) \cap Node \subseteq heap.alive, Members(s) \cap Copy \subseteq copies.live
  PROVE  /\ \A n \in Members(s) \cap Node : n \in heap.alive /\ dstate[heap.doc[n]] = "live"
         /\ \A c \in Members(s) \cap Copy : c \in copies.live /\ copies.elem[c] \in heap.alive
<1>1. heap \in Heap /\ Located /\ copies.live \subseteq Copy
  BY DEF SInv, HeapInv, Sound, SetsTyped, CopyHeap
<1>2. ASSUME NEW n \in Members(s) \cap Node
      PROVE  n \in heap.alive /\ dstate[heap.doc[n]] = "live"
  <2>1. heap.doc[n] = d /\ heap.doc[n] \in Doc
    BY <1>1 DEF Within, Heap
  <2>2. QED BY <2>1, SetDocsLive
<1>3. ASSUME NEW c \in Members(s) \cap Copy
      PROVE  c \in copies.live /\ copies.elem[c] \in heap.alive
  <2>1. c \in copies.live /\ c \notin Node
    BY CopiesAreNoObjects
  <2>2. InPlace(copies.elem[c]) /\ heap.doc[copies.elem[c]] = d
    BY <1>1, <2>1 DEF Located, Within
  <2>3. d \in Doc
    BY <1>1, <2>2 DEF InPlace, Heap
  <2>4. dstate[heap.doc[copies.elem[c]]] = "live"
    BY <2>2, <2>3, SetDocsLive
  <2>5. QED BY <2>1, <2>2, <2>4 DEF InPlace
<1>4. QED BY <1>2, <1>3

\* What a set that Ruby can reach, or an evaluation under way, points at has not
\* been freed.
THEOREM MembersAreAlive == SpecSets => []MembersAlive
<1>1. SInv => MembersAlive
  <2> SUFFICES ASSUME SInv PROVE MembersAlive
    OBVIOUS
  <2>1. /\ PointedInTree /\ CopiesSound /\ Homogeneous /\ SetsTyped /\ heap \in Heap
    BY DEF SInv, HeapInv, Sound
  <2>2. ASSUME NEW id \in Existing
        PROVE  /\ \A n \in Members(sets[id].mem) \cap Node :
                    n \in heap.alive /\ dstate[heap.doc[n]] = "live"
               /\ \A c \in Members(sets[id].mem) \cap Copy :
                    c \in copies.live /\ copies.elem[c] \in heap.alive
    <3> DEFINE s == sets[id].mem
               d == sets[id].doc
    <3>1. Within(s, d) /\ d \in SetDocs
      BY <2>1 DEF Homogeneous, SetDocs
    <3>2. Members(s) \cap Node \subseteq heap.alive /\ Members(s) \cap Copy \subseteq copies.live
      BY <2>1 DEF PointedInTree, CopiesSound
    <3> HIDE DEF s, d
    <3>3. /\ \A n \in Members(s) \cap Node : n \in heap.alive /\ dstate[heap.doc[n]] = "live"
          /\ \A c \in Members(s) \cap Copy : c \in copies.live /\ copies.elem[c] \in heap.alive
      BY <3>1, <3>2, WithinIsAlive
    <3>4. QED BY <3>3 DEF s
  <2>3. ASSUME call # NULL
        PROVE  /\ \A n \in (call.found \cup Members(call.mem)) \cap Node :
                    n \in heap.alive /\ dstate[heap.doc[n]] = "live"
               /\ \A c \in (call.found \cup Members(call.mem)) \cap Copy :
                    c \in copies.live /\ copies.elem[c] \in heap.alive
    <3> DEFINE s == call.mem
               d == call.doc
    <3>1. Within(s, d) /\ d \in SetDocs /\ Waiting = Members(s)
      BY <2>1, <2>3 DEF Homogeneous, SetDocs, Waiting
    <3>2. Members(s) \cap Node \subseteq heap.alive /\ Members(s) \cap Copy \subseteq copies.live
      BY <2>1, <3>1 DEF PointedInTree, CopiesSound
    <3>3. call.found \subseteq Node /\ d \in Doc
      BY <2>1, <2>3 DEF SetsTyped, Evaluation
    <3>4. \A n \in call.found : n \in heap.alive /\ heap.doc[n] = d
      BY <2>1, <2>3 DEF PointedInTree
    <3> HIDE DEF s, d
    <3>5. /\ \A n \in Members(s) \cap Node : n \in heap.alive /\ dstate[heap.doc[n]] = "live"
          /\ \A c \in Members(s) \cap Copy : c \in copies.live /\ copies.elem[c] \in heap.alive
      BY <3>1, <3>2, WithinIsAlive
    <3>6. dstate[d] = "live"
      BY <3>1, <3>3, SetDocsLive
    <3>7. call.found \cap Copy = {}
      BY <3>3, CopiesAreNoObjects
    <3>8. QED BY <3>4, <3>5, <3>6, <3>7 DEF s
  <2>4. \A m \in Pointed : \/ \E id \in Existing : m \in Members(sets[id].mem)
                           \/ call # NULL /\ m \in call.found \cup Members(call.mem)
    BY DEF Pointed
  <2>5. QED BY <2>2, <2>3, <2>4 DEF MembersAlive
<1>2. QED BY <1>1, InductiveSets, PTL

\* A copied namespace is not freed while the program has it, and has an owner that will
\* free it, a set that can give it one, or was made by push or dup.
THEOREM NamespacesAreFreedOnce == SpecSets => []NamespacesFreedOnce
<1>1. SInv => NamespacesFreedOnce
  <2> SUFFICES ASSUME SInv PROVE NamespacesFreedOnce
    OBVIOUS
  <2>1. Waiting \subseteq Pointed
    BY DEF Waiting, Pointed
  <2>2. NamespacesOutliveSets /\ CopiesAreFreed
    BY <2>1 DEF SInv, CopiesSound, NamespacesOutliveSets, CopiesAreFreed
  <2>3. QED BY <2>2 DEF NamespacesFreedOnce
<1>2. QED BY <1>1, InductiveSets, PTL

\* | and & of any two sets are union and intersection, by element and prefix for
\* namespaces; - of two sets of nodes takes nothing that is not in the second, and is
\* the difference if the first holds no node twice.
THEOREM SetAlgebraHolds == SpecSets => []SetAlgebra
<1>1. SInv => SetAlgebra
  <2> SUFFICES ASSUME SInv, NEW a \in Existing, NEW b \in Existing,
                      NEW s, s = sets[a].mem, NEW t, t = sets[b].mem,
                      CanCopyAll(copies, s \o t)
               PROVE  LET union == rb_xml_node_set_union(copies, s, t)
                          nodes == Members(s) \cup Members(t) \subseteq Node
                      IN  /\ KeysIn(union) = Keys(s) \cup Keys(t)
                          /\ KeysIn(intersection(copies, s, t)) = Keys(s) \cap Keys(t)
                          /\ nodes => /\ KeysIn(minus(copies, s, t)) \subseteq Keys(s)
                                      /\ Keys(s) \ Keys(t) \subseteq KeysIn(minus(copies, s, t))
                          /\ nodes /\ Injective(s)
                               => KeysIn(minus(copies, s, t)) = Keys(s) \ Keys(t)
                          /\ nodes /\ Injective(s) /\ Injective(t) => Injective(union.s)
    BY DEF SetAlgebra
  <2>1. NotFresh(copies, s) /\ NotFresh(copies, t) /\ copies \in CopyHeap
    BY SetsNotFresh
  <2>2. CanCopyAll(copies, s)
    BY <2>1, ConcatRoom DEF NotFresh
  <2> DEFINE u == rb_xml_node_set_union(copies, s, t)
             i == intersection(copies, s, t)
             m == minus(copies, s, t)
  <2>3. /\ Gathered(copies, u, (Members(s) \cup Members(t)) \cap Node,
                    ElemsOf(copies, s) \cup ElemsOf(copies, t))
        /\ KeysOf(u.k, u.s) = KeysOf(copies, s) \cup KeysOf(copies, t)
        /\ (Members(s) \cup Members(t) \subseteq Node /\ Injective(s) /\ Injective(t))
              => Injective(u.s)
    BY <2>1, UnionIs
  <2>4. /\ Gathered(copies, i, Members(s) \cap Node, ElemsOf(copies, s))
        /\ KeysOf(i.k, i.s) = KeysOf(copies, s) \cap KeysOf(copies, t)
    BY <2>1, <2>2, IntersectionIs
  <2>5. /\ Members(s) \cup Members(t) \subseteq Node
             => /\ KeysOf(m.k, m.s) \subseteq KeysOf(copies, s)
                /\ KeysOf(copies, s) \ KeysOf(copies, t) \subseteq KeysOf(m.k, m.s)
        /\ Members(s) \cup Members(t) \subseteq Node /\ Injective(s)
             => KeysOf(m.k, m.s) = KeysOf(copies, s) \ KeysOf(copies, t)
    BY <2>1, <2>2, MinusIs
  <2> HIDE DEF u, i, m
  <2>6. /\ KeysIn(u) = Keys(s) \cup Keys(t) /\ KeysIn(i) = Keys(s) \cap Keys(t)
        /\ Members(s) \cup Members(t) \subseteq Node
             => KeysIn(m) \subseteq Keys(s) /\ Keys(s) \ Keys(t) \subseteq KeysIn(m)
        /\ Members(s) \cup Members(t) \subseteq Node /\ Injective(s)
             => KeysIn(m) = Keys(s) \ Keys(t)
    BY <2>3, <2>4, <2>5 DEF KeysIn, Keys
  <2>7. QED BY <2>3, <2>6 DEF u, i, m
<1>2. QED BY <1>1, InductiveSets, PTL

=============================================================================
