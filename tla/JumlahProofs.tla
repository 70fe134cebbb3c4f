---------------------------- MODULE JumlahProofs ----------------------------
(***************************************************************************)
(* Sums over finite sets: what SumFunctionOnSet and SumFunction of the      *)
(* community module Functions return, for every finite set.                 *)
(***************************************************************************)
EXTENDS Integers, FiniteSets, Functions, FiniteSetTheorems, WellFoundedInduction, TLAPS

-----------------------------------------------------------------------------
(* Induction.  The theorems of the library take a predicate; a set of       *)
(* numbers can be given to the provers.                                     *)

LEMMA Terkecil ==
    ASSUME NEW T \in SUBSET Nat, T # {}
    PROVE  \E n \in T : \A m \in T : n <= m
<1>1. \E n \in T : \A m \in T : <<m, n>> \notin OpToRel(<, Nat)
  BY NatLessThanWellFounded, WFMin
<1>2. \A m, n \in Nat : m < n => <<m, n>> \in OpToRel(<, Nat)
  BY DEF OpToRel
<1>3. \E R : /\ \E n \in T : \A m \in T : <<m, n>> \notin R
             /\ \A m, n \in Nat : m < n => <<m, n>> \in R
  BY <1>1, <1>2, Zenon
<1>4. PICK R : /\ \E n \in T : \A m \in T : <<m, n>> \notin R
               /\ \A m, n \in Nat : m < n => <<m, n>> \in R
  BY <1>3
<1>5. PICK n \in T : \A m \in T : <<m, n>> \notin R
  BY <1>4
<1>6. \A m \in T : ~(m < n)
  BY <1>4, <1>5
<1> QED BY <1>6

LEMMA Induksi ==
    ASSUME NEW T \in SUBSET Nat, 0 \in T, \A n \in T : n + 1 \in T
    PROVE  T = Nat
<1> SUFFICES ASSUME Nat \ T # {} PROVE FALSE
  OBVIOUS
<1>1. PICK n \in Nat \ T : \A m \in Nat \ T : n <= m
  BY Terkecil
<1>2. n # 0 /\ n - 1 \in Nat /\ n - 1 \in T
  BY <1>1
<1> QED BY <1>1, <1>2

-----------------------------------------------------------------------------
(* The recursion of MapThenFoldSet.                                         *)

Pilih(S) == CHOOSE x \in S : TRUE

Rumus(f, S, h) ==
    h = [s \in SUBSET S |-> IF s = {} THEN 0 ELSE f[Pilih(s)] + h[s \ {Pilih(s)}]]

LEMMA JumlahRumus == \A f, S : SumFunctionOnSet(f, S) = (CHOOSE h : Rumus(f, S, h))[S]
BY Zenon DEF SumFunctionOnSet, FoldFunctionOnSet, MapThenFoldSet, Rumus, Pilih

\* The equation for the sets of at most n elements.
SampaiUkuran(f, S, n, h) ==
    \A s \in SUBSET S : Cardinality(s) <= n =>
        h[s] = IF s = {} THEN 0 ELSE f[Pilih(s)] + h[s \ {Pilih(s)}]

LEMMA PilihAnggota == \A S : S # {} => Pilih(S) \in S
BY DEF Pilih

LEMMA KurangSatu ==
    ASSUME NEW S, IsFiniteSet(S), NEW s \in SUBSET S, NEW x \in s
    PROVE  /\ s \ {x} \in SUBSET S /\ IsFiniteSet(s \ {x}) /\ IsFiniteSet(s)
           /\ Cardinality(s) \in Nat /\ Cardinality(s \ {x}) \in Nat
           /\ Cardinality(s \ {x}) = Cardinality(s) - 1
<1>1. IsFiniteSet(s)
  BY FS_Subset
<1>2. IsFiniteSet(s \ {x}) /\ Cardinality(s \ {x}) = Cardinality(s) - 1
  BY <1>1, FS_RemoveElement
<1> QED BY <1>1, <1>2, FS_CardinalityType

LEMMA Ukuran == \A S : IsFiniteSet(S) => \A s \in SUBSET S : Cardinality(s) \in Nat /\ Cardinality(s) <= Cardinality(S)
BY FS_Subset, FS_CardinalityType

\* The equation has a solution.
LEMMA RumusAda ==
    ASSUME NEW S, IsFiniteSet(S), NEW f \in [S -> Int]
    PROVE  \E h \in [SUBSET S -> Int] : Rumus(f, S, h)
<1> DEFINE T == {n \in Nat : \E h \in [SUBSET S -> Int] : SampaiUkuran(f, S, n, h)}
<1>1. 0 \in T
  <2> DEFINE h == [s \in SUBSET S |-> 0]
  <2>1. \A s \in SUBSET S : Cardinality(s) <= 0 => s = {}
    BY Ukuran, FS_EmptySet, FS_Subset
  <2>2. h \in [SUBSET S -> Int] /\ \A s \in SUBSET S : h[s] = 0
    OBVIOUS
  <2> HIDE DEF h
  <2> QED BY <2>1, <2>2 DEF SampaiUkuran
<1>2. ASSUME NEW n \in T PROVE n + 1 \in T
  <2>1. PICK h \in [SUBSET S -> Int] : SampaiUkuran(f, S, n, h)
    BY <1>2
  <2> DEFINE g == [s \in SUBSET S |-> IF Cardinality(s) = n + 1 /\ s # {}
                                      THEN f[Pilih(s)] + h[s \ {Pilih(s)}] ELSE h[s]]
  <2>2. g \in [SUBSET S -> Int]
    <3>1. \A s \in SUBSET S : s # {} => Pilih(s) \in S /\ s \ {Pilih(s)} \in SUBSET S
      BY PilihAnggota
    <3> QED BY <3>1
  <2>3. ASSUME NEW s \in SUBSET S, Cardinality(s) <= n + 1
        PROVE  g[s] = IF s = {} THEN 0 ELSE f[Pilih(s)] + g[s \ {Pilih(s)}]
    <3>1. CASE s = {}
      <4>1. g[s] = h[s]
        BY <3>1
      <4>2. Cardinality(s) = 0
        BY <3>1, FS_EmptySet
      <4> QED BY <2>1, <3>1, <4>1, <4>2 DEF SampaiUkuran
    <3>2. CASE s # {}
      <4> DEFINE x == Pilih(s)
                 t == s \ {x}
      <4>1. x \in s
        BY <3>2, PilihAnggota
      <4> HIDE DEF x
      <4>2. t \in SUBSET S /\ Cardinality(t) = Cardinality(s) - 1 /\ Cardinality(s) \in Nat
        BY <4>1, KurangSatu
      <4> HIDE DEF t
      <4>3. g[t] = h[t]
        BY <2>3, <4>2
      <4>4. CASE Cardinality(s) = n + 1
        BY <4>4, <4>3, <3>2 DEF x, t
      <4>5. CASE Cardinality(s) # n + 1
        <5>1. g[s] = h[s] /\ Cardinality(s) <= n
          BY <4>5, <4>2, <2>3
        <5>2. h[s] = f[x] + h[t]
          BY <2>1, <3>2, <5>1 DEF SampaiUkuran, x, t
        <5> QED BY <3>2, <4>3, <5>1, <5>2 DEF x, t
      <4> QED BY <4>4, <4>5
    <3> QED BY <3>1, <3>2
  <2> HIDE DEF g
  <2>4. SampaiUkuran(f, S, n + 1, g)
    BY <2>3 DEF SampaiUkuran
  <2> QED BY <2>2, <2>4, <1>2
<1>3. T = Nat
  <2> HIDE DEF T
  <2>1. T \in SUBSET Nat
    BY DEF T
  <2> QED BY <1>1, <1>2, <2>1, Induksi
<1>4. PICK h \in [SUBSET S -> Int] : SampaiUkuran(f, S, Cardinality(S), h)
  <2>1. Cardinality(S) \in T
    BY <1>3, FS_CardinalityType
  <2> QED BY <2>1
<1>5. h = [s \in SUBSET S |-> h[s]] /\ \A s \in SUBSET S :
        h[s] = IF s = {} THEN 0 ELSE f[Pilih(s)] + h[s \ {Pilih(s)}]
  BY <1>4, Ukuran DEF SampaiUkuran
<1>6. Rumus(f, S, h)
  BY <1>5 DEF Rumus
<1> QED BY <1>6

\* There is one solution, and on the subsets of S it is the solution of a larger set.
LEMMA RumusSatu ==
    ASSUME NEW S, IsFiniteSet(S), NEW R \in SUBSET S, NEW f, NEW h, NEW g,
           Rumus(f, S, h), Rumus(f, R, g)
    PROVE  \A s \in SUBSET R : h[s] = g[s]
<1> DEFINE T == {n \in Nat : \A s \in SUBSET R : Cardinality(s) = n => h[s] = g[s]}
<1>n. /\ \A s \in SUBSET S : h[s] = IF s = {} THEN 0 ELSE f[Pilih(s)] + h[s \ {Pilih(s)}]
      /\ \A s \in SUBSET R : g[s] = IF s = {} THEN 0 ELSE f[Pilih(s)] + g[s \ {Pilih(s)}]
  BY DEF Rumus
<1>r. IsFiniteSet(R)
  BY FS_Subset
<1>1. 0 \in T
  <2>1. \A s \in SUBSET R : Cardinality(s) = 0 => s = {}
    BY <1>r, FS_EmptySet, FS_Subset
  <2> QED BY <1>n, <2>1
<1>2. ASSUME NEW n \in T PROVE n + 1 \in T
  <2> SUFFICES ASSUME NEW s \in SUBSET R, Cardinality(s) = n + 1
               PROVE  h[s] = g[s]
    BY <1>2
  <2>1. s # {}
    BY <1>2, FS_EmptySet
  <2> DEFINE x == Pilih(s)
             t == s \ {x}
  <2>2. x \in s
    BY <2>1, PilihAnggota
  <2> HIDE DEF x
  <2>a. n \in Nat
    BY <1>2
  <2>3. t \in SUBSET R /\ Cardinality(t) = n
    BY <2>2, <2>a, <1>2, <1>r, KurangSatu
  <2> HIDE DEF t
  <2>4. h[t] = g[t]
    BY <1>2, <2>3
  <2>5. h[s] = f[x] + h[t] /\ g[s] = f[x] + g[t]
    BY <1>n, <2>1 DEF x, t
  <2> QED BY <2>4, <2>5
<1>3. T = Nat
  <2> HIDE DEF T
  <2>1. T \in SUBSET Nat
    BY DEF T
  <2> QED BY <1>1, <1>2, <2>1, Induksi
<1>4. \A s \in SUBSET R : Cardinality(s) \in T
  BY <1>3, <1>r, Ukuran
<1> QED BY <1>4

-----------------------------------------------------------------------------
(* Sums.                                                                    *)

Bilangan(f, S) == \A x \in S : f[x] \in Int

Solusi(f, S, h) ==
    /\ h \in [SUBSET S -> Int]
    /\ Rumus(f, S, h)
    /\ \A s \in SUBSET S : SumFunctionOnSet(f, s) = h[s]

\* The sum over a subset of S is a value of the function that is chosen for S.
LEMMA JumlahSolusi ==
    ASSUME NEW S, IsFiniteSet(S), NEW f, Bilangan(f, S)
    PROVE  \E h : Solusi(f, S, h)
<1> DEFINE F == [x \in S |-> f[x]]
<1>1. F \in [S -> Int]
  BY DEF Bilangan
<1>2. \A s \in SUBSET S : \A h : Rumus(F, s, h) <=> Rumus(f, s, h)
  <2> SUFFICES ASSUME NEW s \in SUBSET S, NEW h
               PROVE  Rumus(F, s, h) <=> Rumus(f, s, h)
    OBVIOUS
  <2>1. \A t \in SUBSET s : t # {} => F[Pilih(t)] = f[Pilih(t)]
    BY PilihAnggota
  <2> DEFINE a == [t \in SUBSET s |-> IF t = {} THEN 0 ELSE F[Pilih(t)] + h[t \ {Pilih(t)}]]
             b == [t \in SUBSET s |-> IF t = {} THEN 0 ELSE f[Pilih(t)] + h[t \ {Pilih(t)}]]
  <2>2. a = b
    BY <2>1
  <2> QED BY <2>2 DEF Rumus
<1> HIDE DEF F
<1>3. PICK h \in [SUBSET S -> Int] : Rumus(f, S, h)
  <2>1. \E h \in [SUBSET S -> Int] : Rumus(F, S, h)
    BY <1>1, RumusAda
  <2> QED BY <2>1, <1>2
<1>4. ASSUME NEW s \in SUBSET S
      PROVE  SumFunctionOnSet(f, s) = h[s]
  <2>1. IsFiniteSet(s)
    BY FS_Subset
  <2>2. \E g : Rumus(f, s, g)
    <3>1. [x \in s |-> f[x]] \in [s -> Int]
      BY DEF Bilangan
    <3> DEFINE G == [x \in s |-> f[x]]
    <3> HIDE DEF G
    <3>2. PICK g : Rumus(G, s, g)
      BY <3>1, <2>1, RumusAda DEF G
    <3>3. \A t \in SUBSET s : t # {} => G[Pilih(t)] = f[Pilih(t)]
      BY PilihAnggota DEF G
    <3> DEFINE a == [t \in SUBSET s |-> IF t = {} THEN 0 ELSE G[Pilih(t)] + g[t \ {Pilih(t)}]]
               b == [t \in SUBSET s |-> IF t = {} THEN 0 ELSE f[Pilih(t)] + g[t \ {Pilih(t)}]]
    <3>4. a = b
      BY <3>3
    <3> QED BY <3>2, <3>4 DEF Rumus
  <2>3. Rumus(f, s, CHOOSE g : Rumus(f, s, g))
    BY <2>2, Zenon
  <2>4. h[s] = (CHOOSE g : Rumus(f, s, g))[s]
    BY <2>3, <1>3, RumusSatu
  <2> QED BY <2>4, JumlahRumus
<1> QED BY <1>3, <1>4 DEF Solusi

LEMMA JumlahKosong == \A f : SumFunctionOnSet(f, {}) = 0
<1> SUFFICES ASSUME NEW f PROVE SumFunctionOnSet(f, {}) = 0
  OBVIOUS
<1>1. Bilangan(f, {})
  BY DEF Bilangan
<1>2. PICK h : Solusi(f, {}, h)
  BY <1>1, FS_EmptySet, JumlahSolusi
<1>3. h[{}] = 0
  BY <1>2 DEF Solusi, Rumus
<1> QED BY <1>2, <1>3 DEF Solusi

LEMMA JumlahTipe ==
    ASSUME NEW S, IsFiniteSet(S), NEW f, Bilangan(f, S)
    PROVE  SumFunctionOnSet(f, S) \in Int
<1>1. PICK h : Solusi(f, S, h)
  BY JumlahSolusi
<1>2. S \in SUBSET S
  OBVIOUS
<1> QED BY <1>1, <1>2 DEF Solusi

\* The order does not matter: any element may come first.
LEMMA JumlahSatu ==
    ASSUME NEW S, IsFiniteSet(S), NEW f, Bilangan(f, S), NEW e \in S
    PROVE  SumFunctionOnSet(f, S) = f[e] + SumFunctionOnSet(f, S \ {e})
<1>s. PICK h : Solusi(f, S, h)
  BY JumlahSolusi
<1>1. /\ h \in [SUBSET S -> Int] /\ Rumus(f, S, h)
      /\ \A s \in SUBSET S : SumFunctionOnSet(f, s) = h[s]
  BY <1>s DEF Solusi
<1>2. \A s \in SUBSET S : s # {} => h[s] = f[Pilih(s)] + h[s \ {Pilih(s)}]
  BY <1>1 DEF Rumus
<1> DEFINE T == {n \in Nat : \A s \in SUBSET S : \A x \in s :
                    Cardinality(s) = n => h[s] = f[x] + h[s \ {x}]}
<1>3. 0 \in T
  <2>1. \A s \in SUBSET S : Cardinality(s) = 0 => s = {}
    BY FS_EmptySet, FS_Subset
  <2> QED BY <2>1
<1>4. ASSUME NEW n \in T PROVE n + 1 \in T
  <2> SUFFICES ASSUME NEW s \in SUBSET S, NEW x \in s, Cardinality(s) = n + 1
               PROVE  h[s] = f[x] + h[s \ {x}]
    BY <1>4
  <2> DEFINE c == Pilih(s)
  <2>1. c \in s /\ h[s] = f[c] + h[s \ {c}]
    BY <1>2, PilihAnggota
  <2> HIDE DEF c
  <2>2. CASE x = c
    BY <2>1, <2>2
  <2>3. CASE x # c
    <3>a. n \in Nat
      BY <1>4
    <3>b. s \ {c} \in SUBSET S /\ Cardinality(s \ {c}) = n
      <4> DEFINE t == s \ {c}
      <4>1. t \in SUBSET S /\ Cardinality(t) = Cardinality(s) - 1
        BY <2>1, KurangSatu, Zenon
      <4> HIDE DEF t
      <4>2. t \in SUBSET S /\ Cardinality(t) = n
        BY <3>a, <4>1
      <4> QED BY <4>2 DEF t
    <3>c. s \ {x} \in SUBSET S /\ Cardinality(s \ {x}) = n
      <4> DEFINE t == s \ {x}
      <4>1. t \in SUBSET S /\ Cardinality(t) = Cardinality(s) - 1
        BY KurangSatu, Zenon
      <4> HIDE DEF t
      <4>2. t \in SUBSET S /\ Cardinality(t) = n
        BY <3>a, <4>1
      <4> QED BY <4>2 DEF t
    <3>1. /\ s \ {c} \in SUBSET S /\ Cardinality(s \ {c}) = n
          /\ s \ {x} \in SUBSET S /\ Cardinality(s \ {x}) = n
      BY <3>b, <3>c
    <3>2. x \in s \ {c} /\ c \in s \ {x}
      BY <2>1, <2>3
    <3>3. h[s \ {c}] = f[x] + h[(s \ {c}) \ {x}] /\ h[s \ {x}] = f[c] + h[(s \ {x}) \ {c}]
      BY <3>1, <3>2, <1>4
    <3>4. (s \ {c}) \ {x} = (s \ {x}) \ {c} /\ (s \ {c}) \ {x} \in SUBSET S
      OBVIOUS
    <3>5. f[x] \in Int /\ f[c] \in Int /\ h[(s \ {x}) \ {c}] \in Int
      BY <1>1, <2>1, <3>4 DEF Bilangan
    <3> DEFINE z == h[(s \ {x}) \ {c}]
    <3>6. h[s] = f[c] + (f[x] + z) /\ h[s \ {x}] = f[c] + z
      BY <2>1, <3>3, <3>4
    <3>7. z \in Int
      BY <3>5
    <3> HIDE DEF z
    <3>8. f[c] + (f[x] + z) = f[x] + (f[c] + z)
      BY <3>5, <3>7
    <3> QED BY <3>6, <3>8
  <2> QED BY <2>2, <2>3
<1>5. T = Nat
  <2> HIDE DEF T
  <2>1. T \in SUBSET Nat
    BY DEF T
  <2> QED BY <1>3, <1>4, <2>1, Induksi
<1>6. Cardinality(S) \in T /\ S \in SUBSET S
  BY <1>5, Ukuran
<1>7. h[S] = f[e] + h[S \ {e}] /\ S \ {e} \in SUBSET S
  BY <1>6
<1> QED BY <1>1, <1>6, <1>7

LEMMA JumlahSama ==
    ASSUME NEW S, NEW f, NEW g, \A x \in S : f[x] = g[x]
    PROVE  SumFunctionOnSet(f, S) = SumFunctionOnSet(g, S)
<1>1. \A h : Rumus(f, S, h) <=> Rumus(g, S, h)
  <2> SUFFICES ASSUME NEW h PROVE Rumus(f, S, h) <=> Rumus(g, S, h)
    OBVIOUS
  <2>1. \A t \in SUBSET S : t # {} => f[Pilih(t)] = g[Pilih(t)]
    BY PilihAnggota
  <2> DEFINE a == [t \in SUBSET S |-> IF t = {} THEN 0 ELSE f[Pilih(t)] + h[t \ {Pilih(t)}]]
             b == [t \in SUBSET S |-> IF t = {} THEN 0 ELSE g[Pilih(t)] + h[t \ {Pilih(t)}]]
  <2>2. a = b
    BY <2>1
  <2> QED BY <2>2 DEF Rumus
<1>2. (CHOOSE h : Rumus(f, S, h)) = (CHOOSE h : Rumus(g, S, h))
  BY <1>1, Zenon
<1> QED BY <1>2, JumlahRumus

LEMMA BilanganBagian ==
    ASSUME NEW S, NEW f, Bilangan(f, S), NEW R \in SUBSET S
    PROVE  Bilangan(f, R)
BY DEF Bilangan

\* One value changes.
LEMMA JumlahUbah ==
    ASSUME NEW S, IsFiniteSet(S), NEW f, NEW g, Bilangan(f, S), Bilangan(g, S), NEW e \in S,
           \A x \in S : x # e => f[x] = g[x]
    PROVE  SumFunctionOnSet(g, S) = SumFunctionOnSet(f, S) + g[e] - f[e]
<1>1. /\ SumFunctionOnSet(f, S) = f[e] + SumFunctionOnSet(f, S \ {e})
      /\ SumFunctionOnSet(g, S) = g[e] + SumFunctionOnSet(g, S \ {e})
  BY JumlahSatu
<1>2. SumFunctionOnSet(f, S \ {e}) = SumFunctionOnSet(g, S \ {e})
  <2>1. \A x \in S \ {e} : f[x] = g[x]
    OBVIOUS
  <2> QED BY <2>1, JumlahSama
<1> DEFINE R == S \ {e}
           z == SumFunctionOnSet(f, R)
<1>3. z \in Int
  <2>1. IsFiniteSet(R) /\ Bilangan(f, R)
    BY FS_Subset, BilanganBagian
  <2> HIDE DEF R
  <2> QED BY <2>1, JumlahTipe
<1>4. f[e] \in Int /\ g[e] \in Int
  BY DEF Bilangan
<1>5. SumFunctionOnSet(f, S) = f[e] + z /\ SumFunctionOnSet(g, S) = g[e] + z
  BY <1>1, <1>2
<1> HIDE DEF z
<1> QED BY <1>3, <1>4, <1>5

\* One element more.
LEMMA JumlahTambah ==
    ASSUME NEW S, IsFiniteSet(S), NEW f, NEW e, e \notin S, Bilangan(f, S \cup {e})
    PROVE  SumFunctionOnSet(f, S \cup {e}) = f[e] + SumFunctionOnSet(f, S)
<1> DEFINE R == S \cup {e}
<1>1. IsFiniteSet(R) /\ e \in R /\ R \ {e} = S
  BY FS_AddElement
<1>2. Bilangan(f, R)
  OBVIOUS
<1> HIDE DEF R
<1>3. SumFunctionOnSet(f, R) = f[e] + SumFunctionOnSet(f, R \ {e})
  BY <1>1, <1>2, JumlahSatu
<1> QED BY <1>1, <1>3 DEF R

\* A greater function has a greater sum.
Dibawah(f, g, S) == \A x \in S : f[x] <= g[x]

LEMMA JumlahMonoton ==
    ASSUME NEW S, IsFiniteSet(S), NEW f, NEW g, Bilangan(f, S), Bilangan(g, S), Dibawah(f, g, S)
    PROVE  SumFunctionOnSet(f, S) <= SumFunctionOnSet(g, S)
<1> DEFINE T == {n \in Nat : \A s \in SUBSET S :
                    Cardinality(s) = n => SumFunctionOnSet(f, s) <= SumFunctionOnSet(g, s)}
<1>1. 0 \in T
  <2>1. \A s \in SUBSET S : Cardinality(s) = 0 => s = {}
    BY FS_EmptySet, FS_Subset
  <2> QED BY <2>1, JumlahKosong
<1>2. ASSUME NEW n \in T PROVE n + 1 \in T
  <2> SUFFICES ASSUME NEW s \in SUBSET S, Cardinality(s) = n + 1
               PROVE  SumFunctionOnSet(f, s) <= SumFunctionOnSet(g, s)
    BY <1>2
  <2>a. n \in Nat
    BY <1>2
  <2>1. s # {}
    BY <2>a, FS_EmptySet
  <2>2. PICK x \in s : TRUE
    BY <2>1
  <2> DEFINE t == s \ {x}
  <2>3. t \in SUBSET S /\ IsFiniteSet(t) /\ IsFiniteSet(s) /\ Cardinality(t) = Cardinality(s) - 1
    BY KurangSatu, Zenon
  <2>4. /\ SumFunctionOnSet(f, s) = f[x] + SumFunctionOnSet(f, t)
        /\ SumFunctionOnSet(g, s) = g[x] + SumFunctionOnSet(g, t)
    BY <2>3, BilanganBagian, JumlahSatu
  <2> HIDE DEF t
  <2>5. SumFunctionOnSet(f, t) <= SumFunctionOnSet(g, t)
    BY <1>2, <2>a, <2>3
  <2>6. SumFunctionOnSet(f, t) \in Int /\ SumFunctionOnSet(g, t) \in Int
    BY <2>3, BilanganBagian, JumlahTipe
  <2>7. f[x] \in Int /\ g[x] \in Int /\ f[x] <= g[x]
    BY DEF Bilangan, Dibawah
  <2> QED BY <2>4, <2>5, <2>6, <2>7
<1>3. T = Nat
  <2> HIDE DEF T
  <2>1. T \in SUBSET Nat
    BY DEF T
  <2> QED BY <1>1, <1>2, <2>1, Induksi
<1>4. Cardinality(S) \in T /\ S \in SUBSET S
  BY <1>3, Ukuran
<1> QED BY <1>4

LEMMA JumlahNol ==
    ASSUME NEW S, IsFiniteSet(S), NEW f, \A x \in S : f[x] = 0
    PROVE  SumFunctionOnSet(f, S) = 0
<1> DEFINE T == {n \in Nat : \A s \in SUBSET S : Cardinality(s) = n => SumFunctionOnSet(f, s) = 0}
<1>1. 0 \in T
  <2>1. \A s \in SUBSET S : Cardinality(s) = 0 => s = {}
    BY FS_EmptySet, FS_Subset
  <2> QED BY <2>1, JumlahKosong
<1>2. ASSUME NEW n \in T PROVE n + 1 \in T
  <2> SUFFICES ASSUME NEW s \in SUBSET S, Cardinality(s) = n + 1
               PROVE  SumFunctionOnSet(f, s) = 0
    BY <1>2
  <2>a. n \in Nat
    BY <1>2
  <2>1. s # {}
    BY <2>a, FS_EmptySet
  <2>2. PICK x \in s : TRUE
    BY <2>1
  <2> DEFINE t == s \ {x}
  <2>3. t \in SUBSET S /\ IsFiniteSet(s) /\ Cardinality(t) = Cardinality(s) - 1
    BY KurangSatu, Zenon
  <2>4. Bilangan(f, s)
    BY DEF Bilangan
  <2>5. SumFunctionOnSet(f, s) = f[x] + SumFunctionOnSet(f, t)
    BY <2>3, <2>4, JumlahSatu
  <2> HIDE DEF t
  <2>6. SumFunctionOnSet(f, t) = 0
    BY <1>2, <2>a, <2>3
  <2> QED BY <2>5, <2>6
<1>3. T = Nat
  <2> HIDE DEF T
  <2>1. T \in SUBSET Nat
    BY DEF T
  <2> QED BY <1>1, <1>2, <2>1, Induksi
<1>4. Cardinality(S) \in T /\ S \in SUBSET S
  BY <1>3, Ukuran
<1> QED BY <1>4

LEMMA JumlahTakNegatif ==
    ASSUME NEW S, IsFiniteSet(S), NEW f, \A x \in S : f[x] \in Nat
    PROVE  SumFunctionOnSet(f, S) \in Nat /\ \A x \in S : f[x] <= SumFunctionOnSet(f, S)
<1> DEFINE nol == [x \in S |-> 0]
<1>1. Bilangan(f, S) /\ Bilangan(nol, S) /\ \A R \in SUBSET S : Dibawah(nol, f, R)
  BY DEF Bilangan, Dibawah
<1>2. \A x \in S : nol[x] = 0
  OBVIOUS
<1> HIDE DEF nol
<1>3. ASSUME NEW R \in SUBSET S
      PROVE  SumFunctionOnSet(f, R) \in Nat
  <2>1. IsFiniteSet(R) /\ Bilangan(f, R) /\ Bilangan(nol, R)
    BY <1>1, FS_Subset, BilanganBagian
  <2>2. SumFunctionOnSet(nol, R) = 0
    BY <1>2, <2>1, JumlahNol
  <2>3. SumFunctionOnSet(nol, R) <= SumFunctionOnSet(f, R)
    BY <1>1, <2>1, JumlahMonoton
  <2>4. SumFunctionOnSet(f, R) \in Int
    BY <2>1, JumlahTipe
  <2> QED BY <2>2, <2>3, <2>4
<1>4. ASSUME NEW x \in S
      PROVE  f[x] <= SumFunctionOnSet(f, S)
  <2>1. SumFunctionOnSet(f, S) = f[x] + SumFunctionOnSet(f, S \ {x})
    BY <1>1, JumlahSatu
  <2> DEFINE z == SumFunctionOnSet(f, S \ {x})
  <2>2. z \in Nat
    BY <1>3
  <2> HIDE DEF z
  <2> QED BY <2>1, <2>2 DEF z
<1> QED BY <1>3, <1>4

\* The same values in another place.
Padanan(b, S, R) ==
    /\ b \in [S -> R]
    /\ \A x, y \in S : b[x] = b[y] => x = y
    /\ \A y \in R : \E x \in S : b[x] = y

LEMMA JumlahPadanan ==
    ASSUME NEW S, IsFiniteSet(S), NEW R, IsFiniteSet(R), NEW f, NEW g, NEW b, Padanan(b, S, R),
           Bilangan(f, R), \A x \in S : g[x] = f[b[x]]
    PROVE  SumFunctionOnSet(g, S) = SumFunctionOnSet(f, R)
<1> DEFINE Citra(s) == {b[x] : x \in s}
           T == {n \in Nat : \A s \in SUBSET S :
                    Cardinality(s) = n => SumFunctionOnSet(g, s) = SumFunctionOnSet(f, Citra(s))}
<1>g. Bilangan(g, S)
  BY DEF Bilangan, Padanan
<1>1. 0 \in T
  <2>1. \A s \in SUBSET S : Cardinality(s) = 0 => s = {} /\ Citra(s) = {}
    BY FS_EmptySet, FS_Subset
  <2> HIDE DEF Citra
  <2> QED BY <2>1, JumlahKosong
<1>2. ASSUME NEW n \in T PROVE n + 1 \in T
  <2> SUFFICES ASSUME NEW s \in SUBSET S, Cardinality(s) = n + 1
               PROVE  SumFunctionOnSet(g, s) = SumFunctionOnSet(f, Citra(s))
    BY <1>2
  <2>a. n \in Nat
    BY <1>2
  <2>1. s # {}
    BY <2>a, FS_EmptySet
  <2>2. PICK x \in s : TRUE
    BY <2>1
  <2> DEFINE t == s \ {x}
             C == Citra(s)
             y == b[x]
  <2>3. t \in SUBSET S /\ IsFiniteSet(s) /\ Cardinality(t) = Cardinality(s) - 1
    BY KurangSatu, Zenon
  <2>4. Bilangan(g, s)
    BY <1>g, BilanganBagian
  <2>5. SumFunctionOnSet(g, s) = g[x] + SumFunctionOnSet(g, t)
    BY <2>3, <2>4, JumlahSatu
  <2>6. C \in SUBSET R /\ y \in C /\ C \ {y} = Citra(t)
    BY DEF Padanan
  <2>7. g[x] = f[y]
    OBVIOUS
  <2>8. SumFunctionOnSet(g, t) = SumFunctionOnSet(f, Citra(t))
    <3> HIDE DEF t, Citra
    <3> QED BY <1>2, <2>a, <2>3
  <2> HIDE DEF t, C, y
  <2>9. SumFunctionOnSet(f, C) = f[y] + SumFunctionOnSet(f, C \ {y})
    <3>1. IsFiniteSet(C) /\ Bilangan(f, C)
      BY <2>6, FS_Subset, BilanganBagian
    <3> QED BY <2>6, <3>1, JumlahSatu
  <2> QED BY <2>5, <2>6, <2>7, <2>8, <2>9 DEF C
<1>3. T = Nat
  <2> HIDE DEF T
  <2>1. T \in SUBSET Nat
    BY DEF T
  <2> QED BY <1>1, <1>2, <2>1, Induksi
<1>4. SumFunctionOnSet(g, S) = SumFunctionOnSet(f, Citra(S))
  <2>1. Cardinality(S) \in T /\ S \in SUBSET S
    BY <1>3, Ukuran
  <2> QED BY <2>1
<1>5. Citra(S) = R
  BY DEF Padanan
<1> QED BY <1>4, <1>5

-----------------------------------------------------------------------------
(* Sequences.                                                               *)

LEMMA JumlahAkhir ==
    ASSUME NEW n \in Nat, NEW f, Bilangan(f, 1 .. n + 1)
    PROVE  SumFunctionOnSet(f, 1 .. n + 1) = SumFunctionOnSet(f, 1 .. n) + f[n + 1]
<1> DEFINE S == 1 .. n
           e == n + 1
<1>1. IsFiniteSet(S) /\ e \notin S /\ S \cup {e} = 1 .. n + 1
  BY FS_Interval
<1>2. SumFunctionOnSet(f, S) \in Int /\ f[e] \in Int
  BY <1>1, JumlahTipe DEF Bilangan
<1> HIDE DEF S, e
<1>3. SumFunctionOnSet(f, S \cup {e}) = f[e] + SumFunctionOnSet(f, S)
  BY <1>1, JumlahTambah
<1>4. SumFunctionOnSet(f, S \cup {e}) = SumFunctionOnSet(f, S) + f[e]
  BY <1>2, <1>3
<1> QED BY <1>1, <1>4 DEF S, e

LEMMA JumlahAwal ==
    ASSUME NEW n \in Nat, NEW f, NEW g, Bilangan(f, 1 .. n + 1), \A i \in 1 .. n : g[i] = f[i + 1]
    PROVE  SumFunctionOnSet(f, 1 .. n + 1) = f[1] + SumFunctionOnSet(g, 1 .. n)
<1> DEFINE S == 1 .. n
           R == 2 .. n + 1
           b == [i \in S |-> i + 1]
<1>1. IsFiniteSet(S) /\ IsFiniteSet(R) /\ 1 \notin R /\ R \cup {1} = 1 .. n + 1
  BY FS_Interval
<1>2. Padanan(b, S, R)
  <2>1. \A y \in R : y - 1 \in S /\ b[y - 1] = y
    OBVIOUS
  <2>2. \A x, y \in S : b[x] = b[y] => x = y
    OBVIOUS
  <2>3. b \in [S -> R]
    OBVIOUS
  <2> HIDE DEF b, S, R
  <2> QED BY <2>1, <2>2, <2>3 DEF Padanan
<1>3. \A x \in S : g[x] = f[b[x]]
  OBVIOUS
<1>4. Bilangan(f, R)
  BY DEF Bilangan
<1> HIDE DEF S, R, b
<1>5. SumFunctionOnSet(g, S) = SumFunctionOnSet(f, R)
  BY <1>1, <1>2, <1>3, <1>4, JumlahPadanan
<1>6. SumFunctionOnSet(f, R \cup {1}) = f[1] + SumFunctionOnSet(f, R)
  BY <1>1, JumlahTambah
<1> QED BY <1>1, <1>5, <1>6 DEF S
=============================================================================
