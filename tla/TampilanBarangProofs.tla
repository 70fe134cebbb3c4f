------------------------ MODULE TampilanBarangProofs ------------------------
(***************************************************************************)
(* Proofs about TampilanBarang, for any goods, requests, sizes of a map and *)
(* of the channel, and with or without the worker: types, the conservation  *)
(* of views and the size of the maps.                                       *)
(***************************************************************************)
EXTENDS TampilanBarang, JumlahProofs

-----------------------------------------------------------------------------
(* Types.                                                                   *)

LEMMA PetaTipe ==
    /\ Kosong \in Peta
    /\ \A m \in Peta, b \in Barang, n \in Nat : Tambah(m, b, n) \in Peta /\ Tanpa(m, b) \in Peta
BY DEF Kosong, Peta, Tambah, Tanpa

LEMMA PetaNilai ==
    /\ \A b \in Barang : Kosong[b] = 0
    /\ \A m \in Peta, b, c \in Barang, n \in Nat :
          /\ m[c] \in Nat
          /\ Tambah(m, b, n)[c] = IF c = b THEN m[c] + n ELSE m[c]
          /\ Tanpa(m, b)[c] = IF c = b THEN 0 ELSE m[c]
BY DEF Kosong, Peta, Tambah, Tanpa

LEMMA TypeAwal == Init => TypeOK
<1> SUFFICES ASSUME Init PROVE TypeOK
  OBVIOUS
<1>1. kanal \in Seq(Peta) /\ Len(kanal) <= Kapasitas
  BY TampilanAssumption DEF Init
<1>2. proses \in [Proses -> Peta]
  BY PetaTipe DEF Init
<1> QED BY <1>1, <1>2, PetaTipe DEF Init, TypeOK

LEMMA KirimTipe ==
    ASSUME TypeOK, NEW m \in Peta, Kirim(m)
    PROVE  /\ kanal' \in Seq(Peta) /\ Len(kanal') <= Kapasitas
           /\ Len(kanal') = Len(kanal) + 1 /\ Len(kanal) \in Nat
           /\ \A n \in 1 .. Len(kanal) + 1 : kanal'[n] = IF n <= Len(kanal) THEN kanal[n] ELSE m
<1> DEFINE P == Peta
<1>1. kanal \in Seq(P) /\ m \in P /\ kanal' = Append(kanal, m) /\ Len(kanal) < Kapasitas
  BY DEF TypeOK, Kirim
<1>2. Kapasitas \in Nat
  BY TampilanAssumption
<1> HIDE DEF P
<1>3. /\ kanal' \in Seq(P) /\ Len(kanal') = Len(kanal) + 1 /\ Len(kanal) \in Nat
      /\ \A n \in 1 .. Len(kanal) + 1 : kanal'[n] = IF n <= Len(kanal) THEN kanal[n] ELSE m
  BY <1>1
<1>4. Len(kanal') <= Kapasitas
  BY <1>1, <1>2, <1>3
<1> QED BY <1>3, <1>4 DEF P

LEMMA AmbilTipe ==
    ASSUME TypeOK, kanal # << >>, kanal' = Tail(kanal)
    PROVE  /\ kanal' \in Seq(Peta) /\ Len(kanal') <= Kapasitas
           /\ Len(kanal) = Len(kanal') + 1 /\ Len(kanal') \in Nat
           /\ \A n \in 1 .. Len(kanal') : kanal'[n] = kanal[n + 1]
           /\ Head(kanal) \in Peta /\ Head(kanal) = kanal[1]
<1> DEFINE P == Peta
<1>1. kanal \in Seq(P) /\ Len(kanal) <= Kapasitas
  BY DEF TypeOK
<1>2. Kapasitas \in Nat
  BY TampilanAssumption
<1> HIDE DEF P
<1>3. /\ kanal' \in Seq(P) /\ Len(kanal) = Len(kanal') + 1 /\ Len(kanal') \in Nat
      /\ \A n \in 1 .. Len(kanal') : kanal'[n] = kanal[n + 1]
      /\ Head(kanal) \in P /\ Head(kanal) = kanal[1]
  BY <1>1
<1>4. Len(kanal') <= Kapasitas
  BY <1>1, <1>2, <1>3
<1> QED BY <1>3, <1>4 DEF P

LEMMA TypeLangkah == TypeOK /\ [Next]_vars => TypeOK'
<1> SUFFICES ASSUME TypeOK, [Next]_vars PROVE TypeOK'
  OBVIOUS
<1> USE PetaTipe DEF TypeOK
<1>1. ASSUME NEW p \in Proses, NEW b \in Barang, IncrUpdateViewColumn(p, b)
      PROVE  TypeOK'
  BY <1>1 DEF IncrUpdateViewColumn
<1>2. ASSUME NEW p \in Proses, KirimPermintaan(p)
      PROVE  TypeOK'
  <2>1. proses[p] \in Peta
    OBVIOUS
  <2>2. kanal' \in Seq(Peta) /\ Len(kanal') <= Kapasitas
    BY <1>2, <2>1, KirimTipe DEF KirimPermintaan
  <2> QED BY <1>2, <2>2 DEF KirimPermintaan
<1>3. CASE WatchInterval
  BY <1>3 DEF WatchInterval
<1>4. CASE KirimPantau
  <2>1. kanal' \in Seq(Peta) /\ Len(kanal') <= Kapasitas
    BY <1>4, KirimTipe DEF KirimPantau
  <2> QED BY <1>4, <2>1 DEF KirimPantau
<1>5. CASE UpdateToDB
  <2>1. kanal' \in Seq(Peta) /\ Len(kanal') <= Kapasitas /\ Head(kanal) \in Peta
    BY <1>5, AmbilTipe DEF UpdateToDB
  <2> QED BY <1>5, <2>1 DEF UpdateToDB
<1>6. ASSUME NEW b \in Barang, TulisViewed(b)
      PROVE  TypeOK'
  <2>1. pekerja[b] \in Nat
    BY DEF Peta
  <2> QED BY <1>6, <2>1 DEF TulisViewed
<1>7. CASE KonteksHabis
  BY <1>7 DEF KonteksHabis
<1>8. CASE UNCHANGED vars
  BY <1>8 DEF vars
<1> QED BY <1>1, <1>2, <1>3, <1>4, <1>5, <1>6, <1>7, <1>8 DEF Next

\* Every variable keeps its type: above all, the channel never holds more maps than it has
\* room for (BatchViewUpdate in engagement_barang.go).
THEOREM TypeBenar == Spec => []TypeOK
BY TypeAwal, TypeLangkah, PTL DEF Spec

-----------------------------------------------------------------------------
(* Conservation of views.                                                   *)

DiProses(b) == SumFunction([p \in Proses |-> proses[p][b]])
DiKanal(b) == SumFunction([n \in DOMAIN kanal |-> kanal[n][b]])

LEMMA ProsesUbah ==
    ASSUME TypeOK, NEW p \in Proses, NEW m \in Peta, proses' = [proses EXCEPT ![p] = m],
           NEW b \in Barang
    PROVE  DiProses(b)' = DiProses(b) + m[b] - proses[p][b] /\ DiProses(b) \in Nat
<1> DEFINE f == [q \in Proses |-> proses[q][b]]
           g == [q \in Proses |-> proses'[q][b]]
<1>1. DiProses(b) = SumFunctionOnSet(f, Proses) /\ DiProses(b)' = SumFunctionOnSet(g, Proses)
  BY DEF DiProses, SumFunction
<1>2. /\ \A q \in Proses : f[q] \in Nat /\ g[q] \in Nat /\ (q # p => f[q] = g[q])
      /\ f[p] = proses[p][b] /\ g[p] = m[b]
  BY DEF TypeOK, Peta
<1> HIDE DEF f, g
<1>3. Bilangan(f, Proses) /\ Bilangan(g, Proses) /\ IsFiniteSet(Proses)
  BY <1>2, TampilanAssumption DEF Bilangan
<1>4. SumFunctionOnSet(g, Proses) = SumFunctionOnSet(f, Proses) + g[p] - f[p]
  BY <1>2, <1>3, JumlahUbah
<1>5. SumFunctionOnSet(f, Proses) \in Nat
  BY <1>2, <1>3, JumlahTakNegatif
<1> QED BY <1>1, <1>2, <1>4, <1>5

LEMMA KanalTipe ==
    ASSUME TypeOK, NEW b \in Barang
    PROVE  /\ DOMAIN kanal = 1 .. Len(kanal) /\ Len(kanal) \in Nat
           /\ DiKanal(b) \in Nat /\ DiProses(b) \in Nat
<1>1. DOMAIN kanal = 1 .. Len(kanal) /\ Len(kanal) \in Nat
  BY DEF TypeOK
<1>2. DiKanal(b) \in Nat
  <2> DEFINE f == [n \in DOMAIN kanal |-> kanal[n][b]]
  <2>1. \A n \in DOMAIN kanal : f[n] \in Nat
    BY DEF TypeOK, Peta
  <2>2. IsFiniteSet(DOMAIN kanal)
    BY <1>1, FS_Interval
  <2>3. DiKanal(b) = SumFunctionOnSet(f, DOMAIN kanal)
    BY DEF DiKanal, SumFunction
  <2> HIDE DEF f
  <2> QED BY <2>1, <2>2, <2>3, JumlahTakNegatif
<1>3. DiProses(b) \in Nat
  <2> DEFINE f == [q \in Proses |-> proses[q][b]]
  <2>1. \A q \in Proses : f[q] \in Nat
    BY DEF TypeOK, Peta
  <2>2. DiProses(b) = SumFunctionOnSet(f, Proses)
    BY DEF DiProses, SumFunction
  <2> HIDE DEF f
  <2> QED BY <2>1, <2>2, TampilanAssumption, JumlahTakNegatif
<1> QED BY <1>1, <1>2, <1>3

LEMMA KanalKirim ==
    ASSUME TypeOK, NEW m \in Peta, Kirim(m), NEW b \in Barang
    PROVE  DiKanal(b)' = DiKanal(b) + m[b]
<1> DEFINE f == [n \in DOMAIN kanal |-> kanal[n][b]]
           g == [n \in DOMAIN kanal' |-> kanal'[n][b]]
           k == Len(kanal)
<1>1. /\ DOMAIN kanal = 1 .. k /\ k \in Nat /\ DOMAIN kanal' = 1 .. k + 1
      /\ \A n \in 1 .. k + 1 : kanal'[n] = IF n <= k THEN kanal[n] ELSE m
  <2>1. /\ kanal' \in Seq(Peta) /\ Len(kanal') = Len(kanal) + 1
        /\ \A n \in 1 .. Len(kanal) + 1 : kanal'[n] = IF n <= Len(kanal) THEN kanal[n] ELSE m
    BY KirimTipe
  <2>2. DOMAIN kanal' = 1 .. Len(kanal')
    BY <2>1
  <2>3. DOMAIN kanal = 1 .. k /\ k \in Nat
    BY KanalTipe
  <2> QED BY <2>1, <2>2, <2>3
<1>2. DiKanal(b) = SumFunctionOnSet(f, 1 .. k) /\ DiKanal(b)' = SumFunctionOnSet(g, 1 .. k + 1)
  BY <1>1 DEF DiKanal, SumFunction
<1>3. \A n \in 1 .. k : kanal[n] \in Peta
  BY <1>1 DEF TypeOK
<1>4. \A n \in 1 .. k : n \in 1 .. k + 1 /\ kanal'[n] = kanal[n] /\ kanal[n][b] \in Nat
  BY <1>1, <1>3 DEF Peta
<1>8. k + 1 \in 1 .. k + 1 /\ kanal'[k + 1] = m /\ m[b] \in Nat
  BY <1>1 DEF Peta
<1>9. g[k + 1] = m[b]
  BY <1>1, <1>8
<1>10. \A n \in 1 .. k : f[n] \in Nat /\ g[n] = f[n]
  BY <1>1, <1>4
<1> HIDE DEF f, g, k
<1>5. Bilangan(g, 1 .. k + 1)
  <2> SUFFICES ASSUME NEW n \in 1 .. k + 1 PROVE g[n] \in Int
    BY DEF Bilangan
  <2>1. n \in 1 .. k \/ n = k + 1
    BY <1>1
  <2> QED BY <2>1, <1>8, <1>9, <1>10
<1>6. SumFunctionOnSet(g, 1 .. k + 1) = SumFunctionOnSet(g, 1 .. k) + g[k + 1]
  BY <1>1, <1>5, JumlahAkhir
<1>7. SumFunctionOnSet(g, 1 .. k) = SumFunctionOnSet(f, 1 .. k)
  BY <1>10, JumlahSama
<1> QED BY <1>2, <1>9, <1>6, <1>7

LEMMA KanalAmbil ==
    ASSUME TypeOK, kanal # << >>, kanal' = Tail(kanal), NEW b \in Barang
    PROVE  DiKanal(b) = DiKanal(b)' + Head(kanal)[b] /\ DiKanal(b)' \in Nat
<1> DEFINE f == [n \in DOMAIN kanal |-> kanal[n][b]]
           g == [n \in DOMAIN kanal' |-> kanal'[n][b]]
           k == Len(kanal')
<1>1. /\ DOMAIN kanal = 1 .. k + 1 /\ k \in Nat /\ DOMAIN kanal' = 1 .. k
      /\ \A n \in 1 .. k : kanal'[n] = kanal[n + 1]
      /\ Head(kanal) \in Peta /\ Head(kanal) = kanal[1]
  <2>1. /\ kanal' \in Seq(Peta) /\ Len(kanal) = Len(kanal') + 1 /\ k \in Nat
        /\ \A n \in 1 .. Len(kanal') : kanal'[n] = kanal[n + 1]
        /\ Head(kanal) \in Peta /\ Head(kanal) = kanal[1]
    BY AmbilTipe
  <2>2. DOMAIN kanal' = 1 .. Len(kanal')
    BY <2>1
  <2>3. DOMAIN kanal = 1 .. Len(kanal)
    BY KanalTipe
  <2> QED BY <2>1, <2>2, <2>3
<1>2. DiKanal(b) = SumFunctionOnSet(f, 1 .. k + 1) /\ DiKanal(b)' = SumFunctionOnSet(g, 1 .. k)
  BY <1>1 DEF DiKanal, SumFunction
<1>3. \A n \in 1 .. k + 1 : kanal[n] \in Peta
  BY <1>1 DEF TypeOK
<1>4. /\ \A n \in 1 .. k + 1 : f[n] \in Nat
      /\ \A n \in 1 .. k : g[n] = f[n + 1]
      /\ f[1] = Head(kanal)[b] /\ f[1] \in Nat
  BY <1>1, <1>3 DEF Peta
<1> HIDE DEF f, g, k
<1>5. Bilangan(f, 1 .. k + 1)
  BY <1>1, <1>4 DEF Bilangan
<1>6. SumFunctionOnSet(f, 1 .. k + 1) = f[1] + SumFunctionOnSet(g, 1 .. k)
  BY <1>1, <1>4, <1>5, JumlahAwal
<1>7. SumFunctionOnSet(g, 1 .. k) \in Nat
  <2>1. IsFiniteSet(1 .. k)
    BY <1>1, FS_Interval
  <2>2. \A n \in 1 .. k : g[n] \in Nat
    BY <1>1, <1>4
  <2> QED BY <2>1, <2>2, JumlahTakNegatif
<1> QED BY <1>2, <1>4, <1>6, <1>7

LEMMA TertundaTipe ==
    ASSUME TypeOK, NEW b \in Barang
    PROVE  /\ Tertunda(b) = target[b] + pantau[b] + pekerja[b] + DiProses(b) + DiKanal(b)
           /\ DiProses(b) \in Nat /\ DiKanal(b) \in Nat
           /\ target[b] \in Nat /\ pantau[b] \in Nat /\ pekerja[b] \in Nat
           /\ viewed[b] \in Nat /\ hilang[b] \in Nat /\ dilihat[b] \in Nat
BY KanalTipe DEF Tertunda, DiProses, DiKanal, TypeOK, Peta

LEMMA KekalAwal == Init => TampilanKekal
<1> SUFFICES ASSUME Init, NEW b \in Barang
             PROVE  dilihat[b] = Tertunda(b) + viewed[b] + hilang[b]
  BY DEF TampilanKekal
<1>1. TypeOK
  BY TypeAwal
<1>2. DiProses(b) = 0
  <2> DEFINE f == [q \in Proses |-> proses[q][b]]
  <2>1. \A q \in Proses : f[q] = 0
    BY PetaNilai DEF Init
  <2>2. DiProses(b) = SumFunctionOnSet(f, Proses)
    BY DEF DiProses, SumFunction
  <2> HIDE DEF f
  <2> QED BY <2>1, <2>2, TampilanAssumption, JumlahNol
<1>3. DiKanal(b) = 0
  <2> DEFINE f == [n \in DOMAIN kanal |-> kanal[n][b]]
  <2>1. DOMAIN kanal = {}
    BY DEF Init
  <2>2. DiKanal(b) = SumFunctionOnSet(f, {})
    BY <2>1 DEF DiKanal, SumFunction
  <2> HIDE DEF f
  <2> QED BY <2>2, JumlahKosong
<1>4. target[b] = 0 /\ pantau[b] = 0 /\ pekerja[b] = 0 /\ viewed[b] = 0 /\ hilang[b] = 0 /\ dilihat[b] = 0
  BY PetaNilai DEF Init
<1> QED BY <1>1, <1>2, <1>3, <1>4, TertundaTipe

LEMMA KekalLangkah == TypeOK /\ TampilanKekal /\ [Next]_vars => TampilanKekal'
<1> SUFFICES ASSUME TypeOK, TampilanKekal, [Next]_vars, NEW c \in Barang
             PROVE  dilihat'[c] = Tertunda(c)' + viewed'[c] + hilang'[c]
  BY DEF TampilanKekal
<1>x. dilihat[c] = Tertunda(c) + viewed[c] + hilang[c]
  BY DEF TampilanKekal
<1>y. Tertunda(c)' = target'[c] + pantau'[c] + pekerja'[c] + DiProses(c)' + DiKanal(c)'
  BY DEF Tertunda, DiProses, DiKanal
<1>z. \A b \in Barang, n \in Nat :
         /\ Tambah(target, b, n) \in Peta
         /\ Tambah(target, b, n)[c] = IF c = b THEN target[c] + n ELSE target[c]
         /\ Tambah(dilihat, b, n)[c] = IF c = b THEN dilihat[c] + n ELSE dilihat[c]
         /\ Tambah(viewed, b, n)[c] = IF c = b THEN viewed[c] + n ELSE viewed[c]
         /\ Tambah(hilang, b, n)[c] = IF c = b THEN hilang[c] + n ELSE hilang[c]
         /\ Tanpa(pekerja, b)[c] = IF c = b THEN 0 ELSE pekerja[c]
  BY DEF TypeOK, Peta, Tambah, Tanpa
<1>a. /\ Tertunda(c) = target[c] + pantau[c] + pekerja[c] + DiProses(c) + DiKanal(c)
      /\ Tertunda(c)' = target'[c] + pantau'[c] + pekerja'[c] + DiProses(c)' + DiKanal(c)'
      /\ DiProses(c) \in Nat /\ DiKanal(c) \in Nat
      /\ target[c] \in Nat /\ pantau[c] \in Nat /\ pekerja[c] \in Nat
      /\ viewed[c] \in Nat /\ hilang[c] \in Nat /\ dilihat[c] \in Nat
      /\ dilihat[c] = Tertunda(c) + viewed[c] + hilang[c]
  BY <1>x, <1>y, TertundaTipe
<1>b. /\ UNCHANGED proses => DiProses(c)' = DiProses(c)
      /\ UNCHANGED kanal => DiKanal(c)' = DiKanal(c)
  BY DEF DiProses, DiKanal
<1>c. Kosong[c] = 0 /\ Kosong \in Peta
  BY PetaNilai, PetaTipe
<1>1. ASSUME NEW p \in Proses, NEW b \in Barang, IncrUpdateViewColumn(p, b)
      PROVE  dilihat'[c] = Tertunda(c)' + viewed'[c] + hilang'[c]
  <2> DEFINE baru == Tambah(target, b, 1)
             e == IF c = b THEN 1 ELSE 0
  <2>1. /\ proses[p] = Kosong /\ dilihat' = Tambah(dilihat, b, 1)
        /\ \/ target' = baru /\ UNCHANGED proses
           \/ proses' = [proses EXCEPT ![p] = baru] /\ target' = Kosong
        /\ UNCHANGED <<kanal, pantau, pekerja, viewed, hilang>>
    BY <1>1 DEF IncrUpdateViewColumn
  <2>2. baru \in Peta /\ baru[c] = target[c] + e /\ dilihat'[c] = dilihat[c] + e
    <3>1. 1 \in Nat
      OBVIOUS
    <3>2. baru \in Peta /\ baru[c] = IF c = b THEN target[c] + 1 ELSE target[c]
      BY <3>1, <1>z
    <3>3. dilihat'[c] = IF c = b THEN dilihat[c] + 1 ELSE dilihat[c]
      BY <3>1, <2>1, <1>z
    <3> QED BY <3>2, <3>3, <1>a
  <2> HIDE DEF baru
  <2>3. CASE target' = baru /\ UNCHANGED proses
    BY <2>1, <2>2, <2>3, <1>a, <1>b
  <2>4. CASE proses' = [proses EXCEPT ![p] = baru] /\ target' = Kosong
    <3>1. DiProses(c)' = DiProses(c) + baru[c] - Kosong[c]
      BY <2>1, <2>2, <2>4, ProsesUbah
    <3> QED BY <2>1, <2>2, <2>4, <3>1, <1>a, <1>b, <1>c
  <2> QED BY <2>1, <2>3, <2>4
<1>2. ASSUME NEW p \in Proses, KirimPermintaan(p)
      PROVE  dilihat'[c] = Tertunda(c)' + viewed'[c] + hilang'[c]
  <2>1. /\ Kirim(proses[p]) /\ proses' = [proses EXCEPT ![p] = Kosong]
        /\ UNCHANGED <<target, pantau, pekerja, viewed, hilang, dilihat>>
    BY <1>2 DEF KirimPermintaan
  <2>2. proses[p] \in Peta /\ proses[p][c] \in Nat
    BY DEF TypeOK, Peta
  <2>3. DiProses(c)' = DiProses(c) + 0 - proses[p][c]
    BY <2>1, <1>c, ProsesUbah
  <2>4. DiKanal(c)' = DiKanal(c) + proses[p][c]
    BY <2>1, <2>2, KanalKirim
  <2> QED BY <2>1, <2>2, <2>3, <2>4, <1>a
<1>3. CASE WatchInterval
  <2>1. /\ pantau[c] = 0 /\ pantau' = target /\ target'[c] = 0
        /\ UNCHANGED <<kanal, proses, pekerja, viewed, hilang, dilihat>>
    BY <1>3, <1>c DEF WatchInterval
  <2> QED BY <2>1, <1>a, <1>b
<1>4. CASE KirimPantau
  <2>1. /\ Kirim(pantau) /\ pantau'[c] = 0
        /\ UNCHANGED <<target, proses, pekerja, viewed, hilang, dilihat>>
    BY <1>4, <1>c DEF KirimPantau
  <2>2. DiKanal(c)' = DiKanal(c) + pantau[c]
    BY <2>1, KanalKirim DEF TypeOK
  <2> QED BY <2>1, <2>2, <1>a, <1>b
<1>5. CASE UpdateToDB
  <2>1. /\ pekerja[c] = 0 /\ pekerja' = Head(kanal) /\ kanal # << >> /\ kanal' = Tail(kanal)
        /\ UNCHANGED <<target, proses, pantau, viewed, hilang, dilihat>>
    BY <1>5, <1>c DEF UpdateToDB
  <2>2. DiKanal(c) = DiKanal(c)' + Head(kanal)[c] /\ DiKanal(c)' \in Nat /\ Head(kanal)[c] \in Nat
    BY <2>1, KanalAmbil, AmbilTipe DEF Peta
  <2> QED BY <2>1, <2>2, <1>a, <1>b
<1>6. ASSUME NEW b \in Barang, TulisViewed(b)
      PROVE  dilihat'[c] = Tertunda(c)' + viewed'[c] + hilang'[c]
  <2> DEFINE n == pekerja[b]
  <2>1. /\ \/ viewed' = Tambah(viewed, b, n) /\ UNCHANGED hilang
           \/ hilang' = Tambah(hilang, b, n) /\ UNCHANGED viewed
        /\ pekerja' = Tanpa(pekerja, b)
        /\ UNCHANGED <<target, kanal, proses, pantau, dilihat>>
    BY <1>6 DEF TulisViewed
  <2>2. n \in Nat
    BY DEF TypeOK, Peta
  <2>3. /\ Tambah(viewed, b, n)[c] = IF c = b THEN viewed[c] + n ELSE viewed[c]
        /\ Tambah(hilang, b, n)[c] = IF c = b THEN hilang[c] + n ELSE hilang[c]
        /\ Tanpa(pekerja, b)[c] = IF c = b THEN 0 ELSE pekerja[c]
    BY <2>2, <1>z
  <2> DEFINE v == viewed'[c]
             h == hilang'[c]
             k == pekerja'[c]
  <2>4. k + v + h = pekerja[c] + viewed[c] + hilang[c] /\ k \in Nat /\ v \in Nat /\ h \in Nat
    BY <2>1, <2>2, <2>3, <1>a
  <2>5. /\ target'[c] = target[c] /\ pantau'[c] = pantau[c] /\ dilihat'[c] = dilihat[c]
        /\ DiProses(c)' = DiProses(c) /\ DiKanal(c)' = DiKanal(c)
    BY <2>1, <1>b
  <2> HIDE DEF v, h, k
  <2>6. dilihat'[c] = target'[c] + pantau'[c] + k + DiProses(c)' + DiKanal(c)' + v + h
    BY <2>4, <2>5, <1>a
  <2> QED BY <2>6, <1>a DEF v, h, k
<1>7. CASE KonteksHabis
  BY <1>7, <1>a, <1>b DEF KonteksHabis
<1>8. CASE UNCHANGED vars
  BY <1>8, <1>a, <1>b DEF vars
<1> QED BY <1>1, <1>2, <1>3, <1>4, <1>5, <1>6, <1>7, <1>8 DEF Next

\* No view is counted twice and none is dropped before its write was tried, whatever
\* requests, ticks and the worker do in between: each is in a map, in the hands of a
\* goroutine, in the channel, in the column or among the failed writes.
THEOREM KekalBenar == Spec => []TampilanKekal
<1>1. TypeOK /\ TampilanKekal /\ [Next]_vars => TypeOK' /\ TampilanKekal'
  BY TypeLangkah, KekalLangkah
<1> QED BY TypeAwal, KekalAwal, <1>1, PTL DEF Spec

-----------------------------------------------------------------------------
(* The size of the maps.                                                    *)

LEMMA JumlahPeta ==
    /\ SumFunction(Kosong) = 0
    /\ \A m \in Peta : SumFunction(m) \in Nat
    /\ \A m \in Peta, b \in Barang : SumFunction(Tambah(m, b, 1)) = SumFunction(m) + 1
<1>1. SumFunction(Kosong) = 0
  <2>1. \A b \in Barang : Kosong[b] = 0
    BY PetaNilai
  <2>2. SumFunction(Kosong) = SumFunctionOnSet(Kosong, Barang)
    BY DEF SumFunction, Kosong
  <2> QED BY <2>1, <2>2, TampilanAssumption, JumlahNol
<1>2. ASSUME NEW m \in Peta PROVE SumFunction(m) \in Nat /\ SumFunction(m) = SumFunctionOnSet(m, Barang)
  <2>1. \A b \in Barang : m[b] \in Nat
    BY DEF Peta
  <2>2. SumFunction(m) = SumFunctionOnSet(m, Barang)
    BY DEF SumFunction, Peta
  <2> QED BY <2>1, <2>2, TampilanAssumption, JumlahTakNegatif
<1>3. ASSUME NEW m \in Peta, NEW b \in Barang
      PROVE  SumFunction(Tambah(m, b, 1)) = SumFunction(m) + 1
  <2> DEFINE n == Tambah(m, b, 1)
  <2>1. n \in Peta
    BY PetaTipe
  <2>2. /\ \A c \in Barang : m[c] \in Nat /\ n[c] \in Nat /\ (c # b => m[c] = n[c])
        /\ n[b] = m[b] + 1
    BY DEF Peta, Tambah
  <2> HIDE DEF n
  <2>3. Bilangan(m, Barang) /\ Bilangan(n, Barang) /\ IsFiniteSet(Barang)
    BY <2>2, TampilanAssumption DEF Bilangan
  <2>4. SumFunctionOnSet(n, Barang) = SumFunctionOnSet(m, Barang) + n[b] - m[b]
    BY <2>2, <2>3, JumlahUbah
  <2>5. SumFunction(n) = SumFunctionOnSet(n, Barang) /\ SumFunction(m) = SumFunctionOnSet(m, Barang)
        /\ SumFunction(m) \in Nat
    BY <2>1, <1>2
  <2>6. m[b] \in Nat
    BY <2>2
  <2>7. SumFunction(n) = SumFunction(m) + 1
    BY <2>2, <2>4, <2>5, <2>6
  <2> QED BY <2>7 DEF n
<1> QED BY <1>1, <1>2, <1>3

\* What BatasBatch needs of the maps that are on their way to the channel.
BatasAntar ==
    /\ \A p \in Proses : SumFunction(proses[p]) <= Batas
    /\ SumFunction(pantau) <= Batas

Batasan == BatasBatch /\ BatasAntar

LEMMA BatasAwal == Init => Batasan
<1> SUFFICES ASSUME Init PROVE Batasan
  OBVIOUS
<1>1. Batas \in Nat /\ 0 < Batas
  BY TampilanAssumption
<1>2. \A p \in Proses : proses[p] = Kosong
  BY DEF Init
<1>3. target = Kosong /\ pantau = Kosong /\ limit = 0 /\ DOMAIN kanal = {}
  BY DEF Init
<1> QED BY <1>1, <1>2, <1>3, JumlahPeta DEF Batasan, BatasBatch, BatasAntar

LEMMA BatasKirim ==
    ASSUME TypeOK, Batasan, NEW m \in Peta, Kirim(m), SumFunction(m) <= Batas
    PROVE  \A n \in DOMAIN kanal' : SumFunction(kanal'[n]) <= Batas
<1> SUFFICES ASSUME NEW n \in DOMAIN kanal' PROVE SumFunction(kanal'[n]) <= Batas
  OBVIOUS
<1>1. /\ kanal' \in Seq(Peta) /\ Len(kanal') = Len(kanal) + 1 /\ Len(kanal) \in Nat
      /\ \A i \in 1 .. Len(kanal) + 1 : kanal'[i] = IF i <= Len(kanal) THEN kanal[i] ELSE m
  BY KirimTipe
<1>2. DOMAIN kanal' = 1 .. Len(kanal')
  BY <1>1
<1>3. n \in 1 .. Len(kanal) + 1
  BY <1>1, <1>2
<1>4. CASE n <= Len(kanal)
  <2>1. DOMAIN kanal = 1 .. Len(kanal)
    BY DEF TypeOK
  <2>2. n \in DOMAIN kanal
    BY <2>1, <1>1, <1>3, <1>4
  <2> QED BY <2>2, <1>1, <1>3, <1>4 DEF Batasan, BatasBatch
<1>5. CASE ~(n <= Len(kanal))
  BY <1>1, <1>3, <1>5
<1> QED BY <1>4, <1>5

LEMMA BatasAmbil ==
    ASSUME TypeOK, Batasan, kanal # << >>, kanal' = Tail(kanal)
    PROVE  \A n \in DOMAIN kanal' : SumFunction(kanal'[n]) <= Batas
<1> SUFFICES ASSUME NEW n \in DOMAIN kanal' PROVE SumFunction(kanal'[n]) <= Batas
  OBVIOUS
<1>1. /\ kanal' \in Seq(Peta) /\ Len(kanal) = Len(kanal') + 1 /\ Len(kanal') \in Nat
      /\ \A i \in 1 .. Len(kanal') : kanal'[i] = kanal[i + 1]
  BY AmbilTipe
<1>2. DOMAIN kanal' = 1 .. Len(kanal') /\ DOMAIN kanal = 1 .. Len(kanal)
  BY <1>1 DEF TypeOK
<1>3. n + 1 \in DOMAIN kanal /\ kanal'[n] = kanal[n + 1]
  BY <1>1, <1>2
<1> QED BY <1>3 DEF Batasan, BatasBatch

LEMMA BatasLangkah == TypeOK /\ Batasan /\ [Next]_vars => Batasan'
<1> SUFFICES ASSUME TypeOK, Batasan, [Next]_vars PROVE Batasan'
  OBVIOUS
<1>a. /\ Batas \in Nat /\ limit \in Nat /\ target \in Peta /\ pantau \in Peta
      /\ SumFunction(target) \in Nat /\ 0 < Batas
      /\ SumFunction(Kosong) = 0
  BY JumlahPeta, TampilanAssumption DEF TypeOK
<1>b. /\ SumFunction(target) <= limit
      /\ limit < Batas
      /\ \A n \in DOMAIN kanal : SumFunction(kanal[n]) <= Batas
      /\ \A p \in Proses : SumFunction(proses[p]) <= Batas
      /\ SumFunction(pantau) <= Batas
  BY DEF Batasan, BatasBatch, BatasAntar
<1> DEFINE Maksud ==
             /\ SumFunction(target') <= limit'
             /\ limit' < Batas
             /\ \A n \in DOMAIN kanal' : SumFunction(kanal'[n]) <= Batas
             /\ \A p \in Proses : SumFunction(proses'[p]) <= Batas
             /\ SumFunction(pantau') <= Batas
<1> SUFFICES Maksud
  BY DEF Batasan, BatasBatch, BatasAntar
<1>c. ASSUME NEW p \in Proses, NEW m, SumFunction(m) <= Batas, proses' = [proses EXCEPT ![p] = m]
      PROVE  \A q \in Proses : SumFunction(proses'[q]) <= Batas
  <2> SUFFICES ASSUME NEW q \in Proses PROVE SumFunction(proses'[q]) <= Batas
    OBVIOUS
  <2>1. proses'[q] = IF q = p THEN m ELSE proses[q]
    BY <1>c DEF TypeOK
  <2> QED BY <2>1, <1>b, <1>c
<1>1. ASSUME NEW p \in Proses, NEW b \in Barang, IncrUpdateViewColumn(p, b)
      PROVE  Maksud
  <2> DEFINE baru == Tambah(target, b, 1)
  <2>1. SumFunction(baru) = SumFunction(target) + 1
    BY <1>a, JumlahPeta
  <2>2. SumFunction(baru) <= limit + 1 /\ SumFunction(baru) <= Batas
    BY <2>1, <1>a, <1>b
  <2>3. /\ \/ limit + 1 < Batas /\ target' = baru /\ limit' = limit + 1 /\ UNCHANGED proses
           \/ proses' = [proses EXCEPT ![p] = baru] /\ target' = Kosong /\ limit' = 0
        /\ UNCHANGED <<kanal, pantau>>
    BY <1>1 DEF IncrUpdateViewColumn
  <2> HIDE DEF baru
  <2>4. CASE limit + 1 < Batas /\ target' = baru /\ limit' = limit + 1 /\ UNCHANGED proses
    BY <2>2, <2>3, <2>4, <1>b
  <2>5. CASE proses' = [proses EXCEPT ![p] = baru] /\ target' = Kosong /\ limit' = 0
    <3>1. \A q \in Proses : SumFunction(proses'[q]) <= Batas
      BY <2>2, <2>5, <1>c
    <3>2. SumFunction(target') <= limit' /\ limit' < Batas
      BY <2>5, <1>a
    <3> QED BY <2>3, <3>1, <3>2, <1>b
  <2> QED BY <2>3, <2>4, <2>5
<1>2. ASSUME NEW p \in Proses, KirimPermintaan(p)
      PROVE  Maksud
  <2>1. /\ Kirim(proses[p]) /\ proses' = [proses EXCEPT ![p] = Kosong]
        /\ UNCHANGED <<target, limit, pantau>>
    BY <1>2 DEF KirimPermintaan
  <2>2. proses[p] \in Peta /\ SumFunction(proses[p]) <= Batas
    BY <1>b DEF TypeOK
  <2>3. \A n \in DOMAIN kanal' : SumFunction(kanal'[n]) <= Batas
    BY <2>1, <2>2, BatasKirim
  <2>4. SumFunction(Kosong) <= Batas
    BY <1>a
  <2>5. \A q \in Proses : SumFunction(proses'[q]) <= Batas
    BY <2>1, <2>4, <1>c
  <2> QED BY <2>1, <2>3, <2>5, <1>b
<1>3. CASE WatchInterval
  <2>1. /\ pantau' = target /\ target' = Kosong
        /\ UNCHANGED <<limit, kanal, proses>>
    BY <1>3 DEF WatchInterval
  <2>2. SumFunction(target) <= Batas /\ SumFunction(Kosong) <= limit
    BY <1>a, <1>b
  <2> QED BY <2>1, <2>2, <1>b
<1>4. CASE KirimPantau
  <2>1. Kirim(pantau) /\ pantau' = Kosong /\ UNCHANGED <<target, limit, proses>>
    BY <1>4 DEF KirimPantau
  <2>2. \A n \in DOMAIN kanal' : SumFunction(kanal'[n]) <= Batas
    BY <2>1, <1>a, <1>b, BatasKirim
  <2>3. SumFunction(pantau') <= Batas
    BY <2>1, <1>a
  <2> QED BY <2>1, <2>2, <2>3, <1>b
<1>5. CASE UpdateToDB
  <2>1. kanal # << >> /\ kanal' = Tail(kanal) /\ UNCHANGED <<target, limit, proses, pantau>>
    BY <1>5 DEF UpdateToDB
  <2>2. \A n \in DOMAIN kanal' : SumFunction(kanal'[n]) <= Batas
    BY <2>1, BatasAmbil
  <2> QED BY <2>1, <2>2, <1>b
<1>6. ASSUME NEW b \in Barang, TulisViewed(b)
      PROVE  Maksud
  BY <1>6, <1>b DEF TulisViewed
<1>7. CASE KonteksHabis
  BY <1>7, <1>b DEF KonteksHabis
<1>8. CASE UNCHANGED vars
  BY <1>8, <1>b DEF vars
<1> QED BY <1>1, <1>2, <1>3, <1>4, <1>5, <1>6, <1>7, <1>8 DEF Next

\* A map never holds more views than the limit at which it is handed over, wherever it is:
\* ticks empty the map and leave Limit alone, which keeps Limit above the map's views.
THEOREM BatasBenar == Spec => []BatasBatch
<1>1. TypeOK /\ Batasan /\ [Next]_vars => TypeOK' /\ Batasan'
  BY TypeLangkah, BatasLangkah
<1>2. Batasan => BatasBatch
  BY DEF Batasan
<1> QED BY TypeAwal, BatasAwal, <1>1, <1>2, PTL DEF Spec
=============================================================================
