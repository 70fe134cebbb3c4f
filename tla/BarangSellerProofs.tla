------------------------- MODULE BarangSellerProofs -------------------------
(***************************************************************************)
(* Proofs about BarangSeller, for any requests of the seller and any        *)
(* checkouts beside them: type correctness and the original category of a   *)
(* product; and, for sellers who send one request at a time and wait for     *)
(* its goroutine (the scenario tertib of MCBarangSeller): no unit or         *)
(* category outlives its product, a category's stock is never more than its  *)
(* units, and once a goroutine is done the counters say what there is.       *)
(***************************************************************************)
EXTENDS MCBarangSeller, JumlahProofs, SequenceTheorems

TipeBarang == [ada : BOOLEAN, asal : Nat]
TipeKategori == [barang : Nat, stok : Int, original : BOOLEAN, ada : BOOLEAN]

Bentuk ==
    /\ barang \in Seq(TipeBarang)
    /\ kategori \in Seq(TipeKategori)
    /\ DOMAIN proses = Proses

\* What a request has read: numbers that it will write, and, if it is to change the
\* original, a category of the product, in the tables b and k.
Terbaca(b, k, r) ==
    /\ r.tahap = "tambah" => r.barang \in Nat /\ r.jumlah \in Int
    /\ r.tahap = "stok" => r.jumlah \in Int
    /\ r.tahap = "asal" => /\ r.barang \in DOMAIN b
                           /\ r.kategori \in DOMAIN k
                           /\ k[r.kategori].barang = r.barang

\* The category a product names, in the tables b and k.
AsalPada(b, k) ==
    \A n \in DOMAIN b : b[n].ada =>
        /\ b[n].asal \in DOMAIN k
        /\ k[b[n].asal].barang = n
        /\ k[b[n].asal].ada => k[b[n].asal].original

Inv == Bentuk /\ AsalPada(barang, kategori) /\ \A p \in Proses : Terbaca(barang, kategori, proses[p])

-----------------------------------------------------------------------------
(* Data.                                                                    *)

LEMMA BebasTerbaca == \A b, k : Terbaca(b, k, ProsesBebas)
BY DEF ProsesBebas, Terbaca

LEMMA BentukDomain ==
    Bentuk => /\ Len(barang) \in Nat /\ DOMAIN barang = 1 .. Len(barang)
              /\ Len(kategori) \in Nat /\ DOMAIN kategori = 1 .. Len(kategori)
BY DEF Bentuk

LEMMA BentukBaris ==
    Bentuk => /\ \A b \in DOMAIN barang : barang[b] \in TipeBarang
              /\ \A k \in DOMAIN kategori : kategori[k] \in TipeKategori
BY DEF Bentuk

\* A step keeps the product of every category, and the ids.
Menetap ==
    /\ DOMAIN barang \subseteq DOMAIN barang'
    /\ DOMAIN kategori \subseteq DOMAIN kategori'
    /\ \A k \in DOMAIN kategori : kategori'[k].barang = kategori[k].barang

\* One request moves on.
LEMMA ProsesMaju ==
    ASSUME Inv, Menetap, NEW p \in Proses, NEW r, Terbaca(barang', kategori', r),
           proses' = [proses EXCEPT ![p] = r]
    PROVE  /\ DOMAIN proses' = Proses
           /\ \A q \in Proses : Terbaca(barang', kategori', proses'[q])
<1>1. DOMAIN proses = Proses
  BY DEF Inv, Bentuk
<1>2. DOMAIN proses' = Proses /\ \A q \in Proses : proses'[q] = IF q = p THEN r ELSE proses[q]
  BY <1>1
<1>3. \A q \in Proses : Terbaca(barang', kategori', proses[q])
  BY DEF Inv, Terbaca, Menetap
<1> QED BY <1>2, <1>3

LEMMA ProsesLepas ==
    ASSUME Inv, Menetap, NEW p \in Proses, Lepas(p)
    PROVE  /\ DOMAIN proses' = Proses
           /\ \A q \in Proses : Terbaca(barang', kategori', proses'[q])
BY BebasTerbaca, ProsesMaju DEF Lepas

LEMMA ProsesDiam ==
    ASSUME Inv, Menetap, UNCHANGED proses
    PROVE  /\ DOMAIN proses' = Proses
           /\ \A q \in Proses : Terbaca(barang', kategori', proses'[q])
BY DEF Inv, Bentuk, Terbaca, Menetap

LEMMA BarisDiam ==
    ASSUME Inv, UNCHANGED <<barang, kategori>>
    PROVE  /\ Menetap
           /\ barang' \in Seq(TipeBarang) /\ kategori' \in Seq(TipeKategori)
           /\ AsalPada(barang', kategori')
BY DEF Menetap, Inv, Bentuk

\* A request begins.
LEMMA MulaiInv ==
    ASSUME Inv, NEW p \in Proses, NEW r, Terbaca(barang, kategori, r), Mulai(p, r),
           UNCHANGED <<barang, kategori>>
    PROVE  Inv'
<1>1. Menetap /\ barang' \in Seq(TipeBarang) /\ kategori' \in Seq(TipeKategori)
      /\ AsalPada(barang', kategori')
  BY BarisDiam
<1>2. /\ DOMAIN proses' = Proses
      /\ \A q \in Proses : Terbaca(barang', kategori', proses'[q])
  BY <1>1, ProsesMaju DEF Mulai
<1> QED BY <1>1, <1>2 DEF Inv, Bentuk

\* A step that leaves products and requests alone, or ends one, and changes categories but
\* neither the product of one nor its flag, and brings none back.
LEMMA KategoriInv ==
    ASSUME Inv, kategori' \in Seq(TipeKategori), DOMAIN kategori' = DOMAIN kategori,
           \A k \in DOMAIN kategori : /\ kategori'[k].barang = kategori[k].barang
                                      /\ kategori'[k].original = kategori[k].original
                                      /\ kategori'[k].ada => kategori[k].ada,
           barang' \in Seq(TipeBarang), DOMAIN barang' = DOMAIN barang,
           \A b \in DOMAIN barang : /\ barang'[b].ada => barang[b].ada
                                    /\ barang'[b].asal = barang[b].asal,
           UNCHANGED proses \/ \E p \in Proses : Lepas(p)
    PROVE  Inv'
<1>1. Menetap
  BY DEF Menetap
<1>2. AsalPada(barang', kategori')
  BY DEF Inv, AsalPada
<1>3. /\ DOMAIN proses' = Proses
      /\ \A q \in Proses : Terbaca(barang', kategori', proses'[q])
  BY <1>1, ProsesLepas, ProsesDiam
<1> QED BY <1>2, <1>3 DEF Inv, Bentuk

\* One field of a category changes.
LEMMA SatuKategori ==
    ASSUME Bentuk, NEW k, NEW e \in TipeKategori
    PROVE  /\ [kategori EXCEPT ![k] = e] \in Seq(TipeKategori)
           /\ DOMAIN [kategori EXCEPT ![k] = e] = DOMAIN kategori
           /\ \A j \in DOMAIN kategori : [kategori EXCEPT ![k] = e][j] = IF j = k THEN e ELSE kategori[j]
<1>1. CASE k \in DOMAIN kategori
  <2> DEFINE T == TipeKategori
  <2>1. kategori \in Seq(T) /\ e \in T /\ k \in 1 .. Len(kategori)
    BY <1>1, BentukDomain DEF Bentuk
  <2> HIDE DEF T
  <2>2. [kategori EXCEPT ![k] = e] \in Seq(T)
    BY <2>1
  <2>3. DOMAIN [kategori EXCEPT ![k] = e] = DOMAIN kategori
    OBVIOUS
  <2>4. \A j \in DOMAIN kategori : [kategori EXCEPT ![k] = e][j] = IF j = k THEN e ELSE kategori[j]
    OBVIOUS
  <2> QED BY <2>2, <2>3, <2>4 DEF T
<1>2. CASE k \notin DOMAIN kategori
  <2> DEFINE n == Len(kategori)
  <2>1. kategori \in [1 .. n -> TipeKategori]
    BY DEF Bentuk
  <2>2. k \notin 1 .. n
    BY <1>2, <2>1
  <2> HIDE DEF n
  <2>3. [kategori EXCEPT ![k] = e] = kategori
    BY <2>1, <2>2
  <2> QED BY <1>2, <2>3 DEF Bentuk
<1> QED BY <1>1, <1>2

LEMMA SatuBarang ==
    ASSUME Bentuk, NEW b, NEW e \in TipeBarang
    PROVE  /\ [barang EXCEPT ![b] = e] \in Seq(TipeBarang)
           /\ DOMAIN [barang EXCEPT ![b] = e] = DOMAIN barang
           /\ \A j \in DOMAIN barang : [barang EXCEPT ![b] = e][j] = IF j = b THEN e ELSE barang[j]
<1>1. CASE b \in DOMAIN barang
  <2> DEFINE T == TipeBarang
  <2>1. barang \in Seq(T) /\ e \in T /\ b \in 1 .. Len(barang)
    BY <1>1, BentukDomain DEF Bentuk
  <2> HIDE DEF T
  <2>2. [barang EXCEPT ![b] = e] \in Seq(T)
    BY <2>1
  <2>3. DOMAIN [barang EXCEPT ![b] = e] = DOMAIN barang
    OBVIOUS
  <2>4. \A j \in DOMAIN barang : [barang EXCEPT ![b] = e][j] = IF j = b THEN e ELSE barang[j]
    OBVIOUS
  <2> QED BY <2>2, <2>3, <2>4 DEF T
<1>2. CASE b \notin DOMAIN barang
  <2> DEFINE n == Len(barang)
  <2>1. barang \in [1 .. n -> TipeBarang]
    BY DEF Bentuk
  <2>2. b \notin 1 .. n
    BY <1>2, <2>1
  <2> HIDE DEF n
  <2>3. [barang EXCEPT ![b] = e] = barang
    BY <2>1, <2>2
  <2> QED BY <1>2, <2>3 DEF Bentuk
<1> QED BY <1>1, <1>2

-----------------------------------------------------------------------------
(* Products and categories that are made.                                   *)

LEMMA MasukanInv ==
    ASSUME Inv, NEW isi \in Isi, NEW asal \in DOMAIN isi, MasukanBarangInduk(isi, asal)
    PROVE  Inv'
<1> DEFINE b == Len(barang) + 1
           k0 == Len(kategori)
           n == Len(isi)
           K == [i \in 1 .. n |-> [barang |-> b, stok |-> isi[i], original |-> i = asal, ada |-> TRUE]]
           e == [ada |-> TRUE, asal |-> k0 + asal]
<1>1. barang' = Append(barang, e) /\ kategori' = kategori \o K /\ UNCHANGED proses
  BY DEF MasukanBarangInduk
<1>2. n \in Nat /\ asal \in 1 .. n /\ \A i \in 1 .. n : isi[i] \in Int
  <2>1. PICK m \in 1 .. 2 : isi \in [1 .. m -> StokAwal]
    BY DEF Isi
  <2>2. isi \in Seq(StokAwal) /\ DOMAIN isi = 1 .. m /\ m \in Nat
    BY <2>1
  <2>3. Len(isi) = m
    BY <2>2
  <2>4. StokAwal \subseteq Int
    BY BarangSellerAssumption
  <2>5. \A i \in 1 .. m : isi[i] \in Int
    BY <2>1, <2>4
  <2> QED BY <2>2, <2>3, <2>5
<1>3. b \in Nat /\ k0 \in Nat /\ b = Len(barang) + 1 /\ k0 = Len(kategori)
      /\ DOMAIN barang = 1 .. Len(barang) /\ DOMAIN kategori = 1 .. k0 /\ Len(barang) \in Nat
  BY BentukDomain DEF Inv
<1>4. e \in TipeBarang /\ e.ada /\ e.asal = k0 + asal
  BY <1>2, <1>3 DEF TipeBarang
<1> HIDE DEF n
<1>5. \A i \in 1 .. n : /\ [barang |-> b, stok |-> isi[i], original |-> i = asal, ada |-> TRUE] \in TipeKategori
                        /\ K[i].barang = b
  BY <1>2, <1>3 DEF TipeKategori
<1>6. K \in Seq(TipeKategori) /\ Len(K) = n
  BY <1>2, <1>5
<1>7. K[asal].original = (asal = asal)
  BY <1>2
<1> HIDE DEF b, K, e, k0
<1>8. barang' \in Seq(TipeBarang) /\ DOMAIN barang' = 1 .. b
      /\ barang'[b] = e /\ \A i \in 1 .. Len(barang) : barang'[i] = barang[i]
  BY <1>1, <1>3, <1>4 DEF Inv, Bentuk
<1>9. /\ kategori' \in Seq(TipeKategori) /\ DOMAIN kategori' = 1 .. k0 + n
      /\ \A i \in 1 .. k0 + n : kategori'[i] = IF i <= k0 THEN kategori[i] ELSE K[i - k0]
  <2> DEFINE T == TipeKategori
  <2>1. kategori \in Seq(T) /\ K \in Seq(T)
    BY <1>6 DEF Inv, Bentuk
  <2> HIDE DEF T
  <2>2. /\ kategori \o K \in Seq(T)
        /\ Len(kategori \o K) = Len(kategori) + Len(K)
        /\ \A i \in 1 .. Len(kategori) + Len(K) :
              (kategori \o K)[i] = IF i <= Len(kategori) THEN kategori[i] ELSE K[i - Len(kategori)]
    BY <2>1, ConcatProperties
  <2> QED BY <2>2, <1>1, <1>3, <1>6 DEF T
<1>10. \A i \in DOMAIN kategori : kategori'[i] = kategori[i] /\ i \in DOMAIN kategori'
  BY <1>2, <1>3, <1>9
<1>11. Menetap
  BY <1>3, <1>8, <1>9, <1>10 DEF Menetap
<1>12. kategori'[k0 + asal] = K[asal] /\ k0 + asal \in DOMAIN kategori'
  <2> DEFINE m == k0 + asal
  <2>1. ~(m <= k0) /\ m - k0 = asal /\ m \in 1 .. k0 + n
    BY <1>2, <1>3
  <2> HIDE DEF m
  <2>2. kategori'[m] = K[m - k0] /\ m \in DOMAIN kategori'
    BY <1>9, <2>1
  <2> QED BY <2>1, <2>2 DEF m
<1>13. AsalPada(barang', kategori')
  <2> SUFFICES ASSUME NEW i \in DOMAIN barang', barang'[i].ada
               PROVE  /\ barang'[i].asal \in DOMAIN kategori'
                      /\ kategori'[barang'[i].asal].barang = i
                      /\ kategori'[barang'[i].asal].ada => kategori'[barang'[i].asal].original
    BY DEF AsalPada
  <2>1. CASE i = b
    <3>1. barang'[i].asal = k0 + asal
      BY <2>1, <1>4, <1>8
    <3>2. K[asal].barang = b
      BY <1>2, <1>5
    <3>3. K[asal].original = TRUE
      BY <1>7
    <3> QED BY <2>1, <3>1, <3>2, <3>3, <1>12, Zenon
  <2>2. CASE i # b
    <3>1. i \in DOMAIN barang /\ barang'[i] = barang[i]
      BY <2>2, <1>3, <1>8
    <3>2. /\ barang[i].asal \in DOMAIN kategori
          /\ kategori[barang[i].asal].barang = i
          /\ kategori[barang[i].asal].ada => kategori[barang[i].asal].original
      BY <3>1 DEF Inv, AsalPada
    <3> QED BY <3>1, <3>2, <1>10
  <2> QED BY <2>1, <2>2
<1>14. /\ DOMAIN proses' = Proses
       /\ \A q \in Proses : Terbaca(barang', kategori', proses'[q])
  BY <1>1, <1>11, ProsesDiam
<1> QED BY <1>8, <1>9, <1>13, <1>14 DEF Inv, Bentuk

LEMMA MasukanGagalInv ==
    ASSUME Inv, MasukanGagal
    PROVE  Inv'
<1> DEFINE e == [ada |-> FALSE, asal |-> 0]
<1>1. barang' = Append(barang, e) /\ UNCHANGED <<kategori, proses>>
  BY DEF MasukanGagal
<1>2. e \in TipeBarang /\ ~e.ada
  BY DEF TipeBarang
<1> HIDE DEF e
<1>3. Len(barang) \in Nat /\ DOMAIN barang = 1 .. Len(barang)
  BY BentukDomain DEF Inv
<1>4. barang' \in Seq(TipeBarang) /\ DOMAIN barang' = 1 .. Len(barang) + 1
      /\ barang'[Len(barang) + 1] = e /\ \A i \in 1 .. Len(barang) : barang'[i] = barang[i]
  BY <1>1, <1>2, <1>3 DEF Inv, Bentuk
<1>5. Menetap
  BY <1>1, <1>3, <1>4 DEF Menetap
<1>6. AsalPada(barang', kategori')
  <2>1. \A i \in DOMAIN barang' : barang'[i].ada => i \in DOMAIN barang /\ barang'[i] = barang[i]
    BY <1>2, <1>3, <1>4
  <2> QED BY <2>1, <1>1 DEF Inv, AsalPada
<1>7. /\ DOMAIN proses' = Proses
      /\ \A q \in Proses : Terbaca(barang', kategori', proses'[q])
  BY <1>1, <1>5, ProsesDiam
<1> QED BY <1>1, <1>4, <1>6, <1>7 DEF Inv, Bentuk

LEMMA TambahInv ==
    ASSUME Inv, NEW p \in Proses, TambahTulis(p)
    PROVE  Inv'
<1> DEFINE r == proses[p]
           e == [barang |-> r.barang, stok |-> r.jumlah, original |-> FALSE, ada |-> TRUE]
<1>1. kategori' = Append(kategori, e) /\ Lepas(p) /\ UNCHANGED barang
  BY DEF TambahTulis
<1>2. e \in TipeKategori
  BY DEF TambahTulis, Inv, Terbaca, TipeKategori
<1> HIDE DEF e
<1>3. Len(kategori) \in Nat /\ DOMAIN kategori = 1 .. Len(kategori)
  BY BentukDomain DEF Inv
<1>4. kategori' \in Seq(TipeKategori) /\ DOMAIN kategori' = 1 .. Len(kategori) + 1
      /\ \A i \in 1 .. Len(kategori) : kategori'[i] = kategori[i]
  BY <1>1, <1>2, <1>3 DEF Inv, Bentuk
<1>5. \A i \in DOMAIN kategori : i \in DOMAIN kategori' /\ kategori'[i] = kategori[i]
  BY <1>3, <1>4
<1>6. Menetap
  BY <1>1, <1>5 DEF Menetap
<1>7. AsalPada(barang', kategori')
  BY <1>1, <1>5 DEF Inv, AsalPada
<1>8. /\ DOMAIN proses' = Proses
      /\ \A q \in Proses : Terbaca(barang', kategori', proses'[q])
  BY <1>1, <1>6, ProsesLepas
<1> QED BY <1>1, <1>4, <1>7, <1>8 DEF Inv, Bentuk

-----------------------------------------------------------------------------
(* Deletions.                                                               *)

LEMMA HapusBarangInv ==
    ASSUME Inv, NEW p \in Proses, HapusBarangTulis(p)
    PROVE  Inv'
<1> DEFINE r == proses[p]
           e == [barang[r.barang] EXCEPT !.ada = FALSE]
<1>1. /\ barang' = [barang EXCEPT ![r.barang].ada = FALSE]
      /\ kategori' = [k \in DOMAIN kategori |->
                        IF kategori[k].barang = r.barang
                        THEN [kategori[k] EXCEPT !.ada = FALSE] ELSE kategori[k]]
      /\ Lepas(p)
  BY DEF HapusBarangTulis
<1>2. Len(kategori) \in Nat /\ DOMAIN kategori = 1 .. Len(kategori)
  BY BentukDomain DEF Inv
<1>3. \A k \in DOMAIN kategori : /\ kategori'[k] \in TipeKategori
                                 /\ kategori'[k].barang = kategori[k].barang
                                 /\ kategori'[k].original = kategori[k].original
                                 /\ kategori'[k].ada => kategori[k].ada
  <2> TAKE k \in DOMAIN kategori
  <2>1. kategori[k] \in TipeKategori
    BY BentukBaris DEF Inv
  <2>2. kategori'[k] = IF kategori[k].barang = r.barang
                       THEN [kategori[k] EXCEPT !.ada = FALSE] ELSE kategori[k]
    BY <1>1
  <2> HIDE DEF r
  <2> QED BY <2>1, <2>2 DEF TipeKategori
<1>4. kategori' \in Seq(TipeKategori) /\ DOMAIN kategori' = DOMAIN kategori
  <2>1. kategori' = [k \in 1 .. Len(kategori) |-> kategori'[k]]
    BY <1>1, <1>2
  <2>2. \A k \in 1 .. Len(kategori) : kategori'[k] \in TipeKategori
    BY <1>2, <1>3
  <2> QED BY <1>2, <2>1, <2>2
<1>5. /\ barang' \in Seq(TipeBarang) /\ DOMAIN barang' = DOMAIN barang
      /\ \A b \in DOMAIN barang : /\ barang'[b].ada => barang[b].ada
                                  /\ barang'[b].asal = barang[b].asal
  <2>1. CASE r.barang \in DOMAIN barang
    <3>1. barang[r.barang] \in TipeBarang
      BY <2>1, BentukBaris DEF Inv
    <3>2. e \in TipeBarang /\ ~e.ada /\ e.asal = barang[r.barang].asal
      BY <3>1 DEF TipeBarang
    <3>3. barang' = [barang EXCEPT ![r.barang] = e]
      BY <1>1
    <3> HIDE DEF e, r
    <3> QED BY <3>2, <3>3, SatuBarang DEF Inv
  <2>2. CASE r.barang \notin DOMAIN barang
    <3> DEFINE n == Len(barang)
    <3>1. barang \in [1 .. n -> TipeBarang]
      BY DEF Inv, Bentuk
    <3>2. r.barang \notin 1 .. n
      BY <2>2, <3>1
    <3> HIDE DEF n
    <3>3. barang' = barang
      BY <1>1, <3>1, <3>2
    <3> QED BY <3>3 DEF Inv, Bentuk
  <2> QED BY <2>1, <2>2
<1> QED BY <1>1, <1>3, <1>4, <1>5, KategoriInv

LEMMA HapusKategoriInv ==
    ASSUME Inv, NEW p \in Proses, HapusKategoriTulis(p)
    PROVE  Inv'
<1> DEFINE n == proses[p].kategori
           e == [kategori[n] EXCEPT !.ada = FALSE]
<1>1. kategori' = [kategori EXCEPT ![n].ada = FALSE] /\ UNCHANGED barang /\ Lepas(p)
  BY DEF HapusKategoriTulis
<1> HIDE DEF n
<1>2. CASE n \in DOMAIN kategori
  <2>1. kategori[n] \in TipeKategori
    BY <1>2, BentukBaris DEF Inv
  <2>2. /\ e \in TipeKategori /\ ~e.ada
        /\ e.barang = kategori[n].barang /\ e.original = kategori[n].original
    BY <2>1 DEF TipeKategori
  <2>3. kategori' = [kategori EXCEPT ![n] = e]
    BY <1>1
  <2> HIDE DEF e
  <2>4. /\ kategori' \in Seq(TipeKategori) /\ DOMAIN kategori' = DOMAIN kategori
        /\ \A j \in DOMAIN kategori : kategori'[j] = IF j = n THEN e ELSE kategori[j]
    BY <2>2, <2>3, SatuKategori DEF Inv
  <2> QED BY <1>1, <2>2, <2>4, KategoriInv DEF Inv, Bentuk
<1>3. CASE n \notin DOMAIN kategori
  <2> DEFINE m == Len(kategori)
  <2>1. kategori \in [1 .. m -> TipeKategori]
    BY DEF Inv, Bentuk
  <2>2. n \notin 1 .. m
    BY <1>3, <2>1
  <2> HIDE DEF m
  <2>3. kategori' = kategori
    BY <1>1, <2>1, <2>2
  <2> QED BY <1>1, <2>3, KategoriInv DEF Inv, Bentuk
<1> QED BY <1>2, <1>3

-----------------------------------------------------------------------------
(* The original.                                                            *)

LEMMA AsalInv ==
    ASSUME Inv, NEW p \in Proses, AsalTulis(p)
    PROVE  Inv'
<1> DEFINE b == proses[p].barang
           n == proses[p].kategori
           d == [barang[b] EXCEPT !.asal = IF barang[b].ada THEN n ELSE @]
           e == [kategori[n] EXCEPT !.original = @ \/ kategori[n].ada]
<1>1. /\ barang' = [barang EXCEPT ![b] = d] /\ kategori' = [kategori EXCEPT ![n] = e] /\ Lepas(p)
  BY DEF AsalTulis
<1>2. b \in DOMAIN barang /\ n \in DOMAIN kategori /\ kategori[n].barang = b
  BY DEF AsalTulis, Inv, Terbaca
<1> HIDE DEF b, n
<1>3. barang[b] \in TipeBarang /\ kategori[n] \in TipeKategori /\ n \in Nat
  BY <1>2, BentukBaris, BentukDomain DEF Inv
<1>4. /\ d \in TipeBarang /\ d.ada = barang[b].ada
      /\ d.ada => d.asal = n
  BY <1>3 DEF TipeBarang
<1>5. /\ e \in TipeKategori /\ e.barang = b /\ e.ada = kategori[n].ada
      /\ e.ada => e.original
      /\ kategori[n].original => e.original
  BY <1>2, <1>3 DEF TipeKategori
<1> HIDE DEF d, e
<1>6. /\ barang' \in Seq(TipeBarang) /\ DOMAIN barang' = DOMAIN barang
      /\ \A j \in DOMAIN barang : barang'[j] = IF j = b THEN d ELSE barang[j]
  BY <1>1, <1>4, SatuBarang DEF Inv
<1>7. /\ kategori' \in Seq(TipeKategori) /\ DOMAIN kategori' = DOMAIN kategori
      /\ \A j \in DOMAIN kategori : kategori'[j] = IF j = n THEN e ELSE kategori[j]
  BY <1>1, <1>5, SatuKategori DEF Inv
<1>8. Menetap
  BY <1>2, <1>5, <1>6, <1>7 DEF Menetap
<1>9. AsalPada(barang', kategori')
  <2> SUFFICES ASSUME NEW i \in DOMAIN barang', barang'[i].ada
               PROVE  /\ barang'[i].asal \in DOMAIN kategori'
                      /\ kategori'[barang'[i].asal].barang = i
                      /\ kategori'[barang'[i].asal].ada => kategori'[barang'[i].asal].original
    BY DEF AsalPada
  <2>1. CASE i = b
    <3>1. barang'[i].asal = n /\ kategori'[n] = e
      BY <2>1, <1>2, <1>4, <1>6, <1>7
    <3> QED BY <2>1, <3>1, <1>2, <1>5, <1>7
  <2>2. CASE i # b
    <3>1. i \in DOMAIN barang /\ barang'[i] = barang[i]
      BY <2>2, <1>6
    <3> DEFINE a == barang[i].asal
    <3>2. a \in DOMAIN kategori /\ kategori[a].barang = i /\ (kategori[a].ada => kategori[a].original)
      BY <3>1 DEF Inv, AsalPada
    <3>3. a # n
      BY <3>2, <2>2, <1>2
    <3>4. kategori'[a] = kategori[a]
      BY <3>2, <3>3, <1>7
    <3> QED BY <3>1, <3>2, <3>4, <1>7
  <2> QED BY <2>1, <2>2
<1>10. /\ DOMAIN proses' = Proses
       /\ \A q \in Proses : Terbaca(barang', kategori', proses'[q])
  BY <1>1, <1>8, ProsesLepas
<1> QED BY <1>6, <1>7, <1>9, <1>10 DEF Inv, Bentuk

-----------------------------------------------------------------------------
(* Stocks.                                                                  *)

LEMMA StokInv ==
    ASSUME Inv, NEW k \in DOMAIN kategori, NEW n \in Int, kategori' = [kategori EXCEPT ![k].stok = n],
           UNCHANGED barang, UNCHANGED proses \/ \E p \in Proses : Lepas(p)
    PROVE  Inv'
<1> DEFINE e == [kategori[k] EXCEPT !.stok = n]
<1>1. kategori[k] \in TipeKategori
  BY BentukBaris DEF Inv
<1>2. /\ e \in TipeKategori /\ e.ada = kategori[k].ada
      /\ e.barang = kategori[k].barang /\ e.original = kategori[k].original
  BY <1>1 DEF TipeKategori
<1>3. kategori' = [kategori EXCEPT ![k] = e]
  OBVIOUS
<1> HIDE DEF e
<1>4. /\ kategori' \in Seq(TipeKategori) /\ DOMAIN kategori' = DOMAIN kategori
      /\ \A j \in DOMAIN kategori : kategori'[j] = IF j = k THEN e ELSE kategori[j]
  BY <1>2, <1>3, SatuKategori DEF Inv
<1> QED BY <1>2, <1>4, KategoriInv DEF Inv, Bentuk

LEMMA DiamInv ==
    ASSUME Inv, UNCHANGED <<barang, kategori>>, UNCHANGED proses \/ \E p \in Proses : Lepas(p)
    PROVE  Inv'
BY KategoriInv DEF Inv, Bentuk

LEMMA SetStokInv ==
    ASSUME Inv, NEW p \in Proses, StokKurang(p) \/ StokTambah(p)
    PROVE  Inv'
<1>1. /\ kategori' = SetStok(proses[p].kategori, proses[p].jumlah)
      /\ UNCHANGED barang /\ Lepas(p) /\ proses[p].jumlah \in Int
  BY DEF StokKurang, StokTambah, Inv, Terbaca
<1>2. CASE UNCHANGED kategori
  BY <1>1, <1>2, DiamInv
<1>3. CASE /\ KategoriAda(proses[p].kategori)
           /\ kategori' = [kategori EXCEPT ![proses[p].kategori].stok = proses[p].jumlah]
  BY <1>1, <1>3, StokInv DEF KategoriAda
<1> QED BY <1>1, <1>2, <1>3 DEF SetStok

\* A unit may be of no category here, as its type is not part of the invariant.
LEMMA PembeliInv ==
    ASSUME Inv, NEW q \in Pembeli, PembeliTahan(q)
    PROVE  Inv'
<1> DEFINE k == varian[pilihan[q]].kategori
<1>1. UNCHANGED <<barang, proses>>
  BY DEF PembeliTahan
<1>2. CASE UNCHANGED kategori
  BY <1>1, <1>2, DiamInv
<1>3. CASE kategori' = [kategori EXCEPT ![k].stok = @ - 1]
  <2> HIDE DEF k
  <2>1. CASE k \in DOMAIN kategori
    <3>1. kategori[k].stok - 1 \in Int
      BY <2>1, BentukBaris DEF Inv, TipeKategori
    <3>2. kategori' = [kategori EXCEPT ![k].stok = kategori[k].stok - 1]
      BY <1>3
    <3> QED BY <1>1, <2>1, <3>1, <3>2, StokInv
  <2>2. CASE k \notin DOMAIN kategori
    <3> DEFINE m == Len(kategori)
    <3>1. kategori \in [1 .. m -> TipeKategori]
      BY DEF Inv, Bentuk
    <3>2. k \notin 1 .. m
      BY <2>2, <3>1
    <3> HIDE DEF m
    <3>3. kategori' = kategori
      BY <1>3, <3>1, <3>2
    <3> QED BY <1>1, <3>3, DiamInv
  <2> QED BY <2>1, <2>2
<1> QED BY <1>2, <1>3 DEF PembeliTahan

-----------------------------------------------------------------------------
(* Every step of a request.                                                 *)

\* The requests that read a product.
LEMMA BacaBarangInv ==
    ASSUME Inv, NEW p \in Proses, NEW b \in DOMAIN barang,
           \/ HapusBarangInduk(p, b)
           \/ \E s \in StokAwal : TambahKategoriBarang(p, b, s)
           \/ \E k \in DOMAIN kategori : SetAsOriginKategoriBarang(p, b, k)
    PROVE  Inv'
<1>1. b \in Nat
  BY BentukDomain DEF Inv
<1>2. CASE HapusBarangInduk(p, b)
  <2>1. PICK K : Mulai(p, [ProsesBebas EXCEPT !.tahap = "hapusBarang", !.barang = b, !.pilih = K])
    BY <1>2 DEF HapusBarangInduk
  <2> DEFINE r == [ProsesBebas EXCEPT !.tahap = "hapusBarang", !.barang = b, !.pilih = K]
  <2>2. r.tahap = "hapusBarang"
    BY DEF ProsesBebas
  <2> HIDE DEF r
  <2>3. Terbaca(barang, kategori, r)
    BY <2>2 DEF Terbaca
  <2>4. Mulai(p, r) /\ UNCHANGED <<barang, kategori>>
    BY <1>2, <2>1 DEF r, HapusBarangInduk
  <2> QED BY <2>3, <2>4, MulaiInv
<1>3. ASSUME NEW s \in StokAwal, TambahKategoriBarang(p, b, s)
      PROVE  Inv'
  <2> DEFINE r == [ProsesBebas EXCEPT !.tahap = "tambah", !.barang = b, !.jumlah = s]
  <2>1. r.tahap = "tambah" /\ r.barang = b /\ r.jumlah = s
    BY DEF ProsesBebas
  <2>2. Mulai(p, r) /\ UNCHANGED <<barang, kategori>>
    BY <1>3 DEF TambahKategoriBarang
  <2> HIDE DEF r
  <2>3. s \in Int
    BY BarangSellerAssumption
  <2>4. Terbaca(barang, kategori, r)
    BY <1>1, <2>1, <2>3 DEF Terbaca
  <2> QED BY <2>2, <2>4, MulaiInv
<1>4. ASSUME NEW k \in DOMAIN kategori, SetAsOriginKategoriBarang(p, b, k)
      PROVE  Inv'
  <2> DEFINE r == [ProsesBebas EXCEPT !.tahap = "asal", !.barang = b, !.kategori = k]
  <2>1. r.tahap = "asal" /\ r.barang = b /\ r.kategori = k
    BY DEF ProsesBebas
  <2>2. Mulai(p, r) /\ UNCHANGED <<barang, kategori>> /\ kategori[k].barang = b
    BY <1>4 DEF SetAsOriginKategoriBarang
  <2> HIDE DEF r
  <2>3. Terbaca(barang, kategori, r)
    BY <2>1, <2>2 DEF Terbaca
  <2> QED BY <2>2, <2>3, MulaiInv
<1> QED BY <1>2, <1>3, <1>4

\* The requests that read a category.
LEMMA BacaKategoriInv ==
    ASSUME Inv, NEW p \in Proses, NEW k \in DOMAIN kategori,
           \/ HapusKategoriBarang(p, k)
           \/ \E n \in StokMasukan : EditStokKategoriBarang(p, k, n)
           \/ \E j \in Jumlah : DownKategoriBarang(p, k, j) \/ UpKategoriBarang(p, k, j)
    PROVE  Inv'
<1>1. CASE HapusKategoriBarang(p, k)
  <2> DEFINE r == [ProsesBebas EXCEPT !.tahap = "hapusKategori", !.barang = kategori[k].barang,
                                      !.kategori = k, !.jumlah = kategori[k].stok]
  <2>1. r.tahap = "hapusKategori"
    BY DEF ProsesBebas
  <2>2. Mulai(p, r) /\ UNCHANGED <<barang, kategori>>
    BY <1>1 DEF HapusKategoriBarang
  <2> HIDE DEF r
  <2>3. Terbaca(barang, kategori, r)
    BY <2>1 DEF Terbaca
  <2> QED BY <2>2, <2>3, MulaiInv
<1>2. ASSUME NEW n \in StokMasukan, EditStokKategoriBarang(p, k, n)
      PROVE  Inv'
  <2>1. PICK D : Mulai(p, [ProsesBebas EXCEPT !.tahap = "stok", !.barang = kategori[k].barang,
                                              !.kategori = k, !.jumlah = n, !.pilih = D])
    BY <1>2 DEF EditStokKategoriBarang
  <2> DEFINE r == [ProsesBebas EXCEPT !.tahap = "stok", !.barang = kategori[k].barang,
                                      !.kategori = k, !.jumlah = n, !.pilih = D]
  <2>2. r.tahap = "stok" /\ r.jumlah = n
    BY DEF ProsesBebas
  <2>3. Mulai(p, r) /\ UNCHANGED <<barang, kategori>>
    BY <1>2, <2>1 DEF EditStokKategoriBarang
  <2> HIDE DEF r
  <2>4. Terbaca(barang, kategori, r)
    BY <2>2, BarangSellerAssumption DEF Terbaca
  <2> QED BY <2>3, <2>4, MulaiInv
<1>3. ASSUME NEW j \in Jumlah, DownKategoriBarang(p, k, j)
      PROVE  Inv'
  <2>1. PICK S : Mulai(p, [ProsesBebas EXCEPT !.tahap = "turun", !.kategori = k, !.pilih = S,
                                              !.semua = (j = 0)])
    BY <1>3 DEF DownKategoriBarang
  <2> DEFINE r == [ProsesBebas EXCEPT !.tahap = "turun", !.kategori = k, !.pilih = S,
                                      !.semua = (j = 0)]
  <2>2. r.tahap = "turun"
    BY DEF ProsesBebas
  <2>3. Mulai(p, r) /\ UNCHANGED <<barang, kategori>>
    BY <1>3, <2>1 DEF DownKategoriBarang
  <2> HIDE DEF r
  <2>4. Terbaca(barang, kategori, r)
    BY <2>2 DEF Terbaca
  <2> QED BY <2>3, <2>4, MulaiInv
<1>4. ASSUME NEW j \in Jumlah, UpKategoriBarang(p, k, j)
      PROVE  Inv'
  <2>1. PICK S : Mulai(p, [ProsesBebas EXCEPT !.tahap = "naik", !.kategori = k, !.pilih = S])
    BY <1>4 DEF UpKategoriBarang
  <2> DEFINE r == [ProsesBebas EXCEPT !.tahap = "naik", !.kategori = k, !.pilih = S]
  <2>2. r.tahap = "naik"
    BY DEF ProsesBebas
  <2>3. Mulai(p, r) /\ UNCHANGED <<barang, kategori>>
    BY <1>4, <2>1 DEF UpKategoriBarang
  <2> HIDE DEF r
  <2>4. Terbaca(barang, kategori, r)
    BY <2>2 DEF Terbaca
  <2> QED BY <2>3, <2>4, MulaiInv
<1> QED BY <1>1, <1>2, <1>3, <1>4

\* The writes that move no product and no category, and a request that is cut off.
LEMMA LepasInv ==
    ASSUME Inv, NEW p \in Proses, DownKategoriTulis(p) \/ UpKategoriTulis(p) \/ Putus(p)
    PROVE  Inv'
<1>1. Lepas(p) /\ UNCHANGED <<barang, kategori>>
  BY DEF DownKategoriTulis, UpKategoriTulis, Putus
<1> QED BY <1>1, DiamInv

LEMMA ProsesInv ==
    ASSUME Inv, NEW p \in Proses, Langkah(p)
    PROVE  Inv'
BY BacaBarangInv, BacaKategoriInv, HapusBarangInv, TambahInv, HapusKategoriInv, AsalInv,
   SetStokInv, LepasInv DEF Langkah

\* A goroutine moves counters only.
LEMMA LatarInv ==
    ASSUME Inv, NEW i \in DOMAIN latar, Latar(i)
    PROVE  Inv'
<1>1. UNCHANGED <<barang, kategori, proses>>
  BY DEF Latar, LatarBuat, LatarTambah, LatarHapusBarang, LatarHapusKategori, LatarStok,
         LatarTurunBarang, LatarNaikBarang, LatarTurun, LatarNaik, LatarGagal, Ambil
<1> QED BY <1>1, DiamInv

-----------------------------------------------------------------------------
(* The specification.                                                       *)

LEMMA InvAwal == Init => Inv
<1> SUFFICES ASSUME Init PROVE Inv
  OBVIOUS
<1>1. barang = << >> /\ kategori = << >> /\ DOMAIN barang = {}
      /\ proses = [p \in Proses |-> ProsesBebas]
  BY DEF Init
<1>2. Bentuk /\ AsalPada(barang, kategori)
  BY <1>1 DEF Bentuk, AsalPada
<1>3. \A p \in Proses : Terbaca(barang, kategori, proses[p])
  BY <1>1, BebasTerbaca
<1> QED BY <1>2, <1>3 DEF Inv

LEMMA InvLangkah == Inv /\ [Next]_vars => Inv'
<1> SUFFICES ASSUME Inv, [Next]_vars PROVE Inv'
  OBVIOUS
<1>1. ASSUME NEW isi \in Isi, NEW asal \in DOMAIN isi, MasukanBarangInduk(isi, asal)
      PROVE  Inv'
  BY <1>1, MasukanInv
<1>2. CASE MasukanGagal
  BY <1>2, MasukanGagalInv
<1>3. ASSUME NEW b \in DOMAIN barang, DownStokBarangInduk(b) \/ UpBarangInduk(b)
      PROVE  Inv'
  <2>1. UNCHANGED <<barang, kategori, proses>>
    BY <1>3 DEF DownStokBarangInduk, UpBarangInduk
  <2> QED BY <2>1, DiamInv
<1>4. ASSUME NEW p \in Proses, Langkah(p)
      PROVE  Inv'
  BY <1>4, ProsesInv
<1>5. ASSUME NEW i \in DOMAIN latar, Latar(i)
      PROVE  Inv'
  BY <1>5, LatarInv
<1>6. ASSUME NEW q \in Pembeli, PembeliBaca(q) \/ PembeliTahan(q)
      PROVE  Inv'
  <2>1. CASE PembeliBaca(q)
    <3>1. UNCHANGED <<barang, kategori, proses>>
      BY <2>1 DEF PembeliBaca
    <3> QED BY <3>1, DiamInv
  <2>2. CASE PembeliTahan(q)
    BY <2>2, PembeliInv
  <2> QED BY <1>6, <2>1, <2>2
<1>7. CASE UNCHANGED vars
  <2>1. UNCHANGED <<barang, kategori, proses>>
    BY <1>7 DEF vars
  <2> QED BY <2>1, DiamInv
<1> QED BY <1>1, <1>2, <1>3, <1>4, <1>5, <1>6, <1>7 DEF Next

LEMMA InvAsal == Inv => AsalTerdaftar
BY DEF Inv, AsalPada, AsalTerdaftar

\* The original category of a product is one of its own, and flagged as the original as
\* long as it exists: SetAsOriginKategoriBarang writes what it has read in an earlier step,
\* whatever other requests, deletions, checkouts and goroutines do in between
\* (engagement_barang.go).
THEOREM AsalBenar == Spec => []AsalTerdaftar
BY InvAwal, InvLangkah, InvAsal, PTL DEF Spec

-----------------------------------------------------------------------------
(* Sequences.                                                               *)

LEMMA SeqDasar ==
    ASSUME NEW T, NEW s \in Seq(T)
    PROVE  Len(s) \in Nat /\ DOMAIN s = 1 .. Len(s) /\ \A i \in 1 .. Len(s) : s[i] \in T
OBVIOUS

LEMMA SeqTambah ==
    ASSUME NEW T, NEW s \in Seq(T), NEW e \in T
    PROVE  /\ Append(s, e) \in Seq(T) /\ Len(Append(s, e)) = Len(s) + 1
           /\ DOMAIN Append(s, e) = 1 .. Len(s) + 1
           /\ \A i \in 1 .. Len(s) : Append(s, e)[i] = s[i]
           /\ Append(s, e)[Len(s) + 1] = e
OBVIOUS

LEMMA SeqGabung ==
    ASSUME NEW T, NEW s \in Seq(T), NEW t \in Seq(T)
    PROVE  /\ s \o t \in Seq(T) /\ Len(s \o t) = Len(s) + Len(t)
           /\ DOMAIN (s \o t) = 1 .. Len(s) + Len(t)
           /\ \A i \in 1 .. Len(s) : (s \o t)[i] = s[i]
           /\ \A i \in 1 .. Len(t) : (s \o t)[Len(s) + i] = t[i]
           /\ \A i \in 1 .. Len(s) + Len(t) :
                 i \in 1 .. Len(s) \/ \E j \in 1 .. Len(t) : i = Len(s) + j
<1>1. /\ s \o t \in Seq(T) /\ Len(s \o t) = Len(s) + Len(t)
      /\ \A i \in 1 .. Len(s) + Len(t) : (s \o t)[i] = IF i <= Len(s) THEN s[i] ELSE t[i - Len(s)]
  BY ConcatProperties
<1>2. Len(s) \in Nat /\ Len(t) \in Nat /\ DOMAIN (s \o t) = 1 .. Len(s) + Len(t)
  BY <1>1
<1> DEFINE m == Len(s)
           n == Len(t)
           c == s \o t
<1>3. m \in Nat /\ n \in Nat /\ \A i \in 1 .. m + n : c[i] = IF i <= m THEN s[i] ELSE t[i - m]
  BY <1>1, <1>2
<1> HIDE DEF m, n, c
<1>4. \A i \in 1 .. m : i \in 1 .. m + n /\ i <= m
  BY <1>3
<1>5. \A i \in 1 .. n : m + i \in 1 .. m + n /\ ~(m + i <= m) /\ (m + i) - m = i
  BY <1>3
<1>6. \A i \in 1 .. n : c[m + i] = t[i]
  <2> TAKE i \in 1 .. n
  <2>1. c[m + i] = t[(m + i) - m]
    BY <1>3, <1>5
  <2> QED BY <1>5, <2>1
<1>7. \A i \in 1 .. m : c[i] = s[i]
  BY <1>3, <1>4
<1>8. \A i \in 1 .. m + n : i \in 1 .. m \/ \E j \in 1 .. n : i = m + j
  <2> SUFFICES ASSUME NEW i \in 1 .. m + n, i \notin 1 .. m PROVE \E j \in 1 .. n : i = m + j
    OBVIOUS
  <2>1. i - m \in 1 .. n /\ i = m + (i - m)
    BY <1>3
  <2> QED BY <2>1
<1> QED BY <1>1, <1>2, <1>6, <1>7, <1>8 DEF m, n, c

LEMMA SeqUbah ==
    ASSUME NEW T, NEW S, NEW s \in Seq(T), NEW f, f = [i \in DOMAIN s |-> f[i]],
           \A i \in DOMAIN s : f[i] \in S
    PROVE  f \in Seq(S) /\ Len(f) = Len(s) /\ DOMAIN f = DOMAIN s
<1>1. f = [i \in 1 .. Len(s) |-> f[i]] /\ Len(s) \in Nat
  OBVIOUS
<1> QED BY <1>1

LEMMA SeqSatu ==
    ASSUME NEW T, NEW s \in Seq(T), NEW k, k \in DOMAIN s, NEW e \in T
    PROVE  /\ [s EXCEPT ![k] = e] \in Seq(T) /\ Len([s EXCEPT ![k] = e]) = Len(s)
           /\ DOMAIN [s EXCEPT ![k] = e] = DOMAIN s
           /\ \A i \in DOMAIN s : [s EXCEPT ![k] = e][i] = IF i = k THEN e ELSE s[i]
<1>1. k \in 1 .. Len(s)
  OBVIOUS
<1> QED BY <1>1

\* The rest of the goroutines.
LEMMA SeqSisa ==
    ASSUME NEW T, latar \in Seq(T), NEW i \in DOMAIN latar
    PROVE  /\ Sisa(i) \in Seq(T)
           /\ \A j \in DOMAIN Sisa(i) : \E h \in DOMAIN latar : Sisa(i)[j] = latar[h]
           /\ Len(latar) <= 1 => Sisa(i) = << >>
<1> DEFINE n == Len(latar)
           s == SubSeq(latar, 1, i - 1)
           t == SubSeq(latar, i + 1, n)
<1>1. n \in Nat /\ i \in 1 .. n /\ DOMAIN latar = 1 .. n
  OBVIOUS
<1>2. /\ s \in Seq(T) /\ Len(s) = i - 1
      /\ \A j \in 1 .. i - 1 : s[j] = latar[j] /\ j \in 1 .. n
  BY <1>1
<1>3. /\ t \in Seq(T) /\ Len(t) = n - i
      /\ \A j \in 1 .. n - i : t[j] = latar[i + j] /\ i + j \in 1 .. n
  BY <1>1
<1>4. Sisa(i) = s \o t
  BY DEF Sisa
<1> HIDE DEF s, t
<1>5. /\ s \o t \in Seq(T) /\ DOMAIN (s \o t) = 1 .. Len(s) + Len(t)
      /\ Len(s \o t) = Len(s) + Len(t)
      /\ \A j \in 1 .. Len(s) : (s \o t)[j] = s[j]
      /\ \A j \in 1 .. Len(t) : (s \o t)[Len(s) + j] = t[j]
      /\ \A j \in 1 .. Len(s) + Len(t) :
            j \in 1 .. Len(s) \/ \E h \in 1 .. Len(t) : j = Len(s) + h
  <2>1. s \in Seq(T) /\ t \in Seq(T)
    BY <1>2, <1>3
  <2> QED BY <2>1, SeqGabung
<1>6. ASSUME NEW j \in DOMAIN (s \o t) PROVE \E h \in 1 .. n : (s \o t)[j] = latar[h]
  <2>1. CASE j \in 1 .. Len(s)
    BY <1>2, <1>5, <2>1
  <2>2. CASE \E h \in 1 .. Len(t) : j = Len(s) + h
    BY <1>3, <1>5, <2>2
  <2> QED BY <1>5, <1>6, <2>1, <2>2
<1>7. n <= 1 => s \o t = << >>
  <2> SUFFICES ASSUME n <= 1 PROVE s \o t = << >>
    OBVIOUS
  <2>1. Len(s \o t) = 0
    BY <1>1, <1>2, <1>3, <1>5
  <2> DEFINE c == s \o t
  <2> HIDE DEF c
  <2>2. c \in Seq(T) /\ Len(c) = 0
    BY <1>5, <2>1 DEF c
  <2>3. c = << >>
    BY <2>2, EmptySeq
  <2> QED BY <2>3 DEF c
<1> QED BY <1>1, <1>4, <1>5, <1>6, <1>7

-----------------------------------------------------------------------------
(* Types.  No id points outside its table, and a request or a goroutine     *)
(* refers to rows that there are.                                           *)

TipeUnit   == [kategori : Nat, status : StatusVarian]
TipeRak    == [barang : Nat, stok : Nat, original : BOOLEAN, ada : BOOLEAN]
TipeAmbang == [barang : Nat, kategori : Int, varian : Int, ada : BOOLEAN]
TipeHitung == [ada : BOOLEAN, down : Int, ready : Int]
TipeIsi    == UNION {[K -> Int] : K \in SUBSET (1 .. MaxKategori)}
TipeTugas  == [jenis : JenisLatar, barang : Nat, isi : TipeIsi]
TipeProses == [tahap : TahapProses, barang : Nat, kategori : Nat, jumlah : Nat,
               pilih : SUBSET (1 .. MaxVarian \cup 1 .. MaxKategori), semua : BOOLEAN]

\* A request and a goroutine, over m products, n categories and o units.
Sah(r, m, n, o) ==
    /\ r.barang <= m /\ r.kategori <= n
    /\ r.tahap \in {"hapusBarang", "tambah", "asal"} => r.barang >= 1
    /\ r.tahap \in {"hapusKategori", "asal", "stok", "turun", "naik"} => r.kategori >= 1
    /\ r.tahap = "hapusBarang" => r.pilih \subseteq 1 .. n
    /\ r.tahap \in {"stok", "turun", "naik"} => r.pilih \subseteq 1 .. o
TugasSah(j, m, n) == /\ DOMAIN j.isi \subseteq 1 .. n
                     /\ j.jenis = "buat" => j.barang \in 1 .. m

BarangSah   == /\ barang \in Seq(TipeBarang)
               /\ \A b \in DOMAIN barang : barang[b].asal <= Len(kategori)
KategoriSah == /\ kategori \in Seq(TipeRak) /\ Len(kategori) <= MaxKategori
               /\ \A k \in DOMAIN kategori : kategori[k].barang \in 1 .. Len(barang)
VarianSah   == /\ varian \in Seq(TipeUnit) /\ Len(varian) <= MaxVarian
               /\ \A v \in DOMAIN varian : varian[v].kategori \in 1 .. Len(kategori)
AmbangSah   == /\ ambangBarang \in Seq(TipeAmbang)
               /\ \A n \in DOMAIN ambangBarang : ambangBarang[n].barang \in 1 .. Len(barang)
HitungSah   == ambangKategori \in [1 .. MaxKategori -> TipeHitung]
LatarSah    == /\ latar \in Seq(TipeTugas)
               /\ \A i \in DOMAIN latar : TugasSah(latar[i], Len(barang), Len(kategori))
ProsesSah   == /\ proses \in [Proses -> TipeProses]
               /\ \A p \in Proses : Sah(proses[p], Len(barang), Len(kategori), Len(varian))
PilihanSah  == /\ pilihan \in [Pembeli -> Nat]
               /\ \A q \in Pembeli : pilihan[q] <= Len(varian)

TypeInv == /\ BarangSah /\ KategoriSah /\ VarianSah /\ AmbangSah
           /\ HitungSah /\ LatarSah /\ ProsesSah /\ PilihanSah

\* What the types say of the tables' sizes and rows.
LEMMA Dasar ==
    ASSUME TypeInv
    PROVE  /\ Len(barang) \in Nat /\ DOMAIN barang = 1 .. Len(barang)
           /\ Len(kategori) \in Nat /\ DOMAIN kategori = 1 .. Len(kategori)
           /\ Len(varian) \in Nat /\ DOMAIN varian = 1 .. Len(varian)
           /\ Len(ambangBarang) \in Nat /\ DOMAIN ambangBarang = 1 .. Len(ambangBarang)
           /\ Len(latar) \in Nat /\ DOMAIN latar = 1 .. Len(latar)
           /\ \A b \in 1 .. Len(barang) : barang[b] \in TipeBarang
           /\ \A k \in 1 .. Len(kategori) : kategori[k] \in TipeRak
           /\ \A v \in 1 .. Len(varian) : varian[v] \in TipeUnit
           /\ \A n \in 1 .. Len(ambangBarang) : ambangBarang[n] \in TipeAmbang
           /\ \A i \in 1 .. Len(latar) : latar[i] \in TipeTugas
           /\ \A p \in Proses : proses[p] \in TipeProses
           /\ MaxKategori \in Nat /\ MaxVarian \in Nat
           /\ Len(kategori) <= MaxKategori /\ Len(varian) <= MaxVarian
<1>1. barang \in Seq(TipeBarang) /\ kategori \in Seq(TipeRak) /\ varian \in Seq(TipeUnit)
  BY DEF TypeInv, BarangSah, KategoriSah, VarianSah
<1>2. ambangBarang \in Seq(TipeAmbang) /\ latar \in Seq(TipeTugas)
  BY DEF TypeInv, AmbangSah, LatarSah
<1>3. /\ Len(barang) \in Nat /\ DOMAIN barang = 1 .. Len(barang)
      /\ \A b \in 1 .. Len(barang) : barang[b] \in TipeBarang
  BY <1>1, SeqDasar
<1>4. /\ Len(kategori) \in Nat /\ DOMAIN kategori = 1 .. Len(kategori)
      /\ \A k \in 1 .. Len(kategori) : kategori[k] \in TipeRak
  BY <1>1, SeqDasar
<1>5. /\ Len(varian) \in Nat /\ DOMAIN varian = 1 .. Len(varian)
      /\ \A v \in 1 .. Len(varian) : varian[v] \in TipeUnit
  BY <1>1, SeqDasar
<1>6. /\ Len(ambangBarang) \in Nat /\ DOMAIN ambangBarang = 1 .. Len(ambangBarang)
      /\ \A n \in 1 .. Len(ambangBarang) : ambangBarang[n] \in TipeAmbang
  BY <1>2, SeqDasar
<1>7. /\ Len(latar) \in Nat /\ DOMAIN latar = 1 .. Len(latar)
      /\ \A i \in 1 .. Len(latar) : latar[i] \in TipeTugas
  BY <1>2, SeqDasar
<1>8. \A p \in Proses : proses[p] \in TipeProses
  BY DEF TypeInv, ProsesSah
<1>9. /\ MaxKategori \in Nat /\ MaxVarian \in Nat
      /\ Len(kategori) <= MaxKategori /\ Len(varian) <= MaxVarian
  BY BarangSellerAssumption DEF BarangSellerAssumption, TypeInv, KategoriSah, VarianSah
<1> QED BY <1>3, <1>4, <1>5, <1>6, <1>7, <1>8, <1>9

\* No step makes a table of goods shorter.
Tumbuh ==
    /\ Len(barang') \in Nat /\ Len(barang) <= Len(barang')
    /\ Len(kategori') \in Nat /\ Len(kategori) <= Len(kategori')
    /\ Len(varian') \in Nat /\ Len(varian) <= Len(varian')

LEMMA TumbuhDiam ==
    ASSUME TypeInv, UNCHANGED <<barang, kategori, varian>>
    PROVE  Tumbuh
BY Dasar DEF Tumbuh

LEMMA SahTumbuh ==
    ASSUME TypeInv, Tumbuh, NEW r \in TipeProses, Sah(r, Len(barang), Len(kategori), Len(varian))
    PROVE  Sah(r, Len(barang'), Len(kategori'), Len(varian'))
<1>1. /\ Len(barang) \in Nat /\ Len(kategori) \in Nat /\ Len(varian) \in Nat
      /\ r.barang \in Nat /\ r.kategori \in Nat
  BY Dasar DEF TipeProses
<1>2. 1 .. Len(kategori) \subseteq 1 .. Len(kategori') /\ 1 .. Len(varian) \subseteq 1 .. Len(varian')
  BY <1>1 DEF Tumbuh
<1>3. r.barang <= Len(barang') /\ r.kategori <= Len(kategori')
  BY <1>1 DEF Tumbuh, Sah
<1> QED BY <1>2, <1>3 DEF Sah

LEMMA TugasTumbuh ==
    ASSUME TypeInv, Tumbuh, NEW j, TugasSah(j, Len(barang), Len(kategori))
    PROVE  TugasSah(j, Len(barang'), Len(kategori'))
<1>1. 1 .. Len(kategori) \subseteq 1 .. Len(kategori') /\ 1 .. Len(barang) \subseteq 1 .. Len(barang')
  BY Dasar DEF Tumbuh
<1> QED BY <1>1 DEF TugasSah

-----------------------------------------------------------------------------
(* What a step leaves alone keeps its type while the tables grow.           *)

LEMMA BarangTetap ==
    ASSUME TypeInv, Tumbuh, UNCHANGED barang
    PROVE  BarangSah'
<1>1. \A b \in DOMAIN barang : barang[b].asal \in Nat /\ barang[b].asal <= Len(kategori)
  BY Dasar DEF TypeInv, BarangSah, TipeBarang
<1>2. \A b \in DOMAIN barang : barang[b].asal <= Len(kategori')
  BY <1>1, Dasar DEF Tumbuh
<1> QED BY <1>2 DEF TypeInv, BarangSah

LEMMA KategoriTetap ==
    ASSUME TypeInv, Tumbuh, UNCHANGED kategori
    PROVE  KategoriSah'
<1>1. 1 .. Len(barang) \subseteq 1 .. Len(barang')
  BY Dasar DEF Tumbuh
<1> QED BY <1>1 DEF TypeInv, KategoriSah

LEMMA VarianTetap ==
    ASSUME TypeInv, Tumbuh, UNCHANGED varian
    PROVE  VarianSah'
<1>1. 1 .. Len(kategori) \subseteq 1 .. Len(kategori')
  BY Dasar DEF Tumbuh
<1> QED BY <1>1 DEF TypeInv, VarianSah

LEMMA AmbangTetap ==
    ASSUME TypeInv, Tumbuh, UNCHANGED ambangBarang
    PROVE  AmbangSah'
<1>1. 1 .. Len(barang) \subseteq 1 .. Len(barang')
  BY Dasar DEF Tumbuh
<1> QED BY <1>1 DEF TypeInv, AmbangSah

LEMMA HitungTetap ==
    ASSUME TypeInv, UNCHANGED ambangKategori
    PROVE  HitungSah'
BY DEF TypeInv, HitungSah

LEMMA LatarTetap ==
    ASSUME TypeInv, Tumbuh, UNCHANGED latar
    PROVE  LatarSah'
<1>1. \A i \in DOMAIN latar : TugasSah(latar[i], Len(barang'), Len(kategori'))
  BY TugasTumbuh DEF TypeInv, LatarSah
<1> QED BY <1>1 DEF TypeInv, LatarSah

LEMMA LatarTambahSah ==
    ASSUME TypeInv, Tumbuh, NEW j \in TipeTugas, latar' = Append(latar, j),
           TugasSah(j, Len(barang'), Len(kategori'))
    PROVE  LatarSah'
<1>1. \A i \in DOMAIN latar : TugasSah(latar[i], Len(barang'), Len(kategori'))
  BY TugasTumbuh DEF TypeInv, LatarSah
<1>2. /\ latar' \in Seq(TipeTugas) /\ DOMAIN latar' = 1 .. Len(latar) + 1
      /\ \A i \in 1 .. Len(latar) : latar'[i] = latar[i]
      /\ latar'[Len(latar) + 1] = j
  BY SeqTambah DEF TypeInv, LatarSah
<1>3. \A i \in DOMAIN latar' : i \in DOMAIN latar \/ i = Len(latar) + 1
  BY <1>2, Dasar
<1>4. ASSUME NEW i \in DOMAIN latar' PROVE TugasSah(latar'[i], Len(barang'), Len(kategori'))
  BY <1>1, <1>2, <1>3, Dasar
<1> QED BY <1>2, <1>4 DEF LatarSah

LEMMA LatarSisaSah ==
    ASSUME TypeInv, Tumbuh, NEW i \in DOMAIN latar, latar' = Sisa(i)
    PROVE  LatarSah'
<1>1. \A h \in DOMAIN latar : TugasSah(latar[h], Len(barang'), Len(kategori'))
  BY TugasTumbuh DEF TypeInv, LatarSah
<1>2. latar \in Seq(TipeTugas)
  BY DEF TypeInv, LatarSah
<1>3. /\ latar' \in Seq(TipeTugas)
      /\ \A j \in DOMAIN latar' : \E h \in DOMAIN latar : latar'[j] = latar[h]
  BY <1>2, SeqSisa
<1> QED BY <1>1, <1>3 DEF LatarSah

LEMMA ProsesTetap ==
    ASSUME TypeInv, Tumbuh, UNCHANGED proses
    PROVE  ProsesSah'
<1>1. \A p \in Proses : Sah(proses[p], Len(barang'), Len(kategori'), Len(varian'))
  BY SahTumbuh, Dasar DEF TypeInv, ProsesSah
<1> QED BY <1>1 DEF TypeInv, ProsesSah

LEMMA ProsesGanti ==
    ASSUME TypeInv, Tumbuh, NEW p \in Proses, NEW r \in TipeProses,
           Sah(r, Len(barang'), Len(kategori'), Len(varian')), proses' = [proses EXCEPT ![p] = r]
    PROVE  ProsesSah'
<1>1. \A q \in Proses : Sah(proses[q], Len(barang'), Len(kategori'), Len(varian'))
  BY SahTumbuh, Dasar DEF TypeInv, ProsesSah
<1>2. proses' \in [Proses -> TipeProses] /\ \A q \in Proses : proses'[q] = IF q = p THEN r ELSE proses[q]
  BY DEF TypeInv, ProsesSah
<1>3. ASSUME NEW q \in Proses PROVE Sah(proses'[q], Len(barang'), Len(kategori'), Len(varian'))
  BY <1>1, <1>2
<1> QED BY <1>2, <1>3 DEF ProsesSah

LEMMA ProsesSelesai ==
    ASSUME TypeInv, Tumbuh, NEW p \in Proses, Lepas(p)
    PROVE  ProsesSah'
<1>1. PICK r : r = ProsesBebas
  OBVIOUS
<1>2. /\ r.tahap = "bebas" /\ r.barang = 0 /\ r.kategori = 0
      /\ r \in TipeProses
  BY <1>1 DEF ProsesBebas, TipeProses, TahapProses
<1>3. Sah(r, Len(barang'), Len(kategori'), Len(varian'))
  BY <1>2 DEF Sah, Tumbuh
<1> QED BY <1>1, <1>2, <1>3, ProsesGanti DEF Lepas

LEMMA PilihanTetap ==
    ASSUME TypeInv, Tumbuh, UNCHANGED pilihan
    PROVE  PilihanSah'
<1>1. \A q \in Pembeli : pilihan[q] \in Nat /\ pilihan[q] <= Len(varian)
  BY DEF TypeInv, PilihanSah
<1>2. \A q \in Pembeli : pilihan[q] <= Len(varian')
  BY <1>1, Dasar DEF Tumbuh
<1> QED BY <1>2 DEF TypeInv, PilihanSah

\* The units of S get a status.
LEMMA StatusSah ==
    ASSUME TypeInv, NEW S, NEW s \in StatusVarian, varian' = SetStatus(S, s)
    PROVE  /\ varian' \in Seq(TipeUnit) /\ Len(varian') = Len(varian) /\ DOMAIN varian' = DOMAIN varian
           /\ \A v \in DOMAIN varian : /\ varian'[v].kategori = varian[v].kategori
                                       /\ varian'[v].status = IF v \in S /\ varian[v].status # "terhapus"
                                                              THEN s ELSE varian[v].status
           /\ Len(kategori') \in Nat /\ Len(kategori) <= Len(kategori') => VarianSah'
<1>1. \A v \in DOMAIN varian : varian[v] \in TipeUnit
  BY Dasar
<1>2. \A v \in DOMAIN varian :
         varian'[v] = IF v \in S /\ varian[v].status # "terhapus"
                      THEN [varian[v] EXCEPT !.status = s] ELSE varian[v]
  BY DEF SetStatus
<1>3. \A v \in DOMAIN varian : /\ varian'[v] \in TipeUnit
                               /\ varian'[v].kategori = varian[v].kategori
                               /\ varian'[v].status = IF v \in S /\ varian[v].status # "terhapus"
                                                      THEN s ELSE varian[v].status
  BY <1>1, <1>2 DEF TipeUnit
<1>4. varian' = [v \in DOMAIN varian |-> varian'[v]]
  BY DEF SetStatus
<1>5. varian \in Seq(TipeUnit)
  BY DEF TypeInv, VarianSah
<1> DEFINE f == varian'
<1> HIDE DEF f
<1>6. f \in Seq(TipeUnit) /\ Len(f) = Len(varian) /\ DOMAIN f = DOMAIN varian
  BY <1>3, <1>4, <1>5, SeqUbah DEF f
<1>7. ASSUME Len(kategori') \in Nat, Len(kategori) <= Len(kategori') PROVE VarianSah'
  <2>1. 1 .. Len(kategori) \subseteq 1 .. Len(kategori')
    BY <1>7, Dasar
  <2>2. \A v \in DOMAIN varian : varian'[v].kategori \in 1 .. Len(kategori')
    BY <1>3, <2>1 DEF TypeInv, VarianSah
  <2> QED BY <1>6, <2>2, Dasar DEF VarianSah, f
<1> QED BY <1>3, <1>6, <1>7 DEF f

\* New units behind the others.
LEMMA UnitTambahSah ==
    ASSUME TypeInv, NEW u \in Seq(TipeUnit), varian' = varian \o u,
           Len(varian) + Len(u) <= MaxVarian,
           Len(kategori') \in Nat, Len(kategori) <= Len(kategori'),
           \A i \in 1 .. Len(u) : u[i].kategori \in 1 .. Len(kategori')
    PROVE  /\ VarianSah' /\ Len(varian') = Len(varian) + Len(u) /\ Len(u) \in Nat
           /\ \A i \in 1 .. Len(varian) : varian'[i] = varian[i]
           /\ \A i \in 1 .. Len(u) : varian'[Len(varian) + i] = u[i]
<1>1. /\ varian' \in Seq(TipeUnit) /\ Len(varian') = Len(varian) + Len(u)
      /\ DOMAIN varian' = 1 .. Len(varian) + Len(u)
      /\ \A i \in 1 .. Len(varian) : varian'[i] = varian[i]
      /\ \A i \in 1 .. Len(u) : varian'[Len(varian) + i] = u[i]
      /\ \A i \in 1 .. Len(varian) + Len(u) :
            i \in 1 .. Len(varian) \/ \E j \in 1 .. Len(u) : i = Len(varian) + j
  BY SeqGabung DEF TypeInv, VarianSah
<1>2. 1 .. Len(kategori) \subseteq 1 .. Len(kategori')
  BY Dasar
<1>3. ASSUME NEW i \in DOMAIN varian' PROVE varian'[i].kategori \in 1 .. Len(kategori')
  <2>1. CASE i \in 1 .. Len(varian)
    BY <1>1, <1>2, <2>1, Dasar DEF TypeInv, VarianSah
  <2>2. CASE \E j \in 1 .. Len(u) : i = Len(varian) + j
    BY <1>1, <2>2
  <2> QED BY <1>1, <2>1, <2>2
<1> QED BY <1>1, <1>3 DEF VarianSah

\* A step that moves no goods and no counters.
LEMMA TypeSisa ==
    ASSUME TypeInv, UNCHANGED <<barang, kategori, varian, ambangBarang, ambangKategori>>,
           LatarSah', ProsesSah', PilihanSah'
    PROVE  TypeInv'
<1>1. Tumbuh
  BY TumbuhDiam
<1> QED BY <1>1, BarangTetap, KategoriTetap, VarianTetap, AmbangTetap, HitungTetap DEF TypeInv

-----------------------------------------------------------------------------
(* Types: the requests read.                                                *)

LEMMA BacaSah ==
    ASSUME TypeInv, NEW p \in Proses, NEW r \in TipeProses,
           Sah(r, Len(barang), Len(kategori), Len(varian)), Mulai(p, r),
           UNCHANGED <<barang, kategori, varian, ambangBarang, ambangKategori, latar, pilihan>>
    PROVE  TypeInv'
<1>1. Tumbuh
  BY TumbuhDiam
<1>2. ProsesSah'
  <2>1. Sah(r, Len(barang'), Len(kategori'), Len(varian'))
    OBVIOUS
  <2> QED BY <1>1, <2>1, ProsesGanti DEF Mulai
<1> QED BY <1>1, <1>2, LatarTetap, PilihanTetap, TypeSisa

LEMMA LimitBagian == \A S, n : \A T \in Limit(S, n) : T \subseteq S
BY DEF Limit

LEMMA VarianTipe ==
    ASSUME TypeInv
    PROVE  \A k, S : VarianBerstatus(k, S) \subseteq 1 .. Len(varian)
BY Dasar DEF VarianBerstatus

LEMMA Tahap ==
    ASSUME TypeInv
    PROVE  1 .. Len(varian) \subseteq 1 .. MaxVarian /\ 1 .. Len(kategori) \subseteq 1 .. MaxKategori
BY Dasar

LEMMA HapusBarangBaca ==
    ASSUME TypeInv, NEW p \in Proses, NEW b \in DOMAIN barang, HapusBarangInduk(p, b)
    PROVE  TypeInv'
<1>1. PICK n \in DOMAIN ambangBarang : \E K \in Limit(KategoriDari(b), ambangBarang[n].kategori) :
         Mulai(p, [ProsesBebas EXCEPT !.tahap = "hapusBarang", !.barang = b, !.pilih = K])
  BY DEF HapusBarangInduk
<1>2. PICK K \in Limit(KategoriDari(b), ambangBarang[n].kategori) :
         Mulai(p, [ProsesBebas EXCEPT !.tahap = "hapusBarang", !.barang = b, !.pilih = K])
  BY <1>1
<1>3. PICK r : r = [ProsesBebas EXCEPT !.tahap = "hapusBarang", !.barang = b, !.pilih = K]
  OBVIOUS
<1>4. K \subseteq 1 .. Len(kategori)
  BY Dasar, LimitBagian DEF KategoriDari
<1>5. r.tahap = "hapusBarang" /\ r.barang = b /\ r.kategori = 0 /\ r.pilih = K
  BY <1>3 DEF ProsesBebas
<1>6. b \in 1 .. Len(barang) /\ K \subseteq 1 .. MaxKategori /\ Len(kategori) \in Nat
  BY <1>4, Dasar, Tahap
<1>r. r = [tahap |-> "hapusBarang", barang |-> b, kategori |-> 0, jumlah |-> 0,
           pilih |-> K, semua |-> FALSE]
  BY <1>3 DEF ProsesBebas
<1>7. r \in TipeProses
  BY <1>r, <1>6 DEF TipeProses, TahapProses
<1>8. Sah(r, Len(barang), Len(kategori), Len(varian))
  BY <1>4, <1>5, <1>6, Dasar DEF Sah
<1>9. Mulai(p, r) /\ UNCHANGED <<barang, kategori, varian, ambangBarang, ambangKategori, latar, pilihan>>
  BY <1>2, <1>3 DEF HapusBarangInduk
<1> QED BY <1>7, <1>8, <1>9, BacaSah

LEMMA TambahBaca ==
    ASSUME TypeInv, NEW p \in Proses, NEW b \in DOMAIN barang, NEW s \in StokAwal,
           TambahKategoriBarang(p, b, s)
    PROVE  TypeInv'
<1>3. PICK r : r = [ProsesBebas EXCEPT !.tahap = "tambah", !.barang = b, !.jumlah = s]
  OBVIOUS
<1>5. r.tahap = "tambah" /\ r.barang = b /\ r.kategori = 0
  BY <1>3 DEF ProsesBebas
<1>6. b \in 1 .. Len(barang) /\ s \in Nat /\ Len(kategori) \in Nat
  BY Dasar, BarangSellerAssumption DEF BarangSellerAssumption
<1>r. r = [tahap |-> "tambah", barang |-> b, kategori |-> 0, jumlah |-> s,
           pilih |-> {}, semua |-> FALSE]
  BY <1>3 DEF ProsesBebas
<1>7. r \in TipeProses
  BY <1>r, <1>6 DEF TipeProses, TahapProses
<1>8. Sah(r, Len(barang), Len(kategori), Len(varian))
  BY <1>5, <1>6, Dasar DEF Sah
<1>9. Mulai(p, r) /\ UNCHANGED <<barang, kategori, varian, ambangBarang, ambangKategori, latar, pilihan>>
  BY <1>3 DEF TambahKategoriBarang
<1> QED BY <1>7, <1>8, <1>9, BacaSah

LEMMA AsalBaca ==
    ASSUME TypeInv, NEW p \in Proses, NEW b \in DOMAIN barang, NEW k \in DOMAIN kategori,
           SetAsOriginKategoriBarang(p, b, k)
    PROVE  TypeInv'
<1>3. PICK r : r = [ProsesBebas EXCEPT !.tahap = "asal", !.barang = b, !.kategori = k]
  OBVIOUS
<1>5. r.tahap = "asal" /\ r.barang = b /\ r.kategori = k
  BY <1>3 DEF ProsesBebas
<1>6. b \in 1 .. Len(barang) /\ k \in 1 .. Len(kategori)
  BY Dasar
<1>r. r = [tahap |-> "asal", barang |-> b, kategori |-> k, jumlah |-> 0,
           pilih |-> {}, semua |-> FALSE]
  BY <1>3 DEF ProsesBebas
<1>7. r \in TipeProses
  BY <1>r, <1>6 DEF TipeProses, TahapProses
<1>8. Sah(r, Len(barang), Len(kategori), Len(varian))
  BY <1>5, <1>6, Dasar DEF Sah
<1>9. Mulai(p, r) /\ UNCHANGED <<barang, kategori, varian, ambangBarang, ambangKategori, latar, pilihan>>
  BY <1>3 DEF SetAsOriginKategoriBarang
<1> QED BY <1>7, <1>8, <1>9, BacaSah

LEMMA HapusKategoriBaca ==
    ASSUME TypeInv, NEW p \in Proses, NEW k \in DOMAIN kategori, HapusKategoriBarang(p, k)
    PROVE  TypeInv'
<1>3. PICK r : r = [ProsesBebas EXCEPT !.tahap = "hapusKategori", !.barang = kategori[k].barang,
                                       !.kategori = k, !.jumlah = kategori[k].stok]
  OBVIOUS
<1>5. r.tahap = "hapusKategori" /\ r.barang = kategori[k].barang /\ r.kategori = k
  BY <1>3 DEF ProsesBebas
<1>6. k \in 1 .. Len(kategori) /\ kategori[k].stok \in Nat /\ kategori[k].barang \in 1 .. Len(barang)
  BY Dasar DEF TypeInv, KategoriSah, TipeRak
<1>r. r = [tahap |-> "hapusKategori", barang |-> kategori[k].barang, kategori |-> k, jumlah |-> kategori[k].stok,
           pilih |-> {}, semua |-> FALSE]
  BY <1>3 DEF ProsesBebas
<1>7. r \in TipeProses
  BY <1>r, <1>6 DEF TipeProses, TahapProses
<1>8. Sah(r, Len(barang), Len(kategori), Len(varian))
  BY <1>5, <1>6, Dasar DEF Sah
<1>9. Mulai(p, r) /\ UNCHANGED <<barang, kategori, varian, ambangBarang, ambangKategori, latar, pilihan>>
  BY <1>3 DEF HapusKategoriBarang
<1> QED BY <1>7, <1>8, <1>9, BacaSah

LEMMA StokBaca ==
    ASSUME TypeInv, NEW p \in Proses, NEW k \in DOMAIN kategori, NEW n \in StokMasukan,
           EditStokKategoriBarang(p, k, n)
    PROVE  TypeInv'
<1> DEFINE batas == IF kategori[k].stok = 0 THEN 1 ELSE kategori[k].stok
<1>1. PICK D \in Limit(VarianBerstatus(k, {"Down"}), batas) :
         Mulai(p, [ProsesBebas EXCEPT !.tahap = "stok", !.barang = kategori[k].barang,
                                      !.kategori = k, !.jumlah = n, !.pilih = D])
  BY DEF EditStokKategoriBarang
<1>3. PICK r : r = [ProsesBebas EXCEPT !.tahap = "stok", !.barang = kategori[k].barang,
                                       !.kategori = k, !.jumlah = n, !.pilih = D]
  OBVIOUS
<1>4. D \subseteq 1 .. Len(varian)
  BY VarianTipe, LimitBagian
<1>5. r.tahap = "stok" /\ r.barang = kategori[k].barang /\ r.kategori = k /\ r.pilih = D
  BY <1>3 DEF ProsesBebas
<1>6. k \in 1 .. Len(kategori) /\ n \in Nat /\ kategori[k].barang \in 1 .. Len(barang)
  BY Dasar, BarangSellerAssumption DEF BarangSellerAssumption, TypeInv, KategoriSah
<1>a. D \subseteq 1 .. MaxVarian
  BY <1>4, Tahap
<1>r. r = [tahap |-> "stok", barang |-> kategori[k].barang, kategori |-> k, jumlah |-> n,
           pilih |-> D, semua |-> FALSE]
  BY <1>3 DEF ProsesBebas
<1>7. r \in TipeProses
  BY <1>r, <1>6, <1>a DEF TipeProses, TahapProses
<1>8. Sah(r, Len(barang), Len(kategori), Len(varian))
  BY <1>4, <1>5, <1>6, Dasar DEF Sah
<1>9. Mulai(p, r) /\ UNCHANGED <<barang, kategori, varian, ambangBarang, ambangKategori, latar, pilihan>>
  BY <1>1, <1>3 DEF EditStokKategoriBarang
<1> QED BY <1>7, <1>8, <1>9, BacaSah

LEMMA TurunBaca ==
    ASSUME TypeInv, NEW p \in Proses, NEW k \in DOMAIN kategori, NEW j, DownKategoriBarang(p, k, j)
    PROVE  TypeInv'
<1>1. PICK S \in Limit(VarianBerstatus(k, {"Ready"}), Banyak(j, ambangKategori[k].ready)) :
         Mulai(p, [ProsesBebas EXCEPT !.tahap = "turun", !.kategori = k, !.pilih = S, !.semua = (j = 0)])
  BY DEF DownKategoriBarang
<1>3. PICK r : r = [ProsesBebas EXCEPT !.tahap = "turun", !.kategori = k, !.pilih = S, !.semua = (j = 0)]
  OBVIOUS
<1>4. S \subseteq 1 .. Len(varian)
  BY VarianTipe, LimitBagian
<1>5. r.tahap = "turun" /\ r.barang = 0 /\ r.kategori = k /\ r.pilih = S
  BY <1>3 DEF ProsesBebas
<1>6. k \in 1 .. Len(kategori) /\ S \subseteq 1 .. MaxVarian
  BY <1>4, Dasar, Tahap
<1>r. r = [tahap |-> "turun", barang |-> 0, kategori |-> k, jumlah |-> 0,
           pilih |-> S, semua |-> (j = 0)]
  BY <1>3 DEF ProsesBebas
<1>7. r \in TipeProses
  BY <1>r, <1>6 DEF TipeProses, TahapProses
<1>8. Sah(r, Len(barang), Len(kategori), Len(varian))
  BY <1>4, <1>5, <1>6, Dasar DEF Sah
<1>9. Mulai(p, r) /\ UNCHANGED <<barang, kategori, varian, ambangBarang, ambangKategori, latar, pilihan>>
  BY <1>1, <1>3 DEF DownKategoriBarang
<1> QED BY <1>7, <1>8, <1>9, BacaSah

LEMMA NaikBaca ==
    ASSUME TypeInv, NEW p \in Proses, NEW k \in DOMAIN kategori, NEW j, UpKategoriBarang(p, k, j)
    PROVE  TypeInv'
<1>1. PICK S \in Limit(VarianBerstatus(k, {"Down"}), Banyak(j, ambangKategori[k].down)) :
         Mulai(p, [ProsesBebas EXCEPT !.tahap = "naik", !.kategori = k, !.pilih = S])
  BY DEF UpKategoriBarang
<1>3. PICK r : r = [ProsesBebas EXCEPT !.tahap = "naik", !.kategori = k, !.pilih = S]
  OBVIOUS
<1>4. S \subseteq 1 .. Len(varian)
  BY VarianTipe, LimitBagian
<1>5. r.tahap = "naik" /\ r.barang = 0 /\ r.kategori = k /\ r.pilih = S
  BY <1>3 DEF ProsesBebas
<1>6. k \in 1 .. Len(kategori) /\ S \subseteq 1 .. MaxVarian
  BY <1>4, Dasar, Tahap
<1>r. r = [tahap |-> "naik", barang |-> 0, kategori |-> k, jumlah |-> 0,
           pilih |-> S, semua |-> FALSE]
  BY <1>3 DEF ProsesBebas
<1>7. r \in TipeProses
  BY <1>r, <1>6 DEF TipeProses, TahapProses
<1>8. Sah(r, Len(barang), Len(kategori), Len(varian))
  BY <1>4, <1>5, <1>6, Dasar DEF Sah
<1>9. Mulai(p, r) /\ UNCHANGED <<barang, kategori, varian, ambangBarang, ambangKategori, latar, pilihan>>
  BY <1>1, <1>3 DEF UpKategoriBarang
<1> QED BY <1>7, <1>8, <1>9, BacaSah

-----------------------------------------------------------------------------
(* The units a new product comes with.                                      *)

LEMMA UnitBaruSah ==
    ASSUME NEW k \in Nat, NEW n \in Nat
    PROVE  /\ UnitBaru(k, n) \in Seq(TipeUnit) /\ Len(UnitBaru(k, n)) = n
           /\ \A i \in 1 .. n : UnitBaru(k, n)[i].kategori = k /\ UnitBaru(k, n)[i].status = "Down"
<1> DEFINE e == [kategori |-> k, status |-> "Down"]
           u == [i \in 1 .. n |-> e]
<1>1. e \in TipeUnit /\ e.kategori = k /\ e.status = "Down"
  BY DEF TipeUnit, StatusVarian
<1> HIDE DEF e
<1>2. u \in Seq(TipeUnit) /\ Len(u) = n /\ \A i \in 1 .. n : u[i] = e
  BY <1>1
<1>3. UnitBaru(k, n) = u
  BY DEF UnitBaru, e
<1> HIDE DEF u
<1> QED BY <1>1, <1>2, <1>3

Rangkai(isi, k0, f) ==
    f = [i \in 0 .. Len(isi) |-> IF i = 0 THEN << >> ELSE f[i - 1] \o UnitBaru(k0 + i, isi[i])]

LEMMA UnitRumus == \A isi, k0 : UnitKategori(isi, k0) = (CHOOSE f : Rangkai(isi, k0, f))[Len(isi)]
BY Zenon DEF UnitKategori, Rangkai

\* The first category gets isi[1] units, the second, if there is one, the isi[2] units behind.
LEMMA UnitUrai ==
    ASSUME NEW isi, NEW k0, NEW n \in 1 .. 2, Len(isi) = n
    PROVE  UnitKategori(isi, k0) =
              IF n = 1 THEN << >> \o UnitBaru(k0 + 1, isi[1])
              ELSE (<< >> \o UnitBaru(k0 + 1, isi[1])) \o UnitBaru(k0 + 2, isi[2])
<1> DEFINE a == << >> \o UnitBaru(k0 + 1, isi[1])
           b == a \o UnitBaru(k0 + 2, isi[2])
           w == [i \in 0 .. n |-> IF i = 0 THEN << >> ELSE IF i = 1 THEN a ELSE b]
           g == [i \in 0 .. n |-> IF i = 0 THEN << >> ELSE w[i - 1] \o UnitBaru(k0 + i, isi[i])]
<1>1. \A i \in 0 .. n : w[i] = g[i]
  <2> TAKE i \in 0 .. n
  <2>1. CASE i = 0
    BY <2>1
  <2> HIDE DEF a, b
  <2>2. CASE i = 1
    <3>0. i - 1 = 0 /\ 0 \in 0 .. n /\ k0 + i = k0 + 1
      BY <2>2
    <3>1. w[i] = a /\ w[0] = << >>
      BY <2>2, <3>0
    <3>2. g[i] = w[i - 1] \o UnitBaru(k0 + i, isi[i])
      BY <2>2
    <3>3. g[i] = << >> \o UnitBaru(k0 + 1, isi[1])
      <4> HIDE DEF w, g
      <4> QED BY <2>2, <3>0, <3>1, <3>2, Zenon
    <3> QED BY <3>1, <3>3 DEF a
  <2>3. CASE i = 2
    <3>0. i - 1 = 1 /\ 1 \in 0 .. n /\ k0 + i = k0 + 2
      BY <2>3
    <3>1. w[i] = b /\ w[1] = a
      BY <2>3, <3>0
    <3>2. g[i] = w[i - 1] \o UnitBaru(k0 + i, isi[i])
      BY <2>3
    <3>3. g[i] = a \o UnitBaru(k0 + 2, isi[2])
      <4> HIDE DEF w, g
      <4> QED BY <2>3, <3>0, <3>1, <3>2, Zenon
    <3> QED BY <3>1, <3>3 DEF b
  <2> QED BY <2>1, <2>2, <2>3
<1>2. w = g
  <2>1. DOMAIN w = 0 .. n /\ DOMAIN g = 0 .. n /\ w = [i \in 0 .. n |-> w[i]] /\ g = [i \in 0 .. n |-> g[i]]
    OBVIOUS
  <2> HIDE DEF w, g
  <2> QED BY <1>1, <2>1
<1>3. Rangkai(isi, k0, w)
  BY <1>2 DEF Rangkai
<1> HIDE DEF w, g
<1>4. PICK f : f = CHOOSE h : Rangkai(isi, k0, h)
  OBVIOUS
<1>5. Rangkai(isi, k0, f)
  BY <1>3, <1>4, Zenon
<1>6. f = [i \in 0 .. n |-> IF i = 0 THEN << >> ELSE f[i - 1] \o UnitBaru(k0 + i, isi[i])]
  BY <1>5 DEF Rangkai
<1>e. \A i \in 0 .. n : f[i] = IF i = 0 THEN << >> ELSE f[i - 1] \o UnitBaru(k0 + i, isi[i])
  BY <1>6
<1>7. f[0] = << >>
  BY <1>e
<1>8. f[1] = f[0] \o UnitBaru(k0 + 1, isi[1])
  <2>1. 1 \in 0 .. n /\ 1 # 0 /\ 1 - 1 = 0
    OBVIOUS
  <2>2. f[1] = f[1 - 1] \o UnitBaru(k0 + 1, isi[1])
    BY <1>e, <2>1, Zenon
  <2> QED BY <2>1, <2>2, Zenon
<1>9. n = 2 => f[2] = f[1] \o UnitBaru(k0 + 2, isi[2])
  <2> SUFFICES ASSUME n = 2 PROVE f[2] = f[1] \o UnitBaru(k0 + 2, isi[2])
    OBVIOUS
  <2>1. 2 \in 0 .. n /\ 2 # 0 /\ 2 - 1 = 1
    OBVIOUS
  <2>2. f[2] = f[2 - 1] \o UnitBaru(k0 + 2, isi[2])
    BY <1>e, <2>1, Zenon
  <2> QED BY <2>1, <2>2, Zenon
<1>10. UnitKategori(isi, k0) = f[n]
  BY <1>4, UnitRumus
<1>11. n = 1 \/ n = 2
  OBVIOUS
<1> QED BY <1>7, <1>8, <1>9, <1>10, <1>11, Zenon DEF a, b

\* Each unit is Down; the first isi[1] belong to the first new category, the others to the second.
Diisi(u, isi, k0) ==
    /\ u \in Seq(TipeUnit) /\ Len(u) \in Nat
    /\ \A i \in 1 .. Len(u) : u[i].status = "Down" /\ u[i].kategori \in k0 + 1 .. k0 + Len(isi)
    /\ \A i \in 1 .. Len(u) : u[i].kategori = IF i <= isi[1] THEN k0 + 1 ELSE k0 + 2
    /\ Len(u) = IF Len(isi) = 1 THEN isi[1] ELSE isi[1] + isi[2]

LEMMA IsiDasar ==
    ASSUME NEW isi \in Isi
    PROVE  /\ Len(isi) \in 1 .. 2 /\ isi \in Seq(StokAwal) /\ DOMAIN isi = 1 .. Len(isi)
           /\ \A i \in 1 .. Len(isi) : isi[i] \in Nat /\ isi[i] \in StokAwal
<1>1. PICK n \in 1 .. 2 : isi \in [1 .. n -> StokAwal]
  BY DEF Isi
<1>2. isi \in Seq(StokAwal) /\ Len(isi) = n /\ DOMAIN isi = 1 .. n
  BY <1>1
<1> QED BY <1>1, <1>2, BarangSellerAssumption DEF BarangSellerAssumption

LEMMA UnitDiisi ==
    ASSUME NEW isi \in Isi, NEW k0 \in Nat
    PROVE  Diisi(UnitKategori(isi, k0), isi, k0)
<1> DEFINE n == Len(isi)
           a == UnitBaru(k0 + 1, isi[1])
           e == << >> \o a
<1>1. n \in 1 .. 2 /\ isi[1] \in Nat /\ (n = 2 => isi[2] \in Nat)
  BY IsiDasar
<1>a. /\ a \in Seq(TipeUnit) /\ Len(a) = isi[1]
      /\ \A i \in 1 .. isi[1] : a[i].kategori = k0 + 1 /\ a[i].status = "Down"
  <2>1. k0 + 1 \in Nat
    OBVIOUS
  <2> QED BY <1>1, <2>1, UnitBaruSah
<1>e. e = a
  <2>1. << >> \in Seq(TipeUnit)
    OBVIOUS
  <2> HIDE DEF a
  <2> QED BY <1>a, ConcatEmptySeq
<1> HIDE DEF a, e
<1>2. CASE n = 1
  <2>1. UnitKategori(isi, k0) = a
    BY <1>2, <1>1, <1>e, UnitUrai DEF a, e
  <2>2. \A i \in 1 .. isi[1] : i <= isi[1]
    BY <1>1
  <2>5. k0 + 1 \in k0 + 1 .. k0 + 1
    OBVIOUS
  <2> QED BY <1>a, <1>1, <1>2, <2>1, <2>2, <2>5 DEF Diisi
<1>3. CASE n = 2
  <2> DEFINE c == UnitBaru(k0 + 2, isi[2])
  <2>c. /\ c \in Seq(TipeUnit) /\ Len(c) = isi[2]
        /\ \A i \in 1 .. isi[2] : c[i].kategori = k0 + 2 /\ c[i].status = "Down"
    <3>1. k0 + 2 \in Nat /\ isi[2] \in Nat
      BY <1>1, <1>3
    <3> QED BY <3>1, UnitBaruSah
  <2>u. UnitKategori(isi, k0) = a \o c
    <3>1. UnitKategori(isi, k0) = IF n = 1 THEN e ELSE e \o c
      BY <1>1, UnitUrai DEF a, e
    <3> QED BY <1>3, <1>e, <3>1
  <2> HIDE DEF c
  <2> DEFINE u == a \o c
             x == isi[1]
             y == isi[2]
  <2>1. /\ u \in Seq(TipeUnit) /\ Len(u) = x + y
        /\ \A i \in 1 .. x : u[i] = a[i]
        /\ \A i \in 1 .. y : u[x + i] = c[i]
        /\ \A i \in 1 .. x + y : i \in 1 .. x \/ \E j \in 1 .. y : i = x + j
    <3>1. /\ u \in Seq(TipeUnit) /\ Len(u) = Len(a) + Len(c)
          /\ \A i \in 1 .. Len(a) : u[i] = a[i]
          /\ \A i \in 1 .. Len(c) : u[Len(a) + i] = c[i]
          /\ \A i \in 1 .. Len(a) + Len(c) :
                i \in 1 .. Len(a) \/ \E j \in 1 .. Len(c) : i = Len(a) + j
      <4>1. a \in Seq(TipeUnit) /\ c \in Seq(TipeUnit)
        BY <1>a, <2>c
      <4>2. PICK v : v = a \o c
        OBVIOUS
      <4>3. /\ v \in Seq(TipeUnit) /\ Len(v) = Len(a) + Len(c)
            /\ \A i \in 1 .. Len(a) : v[i] = a[i]
            /\ \A i \in 1 .. Len(c) : v[Len(a) + i] = c[i]
            /\ \A i \in 1 .. Len(a) + Len(c) :
                  i \in 1 .. Len(a) \/ \E j \in 1 .. Len(c) : i = Len(a) + j
        BY <4>1, <4>2, SeqGabung
      <4> QED BY <4>2, <4>3, Zenon DEF u
    <3>2. Len(a) = x /\ Len(c) = y
      BY <1>a, <2>c
    <3> HIDE DEF u, x, y
    <3> QED BY <3>1, <3>2
  <2>2. x \in Nat /\ y \in Nat
    BY <1>1, <1>3
  <2> HIDE DEF u
  <2>3. \A i \in 1 .. x : u[i].kategori = k0 + 1 /\ u[i].status = "Down"
    BY <1>a, <2>1
  <2>4. \A i \in 1 .. y : u[x + i].kategori = k0 + 2 /\ u[x + i].status = "Down"
    BY <2>c, <2>1
  <2> HIDE DEF x, y
  <2>5. \A i \in x + 1 .. x + y : u[i].kategori = k0 + 2 /\ u[i].status = "Down"
    <3> TAKE i \in x + 1 .. x + y
    <3>1. i - x \in 1 .. y /\ i = x + (i - x)
      BY <2>2
    <3> QED BY <2>4, <3>1
  <2>6. \A i \in 1 .. x + y : i \in 1 .. x \/ i \in x + 1 .. x + y
    BY <2>2
  <2>7. \A i \in 1 .. x : i <= x
    BY <2>2
  <2>8. \A i \in x + 1 .. x + y : ~(i <= x)
    BY <2>2
  <2>11. k0 + 1 \in k0 + 1 .. k0 + 2 /\ k0 + 2 \in k0 + 1 .. k0 + 2
    OBVIOUS
  <2>12. \A i \in 1 .. x + y : u[i].status = "Down" /\ u[i].kategori \in k0 + 1 .. k0 + 2
    BY <2>3, <2>5, <2>6, <2>11
  <2>13. \A i \in 1 .. x + y : u[i].kategori = IF i <= x THEN k0 + 1 ELSE k0 + 2
    BY <2>3, <2>5, <2>6, <2>7, <2>8
  <2>14. UnitKategori(isi, k0) = u
    BY <2>u DEF u
  <2>15. x + y \in Nat /\ x + y = isi[1] + isi[2]
    BY <2>2 DEF x, y
  <2>16. Len(u) = IF Len(isi) = 1 THEN isi[1] ELSE isi[1] + isi[2]
    BY <1>3, <2>1, <2>15
  <2>17. \A i \in 1 .. Len(u) : u[i].status = "Down" /\ u[i].kategori \in k0 + 1 .. k0 + Len(isi)
    BY <1>3, <2>1, <2>12
  <2>18. \A i \in 1 .. Len(u) : u[i].kategori = IF i <= isi[1] THEN k0 + 1 ELSE k0 + 2
    BY <2>1, <2>13 DEF x
  <2>19. u \in Seq(TipeUnit) /\ Len(u) \in Nat
    BY <2>1, <2>15
  <2> QED BY <2>14, <2>16, <2>17, <2>18, <2>19 DEF Diisi
<1> QED BY <1>1, <1>2, <1>3

-----------------------------------------------------------------------------
(* Types: the requests write, and leave a goroutine.                        *)

LEMMA JalankanSah ==
    ASSUME TypeInv, Tumbuh, KategoriSah', NEW jenis \in JenisLatar, NEW b \in Nat, NEW isi \in TipeIsi,
           DOMAIN isi \subseteq 1 .. Len(kategori'),
           jenis = "buat" => b \in 1 .. Len(barang'), Jalankan(jenis, b, isi)
    PROVE  LatarSah'
<1>1. PICK j : j = [jenis |-> jenis, barang |-> b, isi |-> isi]
  OBVIOUS
<1>2. j \in TipeTugas /\ j.jenis = jenis /\ j.barang = b /\ j.isi = isi
  BY <1>1 DEF TipeTugas
<1>3. TugasSah(j, Len(barang'), Len(kategori'))
  BY <1>2 DEF TugasSah
<1>4. latar' = Append(latar, j)
  BY <1>1 DEF Jalankan
<1> QED BY <1>2, <1>3, <1>4, LatarTambahSah

\* A goroutine is given the categories of K.
LEMMA IsiTipe ==
    ASSUME NEW K, KategoriSah', MaxKategori \in Nat, Len(kategori') \in Nat, K \subseteq 1 .. Len(kategori'),
           NEW isi, isi = [k \in K |-> isi[k]], \A k \in K : isi[k] \in Int
    PROVE  isi \in TipeIsi /\ DOMAIN isi = K
<1>1. Len(kategori') <= MaxKategori
  BY DEF KategoriSah
<1>2. K \in SUBSET (1 .. MaxKategori)
  BY <1>1
<1>3. isi \in [K -> Int]
  OBVIOUS
<1> QED BY <1>2, <1>3 DEF TipeIsi

LEMMA TulisSah ==
    ASSUME TypeInv, Tumbuh, BarangSah', KategoriSah', VarianSah', LatarSah', ProsesSah',
           UNCHANGED <<ambangBarang, ambangKategori, pilihan>>
    PROVE  TypeInv'
BY AmbangTetap, HitungTetap, PilihanTetap DEF TypeInv

\* The categories change, but not their number nor the products they belong to.
LEMMA KategoriUbahSah ==
    ASSUME TypeInv, Tumbuh, kategori' = [k \in DOMAIN kategori |-> kategori'[k]],
           \A k \in DOMAIN kategori : /\ kategori'[k] \in TipeRak
                                      /\ kategori'[k].barang = kategori[k].barang
    PROVE  KategoriSah' /\ Len(kategori') = Len(kategori) /\ DOMAIN kategori' = DOMAIN kategori
<1> DEFINE f == kategori'
<1>1. kategori \in Seq(TipeRak) /\ Len(kategori) <= MaxKategori
  BY DEF TypeInv, KategoriSah
<1>2. f = [k \in DOMAIN kategori |-> f[k]] /\ \A k \in DOMAIN kategori : f[k] \in TipeRak
  OBVIOUS
<1> HIDE DEF f
<1>3. f \in Seq(TipeRak) /\ Len(f) = Len(kategori) /\ DOMAIN f = DOMAIN kategori
  BY <1>1, <1>2, SeqUbah
<1>4. 1 .. Len(barang) \subseteq 1 .. Len(barang')
  BY Dasar DEF Tumbuh
<1>5. \A k \in DOMAIN kategori : f[k].barang \in 1 .. Len(barang')
  BY <1>4 DEF f, TypeInv, KategoriSah
<1> QED BY <1>1, <1>3, <1>5 DEF f, KategoriSah

LEMMA BarangUbahSah ==
    ASSUME TypeInv, Tumbuh, barang' = [b \in DOMAIN barang |-> barang'[b]],
           \A b \in DOMAIN barang : barang'[b] \in TipeBarang /\ barang'[b].asal <= Len(kategori')
    PROVE  BarangSah' /\ Len(barang') = Len(barang) /\ DOMAIN barang' = DOMAIN barang
<1> DEFINE f == barang'
<1>1. barang \in Seq(TipeBarang)
  BY DEF TypeInv, BarangSah
<1>2. f = [b \in DOMAIN barang |-> f[b]] /\ \A b \in DOMAIN barang : f[b] \in TipeBarang
  OBVIOUS
<1> HIDE DEF f
<1>3. f \in Seq(TipeBarang) /\ Len(f) = Len(barang) /\ DOMAIN f = DOMAIN barang
  BY <1>1, <1>2, SeqUbah
<1> QED BY <1>1, <1>3 DEF f, BarangSah

LEMMA SamaPanjang ==
    ASSUME NEW T, NEW s \in Seq(T), NEW f, f = [i \in DOMAIN s |-> f[i]]
    PROVE  Len(f) = Len(s)
<1>1. DOMAIN f = 1 .. Len(s) /\ Len(s) \in Nat
  OBVIOUS
<1> QED BY <1>1

\* Where the write keeps the ids of all three tables.
LEMMA TumbuhUbah ==
    ASSUME TypeInv,
           UNCHANGED barang \/ barang' = [b \in DOMAIN barang |-> barang'[b]],
           UNCHANGED kategori \/ kategori' = [k \in DOMAIN kategori |-> kategori'[k]],
           UNCHANGED varian \/ varian' = [v \in DOMAIN varian |-> varian'[v]]
    PROVE  Tumbuh /\ Len(barang') = Len(barang) /\ Len(kategori') = Len(kategori)
<1>1. barang \in Seq(TipeBarang) /\ kategori \in Seq(TipeRak) /\ varian \in Seq(TipeUnit)
  BY DEF TypeInv, BarangSah, KategoriSah, VarianSah
<1>2. PICK f, g, h : f = barang' /\ g = kategori' /\ h = varian'
  OBVIOUS
<1>3. f = barang \/ f = [b \in DOMAIN barang |-> f[b]]
  BY <1>2
<1>4. g = kategori \/ g = [k \in DOMAIN kategori |-> g[k]]
  BY <1>2
<1>5. h = varian \/ h = [v \in DOMAIN varian |-> h[v]]
  BY <1>2
<1>6. Len(f) = Len(barang)
  BY <1>1, <1>3, SamaPanjang
<1>7. Len(g) = Len(kategori)
  BY <1>1, <1>4, SamaPanjang
<1>8. Len(h) = Len(varian)
  BY <1>1, <1>5, SamaPanjang
<1>9. Len(barang) \in Nat /\ Len(kategori) \in Nat /\ Len(varian) \in Nat
  BY Dasar
<1> QED BY <1>2, <1>6, <1>7, <1>8, <1>9 DEF Tumbuh

LEMMA StatusTumbuh ==
    \A S, s : varian' = SetStatus(S, s) => varian' = [v \in DOMAIN varian |-> varian'[v]]
BY DEF SetStatus

LEMMA HapusBarangTulisSah ==
    ASSUME TypeInv, NEW p \in Proses, HapusBarangTulis(p)
    PROVE  TypeInv'
<1>1. PICK r : r = proses[p]
  OBVIOUS
<1>2. /\ r.tahap = "hapusBarang"
      /\ barang' = [barang EXCEPT ![r.barang].ada = FALSE]
      /\ kategori' = [k \in DOMAIN kategori |->
                        IF kategori[k].barang = r.barang
                        THEN [kategori[k] EXCEPT !.ada = FALSE] ELSE kategori[k]]
      /\ varian' = SetStatus(VarianBarangInduk(r.barang), "terhapus")
      /\ Jalankan("hapusBarang", r.barang, [k \in r.pilih |-> 0])
      /\ Lepas(p) /\ UNCHANGED <<ambangBarang, ambangKategori, pilihan>>
  BY <1>1 DEF HapusBarangTulis
<1>3. r \in TipeProses /\ Sah(r, Len(barang), Len(kategori), Len(varian))
  BY <1>1, Dasar DEF TypeInv, ProsesSah
<1>4. \A k \in DOMAIN kategori : kategori'[k] = IF kategori[k].barang = r.barang
                                                THEN [kategori[k] EXCEPT !.ada = FALSE] ELSE kategori[k]
  BY <1>2
<1>5. \A k \in DOMAIN kategori : kategori'[k] \in TipeRak /\ kategori'[k].barang = kategori[k].barang
  BY <1>4, Dasar DEF TipeRak
<1>6. kategori' = [k \in DOMAIN kategori |-> kategori'[k]]
  BY <1>2
<1>7. barang' = [b \in DOMAIN barang |-> barang'[b]]
  BY <1>2
<1>8. \A b \in DOMAIN barang : barang'[b] \in TipeBarang /\ barang'[b].asal = barang[b].asal
  BY <1>2, Dasar DEF TipeBarang
<1>9. Tumbuh /\ Len(kategori') = Len(kategori)
  BY <1>2, <1>6, <1>7, StatusTumbuh, TumbuhUbah
<1>10. KategoriSah'
  BY <1>5, <1>6, <1>9, KategoriUbahSah
<1>11. BarangSah'
  <2>1. \A b \in DOMAIN barang : barang'[b].asal <= Len(kategori')
    BY <1>8, <1>9 DEF TypeInv, BarangSah
  <2> QED BY <1>7, <1>8, <1>9, <2>1, BarangUbahSah
<1>12. VarianSah'
  <2>1. "terhapus" \in StatusVarian
    BY DEF StatusVarian
  <2> QED BY <1>2, <1>9, <2>1, StatusSah DEF Tumbuh
<1>13. LatarSah'
  <2>1. PICK isi : isi = [k \in r.pilih |-> 0]
    OBVIOUS
  <2>2. r.pilih \subseteq 1 .. Len(kategori') /\ r.barang \in Nat
    BY <1>2, <1>3, <1>9 DEF Sah, TipeProses
  <2>3. isi \in TipeIsi /\ DOMAIN isi = r.pilih
    <3>1. isi = [k \in r.pilih |-> isi[k]] /\ \A k \in r.pilih : isi[k] \in Int
      BY <2>1
    <3>2. MaxKategori \in Nat /\ Len(kategori') \in Nat
      BY <1>9, Dasar
    <3> QED BY <1>10, <2>2, <3>1, <3>2, IsiTipe
  <2>4. "hapusBarang" \in JenisLatar /\ "hapusBarang" # "buat"
    BY DEF JenisLatar
  <2> QED BY <1>2, <1>9, <1>10, <2>1, <2>2, <2>3, <2>4, JalankanSah
<1>14. ProsesSah'
  BY <1>2, <1>9, ProsesSelesai
<1> QED BY <1>2, <1>9, <1>10, <1>11, <1>12, <1>13, <1>14, TulisSah

LEMMA TambahTulisSah ==
    ASSUME TypeInv, NEW p \in Proses, TambahTulis(p)
    PROVE  TypeInv'
<1>1. PICK r : r = proses[p]
  OBVIOUS
<1>k. PICK k : k = Len(kategori) + 1
  OBVIOUS
<1>b. PICK baris : baris = [barang |-> r.barang, stok |-> r.jumlah, original |-> FALSE, ada |-> TRUE]
  OBVIOUS
<1>2. /\ r.tahap = "tambah" /\ k <= MaxKategori /\ Len(varian) + r.jumlah <= MaxVarian
      /\ kategori' = Append(kategori, baris)
      /\ varian' = varian \o UnitBaru(k, r.jumlah)
      /\ Jalankan("tambah", r.barang, [j \in {k} |-> r.jumlah])
      /\ Lepas(p) /\ UNCHANGED <<barang, ambangBarang, ambangKategori, pilihan>>
  BY <1>1, <1>k, <1>b DEF TambahTulis
<1>3. r \in TipeProses /\ Sah(r, Len(barang), Len(kategori), Len(varian))
  BY <1>1, Dasar DEF TypeInv, ProsesSah
<1>4. r.jumlah \in Nat /\ r.barang \in 1 .. Len(barang) /\ r.barang \in Nat /\ k \in Nat
  BY <1>2, <1>3, <1>k, Dasar DEF Sah, TipeProses
<1>5. baris \in TipeRak /\ baris.barang = r.barang
  BY <1>4, <1>b DEF TipeRak
<1>6. /\ kategori' \in Seq(TipeRak) /\ Len(kategori') = k /\ DOMAIN kategori' = 1 .. k
      /\ \A i \in 1 .. Len(kategori) : kategori'[i] = kategori[i]
      /\ kategori'[k] = baris
  BY <1>2, <1>5, <1>k, SeqTambah DEF TypeInv, KategoriSah
<1>7. \A i \in 1 .. k : i \in 1 .. Len(kategori) \/ i = k
  BY <1>k, Dasar
<1>8. KategoriSah'
  <2>1. ASSUME NEW i \in DOMAIN kategori' PROVE kategori'[i].barang \in 1 .. Len(barang')
    BY <1>2, <1>4, <1>5, <1>6, <1>7, Dasar DEF TypeInv, KategoriSah
  <2> QED BY <1>2, <1>6, <2>1 DEF KategoriSah
<1>u. PICK u : u = UnitBaru(k, r.jumlah)
  OBVIOUS
<1>9. u \in Seq(TipeUnit) /\ Len(u) = r.jumlah /\ \A i \in 1 .. r.jumlah : u[i].kategori = k
  BY <1>4, <1>u, UnitBaruSah
<1>10. VarianSah' /\ Len(varian') = Len(varian) + Len(u)
  <2>1. varian' = varian \o u /\ Len(varian) + Len(u) <= MaxVarian
    BY <1>2, <1>9, <1>u
  <2>2. Len(kategori') \in Nat /\ Len(kategori) <= Len(kategori') /\ k \in 1 .. Len(kategori')
    BY <1>6, <1>k, Dasar
  <2>3. \A i \in 1 .. Len(u) : u[i].kategori \in 1 .. Len(kategori')
    BY <1>9, <2>2
  <2> QED BY <1>9, <2>1, <2>2, <2>3, UnitTambahSah
<1>11. Tumbuh
  BY <1>2, <1>4, <1>6, <1>9, <1>10, <1>k, Dasar DEF Tumbuh
<1>12. BarangSah'
  BY <1>2, <1>11, BarangTetap
<1>13. LatarSah'
  <2>1. PICK isi : isi = [j \in {k} |-> r.jumlah]
    OBVIOUS
  <2>2. {k} \subseteq 1 .. Len(kategori')
    BY <1>6, <1>k, Dasar
  <2>3. isi \in TipeIsi /\ DOMAIN isi = {k}
    <3>1. isi = [j \in {k} |-> isi[j]] /\ \A j \in {k} : isi[j] \in Int
      BY <1>4, <2>1
    <3>2. MaxKategori \in Nat /\ Len(kategori') \in Nat
      BY <1>4, <1>6, Dasar
    <3> QED BY <1>8, <2>2, <3>1, <3>2, IsiTipe
  <2>4. "tambah" \in JenisLatar /\ "tambah" # "buat"
    BY DEF JenisLatar
  <2> QED BY <1>2, <1>4, <1>8, <1>11, <2>1, <2>2, <2>3, <2>4, JalankanSah
<1>14. ProsesSah'
  BY <1>2, <1>11, ProsesSelesai
<1> QED BY <1>2, <1>8, <1>10, <1>11, <1>12, <1>13, <1>14, TulisSah

LEMMA HapusKategoriTulisSah ==
    ASSUME TypeInv, NEW p \in Proses, HapusKategoriTulis(p)
    PROVE  TypeInv'
<1>1. PICK r : r = proses[p]
  OBVIOUS
<1>2. /\ r.tahap = "hapusKategori"
      /\ varian' = SetStatus(VarianBerstatus(r.kategori, StatusVarian), "terhapus")
      /\ kategori' = [kategori EXCEPT ![r.kategori].ada = FALSE]
      /\ Jalankan("hapusKategori", r.barang, [k \in {r.kategori} |-> r.jumlah])
      /\ Lepas(p) /\ UNCHANGED <<barang, ambangBarang, ambangKategori, pilihan>>
  BY <1>1 DEF HapusKategoriTulis
<1>3. r \in TipeProses /\ Sah(r, Len(barang), Len(kategori), Len(varian))
  BY <1>1, Dasar DEF TypeInv, ProsesSah
<1>5. \A k \in DOMAIN kategori : kategori'[k] \in TipeRak /\ kategori'[k].barang = kategori[k].barang
  BY <1>2, Dasar DEF TipeRak
<1>6. kategori' = [k \in DOMAIN kategori |-> kategori'[k]]
  BY <1>2
<1>9. Tumbuh /\ Len(kategori') = Len(kategori)
  BY <1>2, <1>6, StatusTumbuh, TumbuhUbah
<1>10. KategoriSah'
  BY <1>5, <1>6, <1>9, KategoriUbahSah
<1>11. BarangSah'
  BY <1>2, <1>9, BarangTetap
<1>12. VarianSah'
  <2>1. "terhapus" \in StatusVarian
    BY DEF StatusVarian
  <2> QED BY <1>2, <1>9, <2>1, StatusSah DEF Tumbuh
<1>13. LatarSah'
  <2>1. PICK isi : isi = [k \in {r.kategori} |-> r.jumlah]
    OBVIOUS
  <2>2. {r.kategori} \subseteq 1 .. Len(kategori') /\ r.barang \in Nat /\ r.jumlah \in Nat
    BY <1>2, <1>3, <1>9, Dasar DEF Sah, TipeProses
  <2>3. isi \in TipeIsi /\ DOMAIN isi = {r.kategori}
    <3>1. isi = [k \in {r.kategori} |-> isi[k]] /\ \A k \in {r.kategori} : isi[k] \in Int
      BY <2>1, <2>2
    <3>2. MaxKategori \in Nat /\ Len(kategori') \in Nat
      BY <1>9, Dasar
    <3> QED BY <1>10, <2>2, <3>1, <3>2, IsiTipe
  <2>4. "hapusKategori" \in JenisLatar /\ "hapusKategori" # "buat"
    BY DEF JenisLatar
  <2> QED BY <1>2, <1>9, <1>10, <2>1, <2>2, <2>3, <2>4, JalankanSah
<1>14. ProsesSah'
  BY <1>2, <1>9, ProsesSelesai
<1> QED BY <1>2, <1>9, <1>10, <1>11, <1>12, <1>13, <1>14, TulisSah

LEMMA AsalTulisSah ==
    ASSUME TypeInv, NEW p \in Proses, AsalTulis(p)
    PROVE  TypeInv'
<1>1. PICK r : r = proses[p]
  OBVIOUS
<1>2. /\ r.tahap = "asal"
      /\ barang' = [barang EXCEPT ![r.barang].asal = IF barang[r.barang].ada THEN r.kategori ELSE @]
      /\ kategori' = [kategori EXCEPT ![r.kategori].original = @ \/ kategori[r.kategori].ada]
      /\ Lepas(p) /\ UNCHANGED <<varian, ambangBarang, ambangKategori, latar, pilihan>>
  BY <1>1 DEF AsalTulis
<1>3. r \in TipeProses /\ Sah(r, Len(barang), Len(kategori), Len(varian))
  BY <1>1, Dasar DEF TypeInv, ProsesSah
<1>4. r.kategori \in Nat /\ r.kategori <= Len(kategori)
  BY <1>3 DEF Sah, TipeProses
<1>5. \A k \in DOMAIN kategori : kategori'[k] \in TipeRak /\ kategori'[k].barang = kategori[k].barang
  <2> TAKE k \in DOMAIN kategori
  <2>1. kategori[k] \in TipeRak
    BY Dasar
  <2>2. CASE k # r.kategori
    BY <1>2, <2>1, <2>2
  <2>3. CASE k = r.kategori
    <3>1. PICK a : a = (kategori[k].original \/ kategori[k].ada)
      OBVIOUS
    <3>2. kategori'[k] = [kategori[k] EXCEPT !.original = a]
      BY <1>2, <2>3, <3>1
    <3>3. a \in BOOLEAN
      BY <3>1
    <3> QED BY <2>1, <3>2, <3>3 DEF TipeRak
  <2> QED BY <2>2, <2>3
<1>6. kategori' = [k \in DOMAIN kategori |-> kategori'[k]] /\ barang' = [b \in DOMAIN barang |-> barang'[b]]
  BY <1>2
<1>9. Tumbuh /\ Len(kategori') = Len(kategori)
  BY <1>2, <1>6, TumbuhUbah
<1>10. KategoriSah'
  BY <1>5, <1>6, <1>9, KategoriUbahSah
<1>11. BarangSah'
  <2>1. ASSUME NEW b \in DOMAIN barang PROVE barang'[b] \in TipeBarang /\ barang'[b].asal <= Len(kategori')
    <3>1. barang[b] \in TipeBarang /\ barang[b].asal <= Len(kategori)
      BY Dasar DEF TypeInv, BarangSah
    <3>2. CASE b # r.barang
      BY <1>2, <1>9, <3>1, <3>2
    <3>3. CASE b = r.barang
      <4>1. PICK a : a = IF barang[b].ada THEN r.kategori ELSE barang[b].asal
        OBVIOUS
      <4>2. barang'[b] = [barang[b] EXCEPT !.asal = a]
        BY <1>2, <3>3, <4>1
      <4>3. a \in Nat /\ a <= Len(kategori)
        BY <1>4, <3>1, <4>1 DEF TipeBarang
      <4> QED BY <1>9, <3>1, <4>2, <4>3 DEF TipeBarang
    <3> QED BY <3>2, <3>3
  <2> QED BY <1>6, <1>9, <2>1, BarangUbahSah
<1>12. VarianSah' /\ LatarSah' /\ ProsesSah'
  BY <1>2, <1>9, VarianTetap, LatarTetap, ProsesSelesai
<1> QED BY <1>2, <1>9, <1>10, <1>11, <1>12, TulisSah

\* What SetStok leaves of the categories.
LEMMA SetStokSah ==
    ASSUME TypeInv, NEW k, NEW n \in Nat, kategori' = SetStok(k, n)
    PROVE  /\ kategori' = [i \in DOMAIN kategori |-> kategori'[i]]
           /\ \A i \in DOMAIN kategori : /\ kategori'[i] \in TipeRak
                                         /\ kategori'[i].barang = kategori[i].barang
                                         /\ kategori'[i].ada = kategori[i].ada
<1>0. kategori = [i \in DOMAIN kategori |-> kategori[i]] /\ \A i \in DOMAIN kategori : kategori[i] \in TipeRak
  BY Dasar DEF TypeInv, KategoriSah
<1>1. CASE n = 0 \/ ~KategoriAda(k)
  BY <1>0, <1>1 DEF SetStok
<1>2. CASE ~(n = 0 \/ ~KategoriAda(k))
  <2>1. kategori' = [kategori EXCEPT ![k].stok = n]
    BY <1>2 DEF SetStok
  <2>2. ASSUME NEW i \in DOMAIN kategori
        PROVE  /\ kategori'[i] \in TipeRak
               /\ kategori'[i].barang = kategori[i].barang
               /\ kategori'[i].ada = kategori[i].ada
    <3>1. CASE i = k
      <4>1. kategori'[i] = [kategori[i] EXCEPT !.stok = n]
        BY <2>1, <3>1
      <4> QED BY <1>0, <4>1 DEF TipeRak
    <3>2. CASE i # k
      BY <1>0, <2>1, <3>2
    <3> QED BY <3>1, <3>2
  <2> QED BY <2>1, <2>2
<1> QED BY <1>1, <1>2

LEMMA StokLatarSah ==
    ASSUME TypeInv, Tumbuh, KategoriSah', NEW r \in TipeProses, r.tahap = "stok",
           Sah(r, Len(barang), Len(kategori), Len(varian)), NEW s \in Int,
           Jalankan("stok", r.barang, [k \in {r.kategori} |-> s])
    PROVE  LatarSah'
<1>1. PICK isi : isi = [k \in {r.kategori} |-> s]
  OBVIOUS
<1>2. {r.kategori} \subseteq 1 .. Len(kategori') /\ r.barang \in Nat
  BY Dasar DEF Sah, TipeProses, Tumbuh
<1>3. isi \in TipeIsi /\ DOMAIN isi = {r.kategori}
  <2>1. isi = [k \in {r.kategori} |-> isi[k]] /\ \A k \in {r.kategori} : isi[k] \in Int
    BY <1>1
  <2>2. MaxKategori \in Nat /\ Len(kategori') \in Nat
    BY Dasar DEF Tumbuh
  <2> QED BY <1>2, <2>1, <2>2, IsiTipe
<1>4. "stok" \in JenisLatar /\ "stok" # "buat"
  BY DEF JenisLatar
<1> QED BY <1>1, <1>2, <1>3, <1>4, JalankanSah

LEMMA PilihHingga ==
    ASSUME TypeInv, NEW r \in TipeProses
    PROVE  IsFiniteSet(r.pilih) /\ Cardinality(r.pilih) \in Nat
<1>1. r.pilih \subseteq 1 .. MaxVarian \cup 1 .. MaxKategori
  BY DEF TipeProses
<1>2. IsFiniteSet(1 .. MaxVarian \cup 1 .. MaxKategori)
  <2>1. 1 \in Int /\ MaxVarian \in Int /\ MaxKategori \in Int
    BY Dasar
  <2>2. IsFiniteSet(1 .. MaxVarian) /\ IsFiniteSet(1 .. MaxKategori)
    BY <2>1, FS_Interval
  <2> QED BY <2>2, FS_Union
<1> QED BY <1>1, <1>2, FS_Subset, FS_CardinalityType

LEMMA StokKurangSah ==
    ASSUME TypeInv, NEW p \in Proses, StokKurang(p)
    PROVE  TypeInv'
<1>1. PICK r : r = proses[p]
  OBVIOUS
<1>s. PICK s : s = -(Cardinality(r.pilih) - r.jumlah)
  OBVIOUS
<1>2. /\ r.tahap = "stok"
      /\ \E S \in Limit(r.pilih, Cardinality(r.pilih) - r.jumlah) : varian' = SetStatus(S, "terhapus")
      /\ kategori' = SetStok(r.kategori, r.jumlah)
      /\ Jalankan("stok", r.barang, [k \in {r.kategori} |-> s])
      /\ Lepas(p) /\ UNCHANGED <<barang, ambangBarang, ambangKategori, pilihan>>
  BY <1>1, <1>s DEF StokKurang
<1>3. r \in TipeProses /\ Sah(r, Len(barang), Len(kategori), Len(varian))
  BY <1>1, Dasar DEF TypeInv, ProsesSah
<1>4. r.jumlah \in Nat /\ s \in Int
  BY <1>3, <1>s, PilihHingga DEF TipeProses
<1>5. /\ kategori' = [i \in DOMAIN kategori |-> kategori'[i]]
      /\ \A i \in DOMAIN kategori : kategori'[i] \in TipeRak /\ kategori'[i].barang = kategori[i].barang
  BY <1>2, <1>4, SetStokSah
<1>6. PICK S : varian' = SetStatus(S, "terhapus")
  BY <1>2
<1>9. Tumbuh
  BY <1>2, <1>5, <1>6, StatusTumbuh, TumbuhUbah
<1>10. KategoriSah'
  BY <1>5, <1>9, KategoriUbahSah
<1>12. VarianSah'
  <2>1. "terhapus" \in StatusVarian
    BY DEF StatusVarian
  <2> QED BY <1>6, <1>9, <2>1, StatusSah DEF Tumbuh
<1>13. LatarSah'
  BY <1>2, <1>3, <1>4, <1>9, <1>10, StokLatarSah
<1>14. ProsesSah' /\ BarangSah'
  BY <1>2, <1>9, ProsesSelesai, BarangTetap
<1> QED BY <1>2, <1>9, <1>10, <1>12, <1>13, <1>14, TulisSah

LEMMA StokTambahSah ==
    ASSUME TypeInv, NEW p \in Proses, StokTambah(p)
    PROVE  TypeInv'
<1>1. PICK r : r = proses[p]
  OBVIOUS
<1>s. PICK s : s = r.jumlah - Cardinality(r.pilih)
  OBVIOUS
<1>2. /\ r.tahap = "stok" /\ s > 0 /\ Len(varian) + s <= MaxVarian
      /\ varian' = varian \o UnitBaru(r.kategori, s)
      /\ kategori' = SetStok(r.kategori, r.jumlah)
      /\ Jalankan("stok", r.barang, [k \in {r.kategori} |-> s])
      /\ Lepas(p) /\ UNCHANGED <<barang, ambangBarang, ambangKategori, pilihan>>
  BY <1>1, <1>s DEF StokTambah
<1>3. r \in TipeProses /\ Sah(r, Len(barang), Len(kategori), Len(varian))
  BY <1>1, Dasar DEF TypeInv, ProsesSah
<1>4. r.jumlah \in Nat /\ s \in Int /\ r.kategori \in 1 .. Len(kategori) /\ r.kategori \in Nat
  BY <1>2, <1>3, <1>s, PilihHingga, Dasar DEF TipeProses, Sah
<1>n. s \in Nat
  BY <1>2, <1>4
<1>5. /\ kategori' = [i \in DOMAIN kategori |-> kategori'[i]]
      /\ \A i \in DOMAIN kategori : kategori'[i] \in TipeRak /\ kategori'[i].barang = kategori[i].barang
  BY <1>2, <1>4, SetStokSah
<1>6. Len(kategori') = Len(kategori)
  <2>1. kategori \in Seq(TipeRak)
    BY DEF TypeInv, KategoriSah
  <2>2. PICK f : f = kategori'
    OBVIOUS
  <2>3. f = [i \in DOMAIN kategori |-> f[i]]
    BY <1>5, <2>2
  <2> QED BY <2>1, <2>2, <2>3, SamaPanjang
<1>u. PICK u : u = UnitBaru(r.kategori, s)
  OBVIOUS
<1>7. u \in Seq(TipeUnit) /\ Len(u) = s /\ \A i \in 1 .. s : u[i].kategori = r.kategori
  BY <1>4, <1>n, <1>u, UnitBaruSah
<1>8. VarianSah' /\ Len(varian') = Len(varian) + Len(u)
  <2>1. varian' = varian \o u /\ Len(varian) + Len(u) <= MaxVarian
    BY <1>2, <1>7, <1>u
  <2>2. Len(kategori') \in Nat /\ Len(kategori) <= Len(kategori')
    BY <1>6, Dasar
  <2>3. \A i \in 1 .. Len(u) : u[i].kategori \in 1 .. Len(kategori')
    BY <1>4, <1>6, <1>7
  <2> QED BY <1>7, <2>1, <2>2, <2>3, UnitTambahSah
<1>9. Tumbuh
  BY <1>2, <1>n, <1>6, <1>7, <1>8, Dasar DEF Tumbuh
<1>10. KategoriSah'
  BY <1>5, <1>9, KategoriUbahSah
<1>13. LatarSah'
  BY <1>2, <1>3, <1>4, <1>9, <1>10, StokLatarSah
<1>14. ProsesSah' /\ BarangSah'
  BY <1>2, <1>9, ProsesSelesai, BarangTetap
<1> QED BY <1>2, <1>8, <1>9, <1>10, <1>13, <1>14, TulisSah

\* DownKategoriBarang and UpKategoriBarang.
LEMMA UnitTulisSah ==
    ASSUME TypeInv, NEW p \in Proses, DownKategoriTulis(p) \/ UpKategoriTulis(p)
    PROVE  TypeInv'
<1>1. PICK r : r = proses[p]
  OBVIOUS
<1>2. PICK s \in StatusVarian, jenis \in {"turun", "naik"} :
         /\ r.tahap \in {"turun", "naik"}
         /\ varian' = SetStatus(r.pilih, s)
         /\ Jalankan(jenis, 0, [k \in {r.kategori} |-> Cardinality(r.pilih)])
         /\ Lepas(p) /\ UNCHANGED <<barang, kategori, ambangBarang, ambangKategori, pilihan>>
  <2>1. "Down" \in StatusVarian /\ "Ready" \in StatusVarian
    BY DEF StatusVarian
  <2>2. CASE DownKategoriTulis(p)
    BY <1>1, <2>1, <2>2 DEF DownKategoriTulis
  <2>3. CASE UpKategoriTulis(p)
    BY <1>1, <2>1, <2>3 DEF UpKategoriTulis
  <2> QED BY <2>2, <2>3
<1>3. r \in TipeProses /\ Sah(r, Len(barang), Len(kategori), Len(varian))
  BY <1>1, Dasar DEF TypeInv, ProsesSah
<1>9. Tumbuh
  BY <1>2, StatusTumbuh, TumbuhUbah
<1>10. KategoriSah' /\ BarangSah' /\ ProsesSah'
  BY <1>2, <1>9, KategoriTetap, BarangTetap, ProsesSelesai
<1>12. VarianSah'
  BY <1>2, <1>9, StatusSah DEF Tumbuh
<1>13. LatarSah'
  <2>1. PICK isi : isi = [k \in {r.kategori} |-> Cardinality(r.pilih)]
    OBVIOUS
  <2>2. {r.kategori} \subseteq 1 .. Len(kategori') /\ Cardinality(r.pilih) \in Nat
    BY <1>2, <1>3, Dasar, PilihHingga DEF Sah, TipeProses
  <2>3. isi \in TipeIsi /\ DOMAIN isi = {r.kategori}
    <3>1. isi = [k \in {r.kategori} |-> isi[k]] /\ \A k \in {r.kategori} : isi[k] \in Int
      BY <2>1, <2>2
    <3>2. MaxKategori \in Nat /\ Len(kategori') \in Nat
      BY <1>9, Dasar DEF Tumbuh
    <3> QED BY <1>10, <2>2, <3>1, <3>2, IsiTipe
  <2>4. jenis \in JenisLatar /\ jenis # "buat"
    BY <1>2 DEF JenisLatar
  <2> QED BY <1>2, <1>9, <1>10, <2>1, <2>2, <2>3, <2>4, JalankanSah
<1> QED BY <1>2, <1>9, <1>10, <1>12, <1>13, TulisSah

LEMMA PutusSah ==
    ASSUME TypeInv, NEW p \in Proses, Putus(p)
    PROVE  TypeInv'
<1>1. Lepas(p) /\ UNCHANGED <<barang, kategori, varian, ambangBarang, ambangKategori, latar, pilihan>>
  BY DEF Putus
<1>2. Tumbuh
  BY <1>1, TumbuhDiam
<1> QED BY <1>1, <1>2, ProsesSelesai, LatarTetap, PilihanTetap, TypeSisa

\* DownStokBarangInduk and UpBarangInduk.
SemuaUnit(b, S, s, jenis, isi) ==
    /\ s \in StatusVarian /\ jenis \in {"turunBarang", "naikBarang"}
    /\ varian' = SetStatus(S, s) /\ Jalankan(jenis, b, isi)
    /\ isi = << >> \/ \E K \in SUBSET (1 .. Len(kategori)) : isi = [k \in K |-> 0]
    /\ UNCHANGED <<barang, kategori, ambangBarang, ambangKategori, proses, pilihan>>

LEMMA BarangTulisSah ==
    ASSUME TypeInv, NEW b \in DOMAIN barang, DownStokBarangInduk(b) \/ UpBarangInduk(b)
    PROVE  TypeInv'
<1>0. \E S, s, jenis, isi : SemuaUnit(b, S, s, jenis, isi)
  <2>1. "Down" \in StatusVarian /\ "Ready" \in StatusVarian
    BY DEF StatusVarian
  <2>2. CASE DownStokBarangInduk(b)
    <3>1. SemuaUnit(b, {v \in VarianBarangInduk(b) : varian[v].status = "Ready"}, "Down", "turunBarang", << >>)
      BY <2>1, <2>2 DEF DownStokBarangInduk, SemuaUnit
    <3> QED BY <3>1
  <2>3. CASE UpBarangInduk(b)
    <3>1. PICK n \in BarisAmbang(b) :
             \E K \in Limit(KategoriDari(b), IF ambangBarang[n].kategori < 0 THEN MaxKategori
                                             ELSE ambangBarang[n].kategori) :
                Jalankan("naikBarang", b, [k \in K |-> 0])
      BY <2>3 DEF UpBarangInduk
    <3>2. PICK K : K \subseteq KategoriDari(b) /\ Jalankan("naikBarang", b, [k \in K |-> 0])
      BY <3>1, LimitBagian
    <3>3. K \in SUBSET (1 .. Len(kategori))
      BY <3>2, Dasar DEF KategoriDari
    <3>4. PICK isi : isi = [k \in K |-> 0]
      OBVIOUS
    <3>5. PICK S : varian' = SetStatus(S, "Ready")
      BY <2>3 DEF UpBarangInduk
    <3>6. UNCHANGED <<barang, kategori, ambangBarang, ambangKategori, proses, pilihan>>
      BY <2>3 DEF UpBarangInduk
    <3>7. Jalankan("naikBarang", b, isi)
      BY <3>2, <3>4
    <3>8. SemuaUnit(b, S, "Ready", "naikBarang", isi)
      BY <2>1, <3>3, <3>4, <3>5, <3>6, <3>7 DEF SemuaUnit
    <3> QED BY <3>8
  <2> QED BY <2>2, <2>3
<1>p. PICK S, s, jenis, isi : SemuaUnit(b, S, s, jenis, isi)
  BY <1>0
<1>1. /\ s \in StatusVarian /\ jenis \in {"turunBarang", "naikBarang"}
      /\ varian' = SetStatus(S, s) /\ Jalankan(jenis, b, isi)
      /\ isi = << >> \/ \E K \in SUBSET (1 .. Len(kategori)) : isi = [k \in K |-> 0]
      /\ UNCHANGED <<barang, kategori, ambangBarang, ambangKategori, proses, pilihan>>
  BY <1>p DEF SemuaUnit
<1>9. Tumbuh
  BY <1>1, StatusTumbuh, TumbuhUbah
<1>10. KategoriSah' /\ BarangSah' /\ ProsesSah'
  BY <1>1, <1>9, KategoriTetap, BarangTetap, ProsesTetap
<1>12. VarianSah'
  BY <1>1, <1>9, StatusSah DEF Tumbuh
<1>13. LatarSah'
  <2>1. PICK K \in SUBSET (1 .. Len(kategori)) : isi = [k \in K |-> 0]
    <3>1. CASE isi = << >>
      <4>1. << >> = [k \in {} |-> 0]
        OBVIOUS
      <4> QED BY <3>1, <4>1
    <3> QED BY <1>1, <3>1
  <2>2. K \subseteq 1 .. Len(kategori') /\ b \in Nat
    BY <1>1, Dasar
  <2>3. isi \in TipeIsi /\ DOMAIN isi = K
    <3>1. isi = [k \in K |-> isi[k]] /\ \A k \in K : isi[k] \in Int
      BY <2>1
    <3>2. MaxKategori \in Nat /\ Len(kategori') \in Nat
      BY <1>9, Dasar DEF Tumbuh
    <3> QED BY <1>10, <2>2, <3>1, <3>2, IsiTipe
  <2>4. jenis \in JenisLatar /\ jenis # "buat"
    BY <1>1 DEF JenisLatar
  <2> QED BY <1>1, <1>9, <1>10, <2>2, <2>3, <2>4, JalankanSah
<1> QED BY <1>1, <1>9, <1>10, <1>12, <1>13, TulisSah

LEMMA MasukanGagalSah ==
    ASSUME TypeInv, MasukanGagal
    PROVE  TypeInv'
<1>1. PICK e : e = [ada |-> FALSE, asal |-> 0]
  OBVIOUS
<1>2. barang' = Append(barang, e) /\ e \in TipeBarang /\ e.asal = 0
  BY <1>1 DEF MasukanGagal, TipeBarang
<1>3. UNCHANGED <<kategori, varian, ambangBarang, ambangKategori, latar, proses, pilihan>>
  BY DEF MasukanGagal
<1>4. /\ barang' \in Seq(TipeBarang) /\ Len(barang') = Len(barang) + 1 /\ DOMAIN barang' = 1 .. Len(barang) + 1
      /\ \A i \in 1 .. Len(barang) : barang'[i] = barang[i]
      /\ barang'[Len(barang) + 1] = e
  BY <1>2, SeqTambah DEF TypeInv, BarangSah
<1>5. Tumbuh
  BY <1>3, <1>4, Dasar DEF Tumbuh
<1>6. BarangSah'
  <2>1. \A i \in DOMAIN barang' : i \in DOMAIN barang \/ i = Len(barang) + 1
    BY <1>4, Dasar
  <2>2. ASSUME NEW i \in DOMAIN barang' PROVE barang'[i].asal <= Len(kategori')
    BY <1>2, <1>3, <1>4, <2>1, Dasar DEF TypeInv, BarangSah
  <2> QED BY <1>4, <2>2 DEF BarangSah
<1>7. KategoriSah' /\ VarianSah' /\ LatarSah' /\ ProsesSah'
  BY <1>3, <1>5, KategoriTetap, VarianTetap, LatarTetap, ProsesTetap
<1> QED BY <1>3, <1>5, <1>6, <1>7, TulisSah

LEMMA MasukanSah ==
    ASSUME TypeInv, NEW isi \in Isi, NEW asal \in DOMAIN isi, MasukanBarangInduk(isi, asal)
    PROVE  TypeInv'
<1>b. PICK b : b = Len(barang) + 1
  OBVIOUS
<1>k. PICK k0 : k0 = Len(kategori)
  OBVIOUS
<1>u. PICK u : u = UnitKategori(isi, k0)
  OBVIOUS
<1>n. PICK n : n = Len(isi)
  OBVIOUS
<1>e. PICK e : e = [ada |-> TRUE, asal |-> k0 + asal]
  OBVIOUS
<1>t. PICK t : t = [i \in 1 .. n |-> [barang |-> b, stok |-> isi[i], original |-> i = asal, ada |-> TRUE]]
  OBVIOUS
<1>j. PICK j : j = [k \in k0 + 1 .. k0 + n |-> isi[k - k0]]
  OBVIOUS
<1>1. /\ k0 + n <= MaxKategori /\ Len(varian) + Len(u) <= MaxVarian
      /\ barang' = Append(barang, e) /\ kategori' = kategori \o t /\ varian' = varian \o u
      /\ Jalankan("buat", b, j)
      /\ UNCHANGED <<ambangBarang, ambangKategori, proses, pilihan>>
  BY <1>b, <1>k, <1>u, <1>n, <1>e, <1>t, <1>j DEF MasukanBarangInduk
<1>2. /\ n \in 1 .. 2 /\ asal \in 1 .. n /\ \A i \in 1 .. n : isi[i] \in Nat
      /\ k0 \in Nat /\ b \in Nat /\ Len(barang) \in Nat
  <2>1. n \in 1 .. 2 /\ asal \in 1 .. n /\ \A i \in 1 .. n : isi[i] \in Nat
    BY <1>n, IsiDasar
  <2>2. Len(barang) \in Nat /\ Len(kategori) \in Nat
    BY Dasar
  <2> QED BY <1>k, <1>b, <2>1, <2>2
<1>3. e \in TipeBarang /\ e.asal = k0 + asal /\ k0 + asal <= k0 + n
  <2>1. k0 + asal \in Nat /\ k0 + asal <= k0 + n
    BY <1>2
  <2> QED BY <2>1, <1>e DEF TipeBarang
<1>4. /\ barang' \in Seq(TipeBarang) /\ Len(barang') = b /\ DOMAIN barang' = 1 .. b
      /\ \A i \in 1 .. Len(barang) : barang'[i] = barang[i]
      /\ barang'[b] = e
  BY <1>1, <1>3, <1>b, SeqTambah DEF TypeInv, BarangSah
<1>5. t \in Seq(TipeRak) /\ Len(t) = n /\ \A i \in 1 .. n : t[i].barang = b
  <2>1. \A i \in 1 .. n : t[i] = [barang |-> b, stok |-> isi[i], original |-> i = asal, ada |-> TRUE]
    BY <1>t
  <2>2. ASSUME NEW i \in 1 .. n PROVE t[i] \in TipeRak /\ t[i].barang = b
    <3>1. PICK a : a = (i = asal)
      OBVIOUS
    <3>2. t[i] = [barang |-> b, stok |-> isi[i], original |-> a, ada |-> TRUE] /\ a \in BOOLEAN /\ isi[i] \in Nat
      BY <1>2, <2>1, <3>1
    <3> QED BY <1>2, <3>2 DEF TipeRak
  <2>3. t = [i \in 1 .. n |-> t[i]] /\ n \in Nat
    BY <1>t, <1>2
  <2>4. t \in [1 .. n -> TipeRak]
    BY <2>2, <2>3
  <2> QED BY <2>2, <2>3, <2>4
<1>6. /\ kategori' \in Seq(TipeRak) /\ Len(kategori') = k0 + n /\ DOMAIN kategori' = 1 .. k0 + n
      /\ \A i \in 1 .. k0 : kategori'[i] = kategori[i]
      /\ \A i \in 1 .. n : kategori'[k0 + i] = t[i]
      /\ \A i \in 1 .. k0 + n : i \in 1 .. k0 \/ \E h \in 1 .. n : i = k0 + h
  <2>1. kategori \in Seq(TipeRak)
    BY DEF TypeInv, KategoriSah
  <2>2. PICK v : v = kategori \o t
    OBVIOUS
  <2>3. /\ v \in Seq(TipeRak) /\ Len(v) = Len(kategori) + Len(t)
        /\ DOMAIN v = 1 .. Len(kategori) + Len(t)
        /\ \A i \in 1 .. Len(kategori) : v[i] = kategori[i]
        /\ \A i \in 1 .. Len(t) : v[Len(kategori) + i] = t[i]
        /\ \A i \in 1 .. Len(kategori) + Len(t) :
              i \in 1 .. Len(kategori) \/ \E h \in 1 .. Len(t) : i = Len(kategori) + h
    <3>1. t \in Seq(TipeRak)
      BY <1>5
    <3>2. DOMAIN v = 1 .. Len(kategori) + Len(t)
      BY <2>1, <2>2, <3>1, SeqGabung
    <3>3. /\ v \in Seq(TipeRak) /\ Len(v) = Len(kategori) + Len(t)
          /\ \A i \in 1 .. Len(kategori) : v[i] = kategori[i]
          /\ \A i \in 1 .. Len(t) : v[Len(kategori) + i] = t[i]
      BY <2>1, <2>2, <3>1, SeqGabung
    <3>4. \A i \in 1 .. Len(kategori) + Len(t) :
             i \in 1 .. Len(kategori) \/ \E h \in 1 .. Len(t) : i = Len(kategori) + h
      BY <2>1, <3>1, SeqGabung
    <3> QED BY <3>2, <3>3, <3>4
  <2> QED BY <1>1, <1>5, <1>k, <2>2, <2>3, Zenon
<1>d. Diisi(u, isi, k0)
  BY <1>2, <1>u, UnitDiisi
<1>7. VarianSah' /\ Len(varian') = Len(varian) + Len(u) /\ Len(u) \in Nat
  <2>1. u \in Seq(TipeUnit) /\ \A i \in 1 .. Len(u) : u[i].kategori \in k0 + 1 .. k0 + n
    BY <1>d, <1>n DEF Diisi
  <2>2. k0 + 1 .. k0 + n \subseteq 1 .. Len(kategori') /\ Len(kategori') \in Nat /\ Len(kategori) <= Len(kategori')
    BY <1>2, <1>6, <1>k
  <2>3. \A i \in 1 .. Len(u) : u[i].kategori \in 1 .. Len(kategori')
    BY <2>1, <2>2
  <2> QED BY <1>1, <2>1, <2>2, <2>3, UnitTambahSah
<1>8. Tumbuh
  BY <1>b, <1>k, <1>2, <1>4, <1>6, <1>7, Dasar DEF Tumbuh
<1>9. BarangSah'
  <2>1. \A i \in DOMAIN barang' : i \in 1 .. Len(barang) \/ i = b
    BY <1>4, <1>b, <1>2
  <2>2. ASSUME NEW i \in 1 .. Len(barang) PROVE barang'[i].asal <= Len(kategori')
    <3>1. barang[i].asal \in Nat /\ barang[i].asal <= Len(kategori)
      BY Dasar DEF TypeInv, BarangSah, TipeBarang
    <3> QED BY <1>4, <3>1, <1>8, Dasar DEF Tumbuh
  <2>3. barang'[b].asal <= Len(kategori')
    BY <1>3, <1>4, <1>6
  <2> QED BY <1>4, <2>1, <2>2, <2>3 DEF BarangSah
<1>10. KategoriSah'
  <2>1. b \in 1 .. Len(barang') /\ 1 .. Len(barang) \subseteq 1 .. Len(barang')
    BY <1>b, <1>4, <1>2
  <2>2. ASSUME NEW i \in 1 .. k0 + n PROVE kategori'[i].barang \in 1 .. Len(barang')
    <3>1. CASE i \in 1 .. k0
      BY <1>6, <1>k, <2>1, <3>1, Dasar DEF TypeInv, KategoriSah
    <3>2. CASE \E h \in 1 .. n : i = k0 + h
      BY <1>5, <1>6, <2>1, <3>2
    <3> QED BY <1>6, <3>1, <3>2
  <2> QED BY <1>1, <1>6, <2>2 DEF KategoriSah
<1>11. LatarSah'
  <2>1. PICK K : K = k0 + 1 .. k0 + n
    OBVIOUS
  <2>2. K \subseteq 1 .. Len(kategori') /\ b \in 1 .. Len(barang')
    BY <1>2, <1>4, <1>6, <1>b, <2>1
  <2>3. j \in TipeIsi /\ DOMAIN j = K
    <3>1. ASSUME NEW k \in K PROVE j[k] \in Int
      <4>1. k - k0 \in 1 .. n
        BY <1>2, <2>1
      <4>2. j[k] = isi[k - k0]
        BY <1>j, <2>1
      <4> QED BY <1>2, <4>1, <4>2
    <3>2. j = [k \in K |-> j[k]]
      BY <1>j, <2>1
    <3>3. MaxKategori \in Nat /\ Len(kategori') \in Nat
      BY <1>8, Dasar DEF Tumbuh
    <3> QED BY <1>10, <2>2, <3>1, <3>2, <3>3, IsiTipe
  <2>4. "buat" \in JenisLatar
    BY DEF JenisLatar
  <2> QED BY <1>1, <1>2, <1>8, <1>10, <2>2, <2>3, <2>4, JalankanSah
<1>12. ProsesSah'
  BY <1>1, <1>8, ProsesTetap
<1> QED BY <1>1, <1>7, <1>8, <1>9, <1>10, <1>11, <1>12, TulisSah

-----------------------------------------------------------------------------
(* Types: the goroutines, the checkouts and the specification.              *)

LEMMA LatarUbahSah ==
    ASSUME TypeInv, NEW i \in DOMAIN latar, latar' = Sisa(i), AmbangSah', HitungSah',
           UNCHANGED <<barang, kategori, varian, proses, pilihan>>
    PROVE  TypeInv'
<1>1. Tumbuh
  BY TumbuhDiam
<1> QED BY <1>1, BarangTetap, KategoriTetap, VarianTetap, LatarSisaSah, ProsesTetap, PilihanTetap DEF TypeInv

LEMMA IsiBilangan ==
    ASSUME NEW isi \in TipeIsi, MaxKategori \in Nat
    PROVE  /\ \A k \in DOMAIN isi : isi[k] \in Int
           /\ IsFiniteSet(DOMAIN isi) /\ Cardinality(DOMAIN isi) \in Nat
           /\ JumlahIsi(isi) = SumFunctionOnSet(isi, DOMAIN isi) /\ JumlahIsi(isi) \in Int
<1>1. PICK K \in SUBSET (1 .. MaxKategori) : isi \in [K -> Int]
  BY DEF TipeIsi
<1>2. IsFiniteSet(1 .. MaxKategori)
  <2>1. 1 \in Int /\ MaxKategori \in Int
    OBVIOUS
  <2> QED BY <2>1, FS_Interval
<1>3. DOMAIN isi = K /\ IsFiniteSet(K) /\ Cardinality(K) \in Nat /\ \A k \in K : isi[k] \in Int
  BY <1>1, <1>2, FS_Subset, FS_CardinalityType
<1>4. JumlahIsi(isi) = SumFunctionOnSet(isi, K)
  BY <1>3 DEF JumlahIsi, SumFunction, SumFunctionOnSet
<1>5. Bilangan(isi, K)
  BY <1>3 DEF Bilangan
<1>6. SumFunctionOnSet(isi, K) \in Int
  BY <1>3, <1>5, JumlahTipe
<1> QED BY <1>3, <1>4, <1>6

LEMMA HitungDasar ==
    ASSUME TypeInv
    PROVE  /\ DOMAIN ambangKategori = 1 .. MaxKategori
           /\ \A k \in DOMAIN ambangKategori : /\ ambangKategori[k] \in TipeHitung
                                               /\ ambangKategori[k].down \in Int
                                               /\ ambangKategori[k].ready \in Int
BY DEF TypeInv, HitungSah, TipeHitung

LEMMA BarisBaruSah ==
    ASSUME TypeInv, NEW isi \in TipeIsi
    PROVE  BarisBaru(isi) \in [1 .. MaxKategori -> TipeHitung]
<1>1. \A k \in DOMAIN isi : isi[k] \in Int
  BY Dasar, IsiBilangan
<1>2. \A k \in DOMAIN isi : [ada |-> TRUE, down |-> isi[k], ready |-> 0] \in TipeHitung
  BY <1>1 DEF TipeHitung
<1> QED BY <1>2, HitungDasar DEF BarisBaru

LEMMA GeserSah ==
    ASSUME TypeInv, NEW K, NEW t, NEW s,
           \A k \in K \cap DOMAIN ambangKategori : t[k] \in Int /\ s[k] \in Int
    PROVE  Geser(K, t, s) \in [1 .. MaxKategori -> TipeHitung]
<1>1. ASSUME NEW k \in K \cap DOMAIN ambangKategori
      PROVE  [ada |-> TRUE, down |-> ambangKategori[k].down + t[k],
                            ready |-> ambangKategori[k].ready + s[k]] \in TipeHitung
  <2>1. ambangKategori[k].down + t[k] \in Int /\ ambangKategori[k].ready + s[k] \in Int
    BY HitungDasar
  <2> QED BY <2>1 DEF TipeHitung
<1> QED BY <1>1, HitungDasar DEF Geser

LEMMA KosongSah ==
    ASSUME TypeInv, NEW K
    PROVE  [k \in DOMAIN ambangKategori |-> IF k \in K THEN AmbangKosong ELSE ambangKategori[k]]
              \in [1 .. MaxKategori -> TipeHitung]
<1>1. AmbangKosong \in TipeHitung
  BY DEF AmbangKosong, TipeHitung
<1> QED BY <1>1, HitungDasar

LEMMA BalikSah == \A f : \A k \in DOMAIN f : f[k] \in Int => Balik(f)[k] \in Int
BY DEF Balik

\* One row of threshold_barang_induk is moved.
BarisUbah(rows, b, dk, dv) == [rows EXCEPT ![b].kategori = @ + dk, ![b].varian = @ + dv]

LEMMA BarisUbahSah ==
    ASSUME NEW rows \in Seq(TipeAmbang), NEW b \in DOMAIN rows, NEW dk \in Int, NEW dv \in Int,
           NEW hasil, hasil = BarisUbah(rows, b, dk, dv)
    PROVE  /\ hasil \in Seq(TipeAmbang) /\ DOMAIN hasil = DOMAIN rows
           /\ \A n \in DOMAIN rows : n # b => hasil[n] = rows[n]
           /\ hasil[b].barang = rows[b].barang /\ hasil[b].ada = rows[b].ada
           /\ hasil[b].kategori = rows[b].kategori + dk /\ hasil[b].varian = rows[b].varian + dv
<1>0. \A n \in DOMAIN rows : rows[n] \in TipeAmbang
  OBVIOUS
<1>1. PICK e : e = [rows[b] EXCEPT !.kategori = @ + dk, !.varian = @ + dv]
  OBVIOUS
<1>2. rows[b].kategori + dk \in Int /\ rows[b].varian + dv \in Int
  BY <1>0 DEF TipeAmbang
<1>3. /\ e \in TipeAmbang /\ e.barang = rows[b].barang /\ e.ada = rows[b].ada
      /\ e.kategori = rows[b].kategori + dk /\ e.varian = rows[b].varian + dv
  BY <1>0, <1>1, <1>2 DEF TipeAmbang
<1>4. hasil = [rows EXCEPT ![b] = e]
  BY <1>1 DEF BarisUbah
<1>5. /\ hasil \in Seq(TipeAmbang) /\ DOMAIN hasil = DOMAIN rows
      /\ \A n \in DOMAIN rows : hasil[n] = IF n = b THEN e ELSE rows[n]
  <2>1. /\ [rows EXCEPT ![b] = e] \in Seq(TipeAmbang) /\ DOMAIN [rows EXCEPT ![b] = e] = DOMAIN rows
        /\ \A n \in DOMAIN rows : [rows EXCEPT ![b] = e][n] = IF n = b THEN e ELSE rows[n]
    BY <1>3, SeqSatu
  <2> QED BY <1>4, <2>1
<1> QED BY <1>3, <1>5

LEMMA TambahAmbangSah ==
    ASSUME TypeInv, NEW b, NEW dk \in Int, NEW dv \in Int
    PROVE  /\ TambahAmbang(b, dk, dv) \in Seq(TipeAmbang) /\ DOMAIN TambahAmbang(b, dk, dv) = DOMAIN ambangBarang
           /\ \A n \in DOMAIN ambangBarang :
                 LET m == TambahAmbang(b, dk, dv)[n]
                     kena == n = b /\ ambangBarang[n].ada
                 IN  /\ m.barang = ambangBarang[n].barang /\ m.ada = ambangBarang[n].ada
                     /\ m.kategori = IF kena THEN ambangBarang[n].kategori + dk ELSE ambangBarang[n].kategori
                     /\ m.varian = IF kena THEN ambangBarang[n].varian + dv ELSE ambangBarang[n].varian
<1>1. ambangBarang \in Seq(TipeAmbang)
  BY DEF TypeInv, AmbangSah
<1>2. PICK hasil : hasil = TambahAmbang(b, dk, dv)
  OBVIOUS
<1>3. CASE b \in DOMAIN ambangBarang /\ ambangBarang[b].ada
  <2>1. hasil = BarisUbah(ambangBarang, b, dk, dv)
    BY <1>2, <1>3 DEF TambahAmbang, BarisUbah
  <2>2. /\ hasil \in Seq(TipeAmbang) /\ DOMAIN hasil = DOMAIN ambangBarang
        /\ \A n \in DOMAIN ambangBarang : n # b => hasil[n] = ambangBarang[n]
        /\ hasil[b].barang = ambangBarang[b].barang /\ hasil[b].ada = ambangBarang[b].ada
        /\ hasil[b].kategori = ambangBarang[b].kategori + dk /\ hasil[b].varian = ambangBarang[b].varian + dv
    <3>1. b \in DOMAIN ambangBarang
      BY <1>3
    <3> QED BY <1>1, <2>1, <3>1, BarisUbahSah
  <2> QED BY <1>2, <1>3, <2>2
<1>4. CASE ~(b \in DOMAIN ambangBarang /\ ambangBarang[b].ada)
  <2>1. hasil = ambangBarang
    BY <1>2, <1>4 DEF TambahAmbang
  <2> QED BY <1>1, <1>2, <1>4, <2>1
<1> QED BY <1>3, <1>4

LEMMA TambahAmbangTipe ==
    ASSUME TypeInv, UNCHANGED barang, NEW b, NEW dk \in Int, NEW dv \in Int, ambangBarang' = TambahAmbang(b, dk, dv)
    PROVE  AmbangSah'
<1>1. \A n \in DOMAIN ambangBarang : ambangBarang[n].barang \in 1 .. Len(barang)
  BY DEF TypeInv, AmbangSah
<1>2. \A n \in DOMAIN ambangBarang : TambahAmbang(b, dk, dv)[n].barang = ambangBarang[n].barang
  BY TambahAmbangSah
<1>3. TambahAmbang(b, dk, dv) \in Seq(TipeAmbang) /\ DOMAIN TambahAmbang(b, dk, dv) = DOMAIN ambangBarang
  BY TambahAmbangSah
<1> QED BY <1>1, <1>2, <1>3 DEF AmbangSah

\* What goroutine i refers to.
LEMMA TugasDasar ==
    ASSUME TypeInv, NEW i \in DOMAIN latar
    PROVE  /\ latar[i].barang \in Nat /\ latar[i].isi \in TipeIsi
           /\ DOMAIN latar[i].isi \subseteq 1 .. Len(kategori)
           /\ latar[i].jenis = "buat" => latar[i].barang \in 1 .. Len(barang)
<1>1. latar[i] \in TipeTugas /\ TugasSah(latar[i], Len(barang), Len(kategori))
  BY Dasar DEF TypeInv, LatarSah
<1> QED BY <1>1 DEF TipeTugas, TugasSah

LEMMA LatarBuatSah ==
    ASSUME TypeInv, NEW i \in DOMAIN latar, LatarBuat(i)
    PROVE  TypeInv'
<1>1. PICK j : j = latar[i]
  OBVIOUS
<1>b. PICK baris : baris = [barang |-> j.barang, kategori |-> 0, varian |-> 0, ada |-> TRUE]
  OBVIOUS
<1>r. PICK rows : rows = Append(ambangBarang, baris)
  OBVIOUS
<1>2. /\ Ambil(i, {"buat"})
      /\ ambangBarang' =
            IF j.barang \in DOMAIN rows /\ rows[j.barang].ada
            THEN BarisUbah(rows, j.barang, Cardinality(DOMAIN j.isi), JumlahIsi(j.isi)) ELSE rows
      /\ ambangKategori' = BarisBaru(j.isi)
  BY <1>1, <1>b, <1>r DEF LatarBuat, BarisUbah
<1>3. /\ j.barang \in 1 .. Len(barang) /\ j.isi \in TipeIsi /\ j.barang \in Nat
      /\ latar' = Sisa(i) /\ UNCHANGED <<barang, kategori, varian, proses, pilihan>>
  BY <1>1, <1>2, TugasDasar DEF Ambil
<1>4. Cardinality(DOMAIN j.isi) \in Int /\ JumlahIsi(j.isi) \in Int
  BY <1>3, Dasar, IsiBilangan
<1>5. baris \in TipeAmbang /\ baris.barang = j.barang
  BY <1>b, <1>3 DEF TipeAmbang
<1>6. /\ rows \in Seq(TipeAmbang) /\ DOMAIN rows = 1 .. Len(ambangBarang) + 1
      /\ \A n \in 1 .. Len(ambangBarang) : rows[n] = ambangBarang[n]
      /\ rows[Len(ambangBarang) + 1] = baris
  <2>1. ambangBarang \in Seq(TipeAmbang)
    BY DEF TypeInv, AmbangSah
  <2> QED BY <1>5, <1>r, <2>1, SeqTambah
<1>7. \A n \in DOMAIN rows : rows[n].barang \in 1 .. Len(barang)
  <2>1. \A n \in DOMAIN rows : n \in DOMAIN ambangBarang \/ n = Len(ambangBarang) + 1
    BY <1>6, Dasar
  <2> QED BY <1>3, <1>5, <1>6, <2>1, Dasar DEF TypeInv, AmbangSah
<1>8. AmbangSah'
  <2>1. CASE j.barang \in DOMAIN rows /\ rows[j.barang].ada
    <3>1. PICK hasil : hasil = BarisUbah(rows, j.barang, Cardinality(DOMAIN j.isi), JumlahIsi(j.isi))
      OBVIOUS
    <3>2. /\ hasil \in Seq(TipeAmbang) /\ DOMAIN hasil = DOMAIN rows
          /\ \A n \in DOMAIN rows : n # j.barang => hasil[n] = rows[n]
          /\ hasil[j.barang].barang = rows[j.barang].barang
      BY <1>4, <1>6, <2>1, <3>1, BarisUbahSah
    <3>3. ambangBarang' = hasil
      BY <1>2, <2>1, <3>1
    <3>4. \A n \in DOMAIN hasil : hasil[n].barang \in 1 .. Len(barang)
      BY <1>7, <3>2
    <3> QED BY <1>3, <3>2, <3>3, <3>4 DEF AmbangSah
  <2>2. CASE ~(j.barang \in DOMAIN rows /\ rows[j.barang].ada)
    <3>1. ambangBarang' = rows
      BY <1>2, <2>2
    <3> QED BY <1>3, <1>6, <1>7, <3>1 DEF AmbangSah
  <2> QED BY <2>1, <2>2
<1>9. HitungSah'
  BY <1>2, <1>3, BarisBaruSah DEF HitungSah
<1> QED BY <1>3, <1>8, <1>9, LatarUbahSah

LEMMA LatarLainSah ==
    ASSUME TypeInv, NEW i \in DOMAIN latar,
           LatarTambah(i) \/ LatarHapusKategori(i) \/ LatarStok(i) \/ LatarTurunBarang(i)
           \/ LatarNaikBarang(i) \/ LatarTurun(i) \/ LatarNaik(i)
    PROVE  TypeInv'
<1>1. PICK isi : isi = latar[i].isi
  OBVIOUS
<1>2. /\ isi \in TipeIsi /\ JumlahIsi(isi) \in Int /\ -JumlahIsi(isi) \in Int
      /\ \A k \in DOMAIN isi : isi[k] \in Int /\ Balik(isi)[k] \in Int
  BY <1>1, Dasar, TugasDasar, IsiBilangan, BalikSah
<1>3. latar' = Sisa(i) /\ UNCHANGED <<barang, kategori, varian, proses, pilihan>>
  BY DEF LatarTambah, LatarHapusKategori, LatarStok, LatarTurunBarang, LatarNaikBarang, LatarTurun,
         LatarNaik, Ambil
<1>4. Tumbuh
  BY <1>3, TumbuhDiam
<1>5. 1 \in Int /\ 0 \in Int /\ -1 \in Int
  OBVIOUS
<1>6. \A k \in DOMAIN ambangKategori : /\ Nol[k] \in Int /\ Turun[k] \in Int /\ Siap[k] \in Int
                                       /\ Balik(Turun)[k] \in Int /\ Balik(Siap)[k] \in Int
  BY HitungDasar DEF Nol, Turun, Siap, Balik
<1>7. AmbangSah' /\ HitungSah'
  <2>1. CASE LatarTambah(i)
    <3>1. ambangKategori' = BarisBaru(isi) /\ ambangBarang' = TambahAmbang(latar[i].barang, 1, JumlahIsi(isi))
      BY <1>1, <2>1 DEF LatarTambah
    <3> QED BY <1>2, <1>3, <1>5, <3>1, BarisBaruSah, TambahAmbangTipe DEF HitungSah
  <2>2. CASE LatarHapusKategori(i)
    <3>1. /\ ambangBarang' = TambahAmbang(latar[i].barang, -1, -JumlahIsi(isi))
          /\ ambangKategori' = [k \in DOMAIN ambangKategori |->
                                  IF k \in DOMAIN isi THEN AmbangKosong ELSE ambangKategori[k]]
      BY <1>1, <2>2 DEF LatarHapusKategori
    <3>2. AmbangSah'
      BY <1>2, <1>3, <1>5, <3>1, TambahAmbangTipe
    <3> QED BY <3>1, <3>2, KosongSah DEF HitungSah
  <2>3. CASE LatarStok(i)
    <3>1. ambangBarang' = TambahAmbang(latar[i].barang, 0, JumlahIsi(isi)) /\ ambangKategori' = Geser(DOMAIN isi, isi, Nol)
      BY <1>1, <2>3 DEF LatarStok
    <3>2. AmbangSah'
      BY <1>2, <1>3, <1>5, <3>1, TambahAmbangTipe
    <3> QED BY <1>2, <1>6, <3>1, <3>2, GeserSah DEF HitungSah
  <2>4. CASE LatarTurunBarang(i)
    <3>1. PICK K : ambangKategori' = Geser(K, Siap, Balik(Siap))
      BY <2>4 DEF LatarTurunBarang
    <3>2. UNCHANGED ambangBarang
      BY <2>4 DEF LatarTurunBarang
    <3> QED BY <1>4, <1>6, <3>1, <3>2, GeserSah, AmbangTetap DEF HitungSah
  <2>5. CASE LatarNaikBarang(i)
    <3>1. UNCHANGED ambangBarang /\ ambangKategori' = Geser(DOMAIN isi, Balik(Turun), Turun)
      BY <1>1, <2>5 DEF LatarNaikBarang
    <3> QED BY <1>4, <1>6, <3>1, GeserSah, AmbangTetap DEF HitungSah
  <2>6. CASE LatarTurun(i)
    <3>1. UNCHANGED ambangBarang /\ ambangKategori' = Geser(DOMAIN isi, isi, Balik(isi))
      BY <1>1, <2>6 DEF LatarTurun
    <3> QED BY <1>2, <1>4, <3>1, GeserSah, AmbangTetap DEF HitungSah
  <2>7. CASE LatarNaik(i)
    <3>1. UNCHANGED ambangBarang /\ ambangKategori' = Geser(DOMAIN isi, Balik(isi), isi)
      BY <1>1, <2>7 DEF LatarNaik
    <3> QED BY <1>2, <1>4, <3>1, GeserSah, AmbangTetap DEF HitungSah
  <2> QED BY <2>1, <2>2, <2>3, <2>4, <2>5, <2>6, <2>7
<1> QED BY <1>3, <1>7, LatarUbahSah

LEMMA LatarHapusBarangSah ==
    ASSUME TypeInv, NEW i \in DOMAIN latar, LatarHapusBarang(i)
    PROVE  TypeInv'
<1>1. /\ ambangBarang' = [n \in DOMAIN ambangBarang |->
                             IF n \in BarisAmbang(latar[i].barang)
                             THEN [ambangBarang[n] EXCEPT !.ada = FALSE] ELSE ambangBarang[n]]
      /\ ambangKategori' = [k \in DOMAIN ambangKategori |->
                              IF k \in DOMAIN latar[i].isi THEN AmbangKosong ELSE ambangKategori[k]]
      /\ latar' = Sisa(i) /\ UNCHANGED <<barang, kategori, varian, proses, pilihan>>
  BY DEF LatarHapusBarang, Ambil
<1>2. HitungSah'
  BY <1>1, KosongSah DEF HitungSah
<1>3. \A n \in DOMAIN ambangBarang : ambangBarang[n] \in TipeAmbang /\ ambangBarang[n].barang \in 1 .. Len(barang)
  BY Dasar DEF TypeInv, AmbangSah
<1>4. \A n \in DOMAIN ambangBarang : ambangBarang'[n] \in TipeAmbang /\ ambangBarang'[n].barang \in 1 .. Len(barang)
  BY <1>1, <1>3 DEF TipeAmbang
<1>5. PICK f : f = ambangBarang'
  OBVIOUS
<1>6. f = [n \in DOMAIN ambangBarang |-> f[n]] /\ \A n \in DOMAIN ambangBarang : f[n] \in TipeAmbang
  BY <1>1, <1>4, <1>5
<1>7. f \in Seq(TipeAmbang) /\ DOMAIN f = DOMAIN ambangBarang
  <2>1. ambangBarang \in Seq(TipeAmbang)
    BY DEF TypeInv, AmbangSah
  <2> QED BY <1>6, <2>1, SeqUbah
<1>8. AmbangSah'
  BY <1>1, <1>4, <1>5, <1>7 DEF AmbangSah
<1> QED BY <1>1, <1>2, <1>8, LatarUbahSah

LEMMA LatarGagalSah ==
    ASSUME TypeInv, NEW i \in DOMAIN latar, LatarGagal(i)
    PROVE  TypeInv'
<1>1. latar' = Sisa(i) /\ UNCHANGED <<barang, kategori, varian, ambangBarang, ambangKategori, proses, pilihan>>
  BY DEF LatarGagal
<1>2. Tumbuh
  BY <1>1, TumbuhDiam
<1> QED BY <1>1, <1>2, AmbangTetap, HitungTetap, LatarUbahSah

LEMMA PembeliSah ==
    ASSUME TypeInv, NEW q \in Pembeli, PembeliBaca(q) \/ PembeliTahan(q)
    PROVE  TypeInv'
<1>1. CASE PembeliBaca(q)
  <2>1. PICK v \in DOMAIN varian : pilihan' = [pilihan EXCEPT ![q] = v]
    BY <1>1 DEF PembeliBaca
  <2>2. UNCHANGED <<barang, kategori, varian, ambangBarang, ambangKategori, latar, proses>>
    BY <1>1 DEF PembeliBaca
  <2>3. Tumbuh
    BY <2>2, TumbuhDiam
  <2>4. v \in Nat /\ v <= Len(varian)
    BY Dasar
  <2>5. PilihanSah'
    BY <2>1, <2>2, <2>4 DEF TypeInv, PilihanSah
  <2> QED BY <2>2, <2>3, <2>5, LatarTetap, ProsesTetap, TypeSisa
<1>2. CASE PembeliTahan(q)
  <2>1. PICK v, k : v = pilihan[q] /\ k = varian[v].kategori
    OBVIOUS
  <2>2. /\ v # 0 /\ varian' = SetStatus({v}, "Dipesan")
        /\ kategori' = IF kategori[k].stok > 0 /\ kategori[k].ada
                       THEN [kategori EXCEPT ![k].stok = @ - 1] ELSE kategori
        /\ pilihan' = [pilihan EXCEPT ![q] = 0]
        /\ UNCHANGED <<barang, ambangBarang, ambangKategori, latar, proses>>
    BY <1>2, <2>1 DEF PembeliTahan
  <2>3. v \in 1 .. Len(varian) /\ k \in 1 .. Len(kategori)
    <3>1. v \in Nat /\ v <= Len(varian)
      BY <2>1 DEF TypeInv, PilihanSah
    <3>2. v \in 1 .. Len(varian)
      BY <2>2, <3>1, Dasar
    <3> QED BY <2>1, <3>2, Dasar DEF TypeInv, VarianSah
  <2>4. \A c \in DOMAIN kategori : kategori[c] \in TipeRak
    BY Dasar
  <2>5. /\ kategori' = [c \in DOMAIN kategori |-> kategori'[c]]
        /\ \A c \in DOMAIN kategori : kategori'[c] \in TipeRak /\ kategori'[c].barang = kategori[c].barang
    <3>1. CASE kategori[k].stok > 0 /\ kategori[k].ada
      <4>1. PICK n : n = kategori[k].stok - 1
        OBVIOUS
      <4>2. kategori' = [kategori EXCEPT ![k].stok = n]
        BY <2>2, <3>1, <4>1
      <4>3. n \in Nat
        BY <2>3, <2>4, <3>1, <4>1, Dasar DEF TipeRak
      <4>4. ASSUME NEW c \in DOMAIN kategori
            PROVE  kategori'[c] \in TipeRak /\ kategori'[c].barang = kategori[c].barang
        <5>1. CASE c = k
          <6>1. kategori'[c] = [kategori[c] EXCEPT !.stok = n]
            BY <4>2, <5>1
          <6> QED BY <2>4, <4>3, <6>1 DEF TipeRak
        <5>2. CASE c # k
          BY <2>4, <4>2, <5>2
        <5> QED BY <5>1, <5>2
      <4> QED BY <4>2, <4>4
    <3>2. CASE ~(kategori[k].stok > 0 /\ kategori[k].ada)
      <4>1. kategori' = kategori
        BY <2>2, <3>2
      <4>2. kategori = [c \in DOMAIN kategori |-> kategori[c]]
        BY DEF TypeInv, KategoriSah
      <4> QED BY <2>4, <4>1, <4>2
    <3> QED BY <3>1, <3>2
  <2>6. Tumbuh
    BY <2>2, <2>5, StatusTumbuh, TumbuhUbah
  <2>7. KategoriSah' /\ BarangSah' /\ ProsesSah' /\ LatarSah' /\ AmbangSah' /\ HitungSah'
    BY <2>2, <2>5, <2>6, KategoriUbahSah, BarangTetap, ProsesTetap, LatarTetap, AmbangTetap, HitungTetap
  <2>8. VarianSah'
    <3>1. "Dipesan" \in StatusVarian
      BY DEF StatusVarian
    <3> QED BY <2>2, <2>6, <3>1, StatusSah DEF Tumbuh
  <2>9. PilihanSah'
    <3>1. \A c \in Pembeli : pilihan[c] \in Nat /\ pilihan[c] <= Len(varian')
      BY <2>6, Dasar DEF TypeInv, PilihanSah, Tumbuh
    <3>2. 0 \in Nat /\ 0 <= Len(varian')
      BY <2>6 DEF Tumbuh
    <3> QED BY <2>2, <3>1, <3>2 DEF TypeInv, PilihanSah
  <2> QED BY <2>7, <2>8, <2>9 DEF TypeInv
<1> QED BY <1>1, <1>2

LEMMA LangkahSah ==
    ASSUME TypeInv, NEW p \in Proses, Langkah(p)
    PROVE  TypeInv'
<1>1. ASSUME NEW b \in DOMAIN barang, HapusBarangInduk(p, b) PROVE TypeInv'
  BY <1>1, HapusBarangBaca
<1>2. ASSUME NEW b \in DOMAIN barang, NEW s \in StokAwal, TambahKategoriBarang(p, b, s) PROVE TypeInv'
  BY <1>2, TambahBaca
<1>3. ASSUME NEW b \in DOMAIN barang, NEW k \in DOMAIN kategori, SetAsOriginKategoriBarang(p, b, k) PROVE TypeInv'
  BY <1>3, AsalBaca
<1>4. ASSUME NEW k \in DOMAIN kategori, HapusKategoriBarang(p, k) PROVE TypeInv'
  BY <1>4, HapusKategoriBaca
<1>5. ASSUME NEW k \in DOMAIN kategori, NEW n \in StokMasukan, EditStokKategoriBarang(p, k, n) PROVE TypeInv'
  BY <1>5, StokBaca
<1>6. ASSUME NEW k \in DOMAIN kategori, NEW j, DownKategoriBarang(p, k, j) PROVE TypeInv'
  BY <1>6, TurunBaca
<1>7. ASSUME NEW k \in DOMAIN kategori, NEW j, UpKategoriBarang(p, k, j) PROVE TypeInv'
  BY <1>7, NaikBaca
<1>8. ASSUME \/ HapusBarangTulis(p) \/ TambahTulis(p) \/ HapusKategoriTulis(p) \/ AsalTulis(p)
             \/ StokKurang(p) \/ StokTambah(p) \/ DownKategoriTulis(p) \/ UpKategoriTulis(p) \/ Putus(p)
      PROVE  TypeInv'
  BY <1>8, HapusBarangTulisSah, TambahTulisSah, HapusKategoriTulisSah, AsalTulisSah, StokKurangSah,
     StokTambahSah, UnitTulisSah, PutusSah
<1> QED BY <1>1, <1>2, <1>3, <1>4, <1>5, <1>6, <1>7, <1>8 DEF Langkah

LEMMA TypeInvInit == Init => TypeInv
<1> SUFFICES ASSUME Init PROVE TypeInv
  OBVIOUS
<1>1. /\ barang = << >> /\ kategori = << >> /\ varian = << >> /\ ambangBarang = << >> /\ latar = << >>
      /\ ambangKategori = [k \in 1 .. MaxKategori |-> AmbangKosong]
      /\ proses = [p \in Proses |-> ProsesBebas] /\ pilihan = [q \in Pembeli |-> 0]
  BY DEF Init
<1>2. BarangSah /\ AmbangSah /\ LatarSah
  BY <1>1 DEF BarangSah, AmbangSah, LatarSah
<1>3. KategoriSah /\ VarianSah
  BY <1>1, BarangSellerAssumption DEF BarangSellerAssumption, KategoriSah, VarianSah
<1>4. HitungSah
  BY <1>1 DEF HitungSah, AmbangKosong, TipeHitung
<1>5. ProsesSah
  <2>1. PICK r : r = ProsesBebas
    OBVIOUS
  <2>2. /\ r.tahap = "bebas" /\ r.barang = 0 /\ r.kategori = 0
        /\ r \in TipeProses
    BY <2>1 DEF ProsesBebas, TipeProses, TahapProses
  <2>3. Sah(r, Len(barang), Len(kategori), Len(varian))
    BY <1>1, <2>2 DEF Sah
  <2>4. \A p \in Proses : proses[p] = r
    BY <1>1, <2>1
  <2> QED BY <1>1, <2>1, <2>2, <2>3, <2>4 DEF ProsesSah
<1>6. PilihanSah
  BY <1>1 DEF PilihanSah
<1> QED BY <1>2, <1>3, <1>4, <1>5, <1>6 DEF TypeInv

LEMMA TypeInvLangkah == TypeInv /\ [Next]_vars => TypeInv'
<1> SUFFICES ASSUME TypeInv, [Next]_vars PROVE TypeInv'
  OBVIOUS
<1>1. ASSUME NEW isi \in Isi, NEW asal \in DOMAIN isi, MasukanBarangInduk(isi, asal) PROVE TypeInv'
  BY <1>1, MasukanSah
<1>2. CASE MasukanGagal
  BY <1>2, MasukanGagalSah
<1>3. ASSUME NEW b \in DOMAIN barang, DownStokBarangInduk(b) \/ UpBarangInduk(b) PROVE TypeInv'
  BY <1>3, BarangTulisSah
<1>4. ASSUME NEW p \in Proses, Langkah(p) PROVE TypeInv'
  BY <1>4, LangkahSah
<1>5. ASSUME NEW i \in DOMAIN latar, Latar(i) PROVE TypeInv'
  BY <1>5, LatarBuatSah, LatarLainSah, LatarHapusBarangSah, LatarGagalSah DEF Latar
<1>6. ASSUME NEW q \in Pembeli, PembeliBaca(q) \/ PembeliTahan(q) PROVE TypeInv'
  BY <1>6, PembeliSah
<1>7. CASE UNCHANGED vars
  <2>1. UNCHANGED <<barang, kategori, varian, ambangBarang, ambangKategori, latar, proses, pilihan>>
    BY <1>7 DEF vars
  <2>2. Tumbuh
    BY <2>1, TumbuhDiam
  <2> QED BY <2>1, <2>2, LatarTetap, ProsesTetap, PilihanTetap, TypeSisa
<1> QED BY <1>1, <1>2, <1>3, <1>4, <1>5, <1>6, <1>7 DEF Next

LEMMA SeqTipe ==
    ASSUME NEW T, NEW S, NEW s \in Seq(T), \A i \in DOMAIN s : s[i] \in S
    PROVE  s \in Seq(S)
OBVIOUS

LEMMA TypeInvTipe == TypeInv => TypeOK
<1> SUFFICES ASSUME TypeInv PROVE TypeOK
  OBVIOUS
<1>0. /\ DOMAIN barang = 1 .. Len(barang) /\ DOMAIN kategori = 1 .. Len(kategori)
      /\ Len(barang) \in Nat /\ Len(kategori) \in Nat /\ Len(varian) \in Nat
  BY Dasar
<1>1. barang \in Seq([ada : BOOLEAN, asal : 0 .. Len(kategori)])
  <2>1. \A b \in DOMAIN barang : barang[b] \in TipeBarang /\ barang[b].asal <= Len(kategori)
    BY Dasar DEF TypeInv, BarangSah
  <2>2. \A b \in DOMAIN barang : barang[b] \in [ada : BOOLEAN, asal : 0 .. Len(kategori)]
    BY <1>0, <2>1 DEF TipeBarang
  <2>3. barang \in Seq(TipeBarang)
    BY DEF TypeInv, BarangSah
  <2> QED BY <2>2, <2>3, SeqTipe
<1>2. kategori \in Seq([barang : DOMAIN barang, stok : Nat, original : BOOLEAN, ada : BOOLEAN])
  <2>1. \A k \in DOMAIN kategori : kategori[k] \in TipeRak /\ kategori[k].barang \in DOMAIN barang
    BY Dasar DEF TypeInv, KategoriSah
  <2>2. \A k \in DOMAIN kategori : kategori[k] \in [barang : DOMAIN barang, stok : Nat, original : BOOLEAN, ada : BOOLEAN]
    BY <2>1 DEF TipeRak
  <2>3. kategori \in Seq(TipeRak)
    BY DEF TypeInv, KategoriSah
  <2> QED BY <2>2, <2>3, SeqTipe
<1>3. varian \in Seq([kategori : DOMAIN kategori, status : StatusVarian])
  <2>1. \A v \in DOMAIN varian : varian[v] \in TipeUnit /\ varian[v].kategori \in DOMAIN kategori
    BY Dasar DEF TypeInv, VarianSah
  <2>2. \A v \in DOMAIN varian : varian[v] \in [kategori : DOMAIN kategori, status : StatusVarian]
    BY <2>1 DEF TipeUnit
  <2>3. varian \in Seq(TipeUnit)
    BY DEF TypeInv, VarianSah
  <2> QED BY <2>2, <2>3, SeqTipe
<1>4. ambangBarang \in Seq([barang : DOMAIN barang, kategori : Int, varian : Int, ada : BOOLEAN])
  <2>1. \A n \in DOMAIN ambangBarang : ambangBarang[n] \in TipeAmbang /\ ambangBarang[n].barang \in DOMAIN barang
    BY Dasar DEF TypeInv, AmbangSah
  <2>2. \A n \in DOMAIN ambangBarang : ambangBarang[n] \in [barang : DOMAIN barang, kategori : Int, varian : Int, ada : BOOLEAN]
    BY <2>1 DEF TipeAmbang
  <2>3. ambangBarang \in Seq(TipeAmbang)
    BY DEF TypeInv, AmbangSah
  <2> QED BY <2>2, <2>3, SeqTipe
<1>5. ambangKategori \in [1 .. MaxKategori -> [ada : BOOLEAN, down : Int, ready : Int]]
  BY DEF TypeInv, HitungSah, TipeHitung
<1>6. \A i \in DOMAIN latar : latar[i].jenis \in JenisLatar /\ DOMAIN latar[i].isi \subseteq DOMAIN kategori
  <2> TAKE i \in DOMAIN latar
  <2>1. latar[i] \in TipeTugas /\ DOMAIN latar[i].isi \subseteq 1 .. Len(kategori)
    BY Dasar, TugasDasar
  <2> QED BY <1>0, <2>1 DEF TipeTugas
<1>7. proses \in [Proses -> [tahap : TahapProses, barang : 0 .. Len(barang),
                             kategori : 0 .. Len(kategori), jumlah : Nat,
                             pilih : SUBSET (1 .. MaxVarian \cup 1 .. MaxKategori), semua : BOOLEAN]]
  <2>1. ASSUME NEW p \in Proses
        PROVE  proses[p] \in [tahap : TahapProses, barang : 0 .. Len(barang),
                              kategori : 0 .. Len(kategori), jumlah : Nat,
                              pilih : SUBSET (1 .. MaxVarian \cup 1 .. MaxKategori), semua : BOOLEAN]
    <3>1. PICK r : r = proses[p]
      OBVIOUS
    <3>2. r \in TipeProses /\ r.barang <= Len(barang) /\ r.kategori <= Len(kategori)
      BY <3>1 DEF TypeInv, ProsesSah, Sah
    <3>3. r.barang \in 0 .. Len(barang) /\ r.kategori \in 0 .. Len(kategori)
      BY <1>0, <3>2 DEF TipeProses
    <3> QED BY <3>1, <3>2, <3>3 DEF TipeProses
  <2>2. proses \in [Proses -> TipeProses]
    BY DEF TypeInv, ProsesSah
  <2> QED BY <2>1, <2>2
<1>8. pilihan \in [Pembeli -> 0 .. Len(varian)]
  BY <1>0 DEF TypeInv, PilihanSah
<1> QED BY <1>1, <1>2, <1>3, <1>4, <1>5, <1>6, <1>7, <1>8 DEF TypeOK

\* Every table and every local variable of a request holds values of its column's type, and
\* no id points outside its table, whatever requests, goroutines and checkouts overlap
\* (engagement_barang.go).
THEOREM TypeBenar == Spec => []TypeOK
BY TypeInvInit, TypeInvLangkah, TypeInvTipe, PTL DEF Spec

-----------------------------------------------------------------------------
(* An orderly seller: a request begins when nothing of the one before it is *)
(* left, so what a request has read stays true until it writes.             *)

Tunggal ==
    /\ \A p, q \in Proses : proses[p].tahap # "bebas" /\ proses[q].tahap # "bebas" => p = q
    /\ Len(latar) <= 1
    /\ latar # << >> => \A p \in Proses : proses[p].tahap = "bebas"

KategoriHidup == \A p \in Proses : proses[p].tahap = "stok" => KategoriAda(proses[p].kategori)

YatimInv == Tunggal /\ KategoriHidup /\ TanpaYatim

Sepi == latar = << >> /\ \A p \in Proses : proses[p].tahap = "bebas"

\* Request p is the only one, and no goroutine is left.
Sendiri(p) == latar = << >> /\ \A q \in Proses : q # p => proses[q].tahap = "bebas"

LEMMA TenangSepi ==
    ASSUME SellerTertib, Tenang
    PROVE  Sepi
BY DEF Tenang, Sepi

LEMMA TunggalSendiri ==
    ASSUME Tunggal, NEW p \in Proses, proses[p].tahap # "bebas"
    PROVE  Sendiri(p)
<1>1. latar = << >>
  BY DEF Tunggal
<1>2. \A q \in Proses : q # p => proses[q].tahap = "bebas"
  BY DEF Tunggal
<1> QED BY <1>1, <1>2 DEF Sendiri

LEMMA BebasTahap == ProsesBebas.tahap = "bebas"
BY DEF ProsesBebas

LEMMA LepasSepi ==
    ASSUME TypeInv, NEW p \in Proses, Sendiri(p), Lepas(p)
    PROVE  \A q \in Proses : proses'[q].tahap = "bebas"
<1>1. proses \in [Proses -> TipeProses]
  BY DEF TypeInv, ProsesSah
<1>2. proses'[p].tahap = "bebas" /\ \A q \in Proses : q # p => proses'[q] = proses[q]
  BY <1>1, BebasTahap DEF Lepas
<1> QED BY <1>2 DEF Sendiri

LEMMA SatuLatar ==
    ASSUME latar = << >>, NEW jenis, NEW b, NEW isi, Jalankan(jenis, b, isi)
    PROVE  /\ Len(latar') = 1 /\ DOMAIN latar' = {1}
           /\ latar'[1] = [jenis |-> jenis, barang |-> b, isi |-> isi]
<1>1. PICK j : j = [jenis |-> jenis, barang |-> b, isi |-> isi]
  OBVIOUS
<1>2. latar' = Append(<< >>, j)
  BY <1>1 DEF Jalankan
<1>3. latar' = <<j>>
  BY <1>2
<1> QED BY <1>1, <1>3

\* A request that begins, one that writes, and a write without a request.
LEMMA TunggalMulai ==
    ASSUME TypeInv, SellerTertib, NEW p \in Proses, NEW r, Mulai(p, r), UNCHANGED latar
    PROVE  Tunggal' /\ \A q \in Proses : proses'[q].tahap # "bebas" => q = p /\ proses'[q] = r
<1>1. Sepi
  BY TenangSepi DEF Mulai
<1>2. proses \in [Proses -> TipeProses]
  BY DEF TypeInv, ProsesSah
<1>3. \A q \in Proses : proses'[q].tahap # "bebas" => q = p /\ proses'[q] = r
  BY <1>1, <1>2 DEF Mulai, Sepi
<1> QED BY <1>1, <1>3 DEF Tunggal, Sepi

LEMMA TunggalSepi ==
    ASSUME \A q \in Proses : proses'[q].tahap = "bebas", Len(latar') <= 1
    PROVE  Tunggal' /\ KategoriHidup'
BY DEF Tunggal, KategoriHidup

LEMMA TunggalTulis ==
    ASSUME TypeInv, Tunggal, NEW p \in Proses, proses[p].tahap # "bebas", Lepas(p),
           UNCHANGED latar \/ \E jenis, b, isi : Jalankan(jenis, b, isi)
    PROVE  Tunggal' /\ KategoriHidup' /\ Sendiri(p) /\ \A q \in Proses : proses'[q].tahap = "bebas"
<1>1. Sendiri(p)
  BY TunggalSendiri
<1>2. \A q \in Proses : proses'[q].tahap = "bebas"
  BY <1>1, LepasSepi
<1>3. Len(latar') <= 1
  <2>1. CASE UNCHANGED latar
    BY <2>1 DEF Tunggal
  <2>2. CASE \E jenis, b, isi : Jalankan(jenis, b, isi)
    <3>1. Len(latar') = 1
      BY <1>1, <2>2, SatuLatar DEF Sendiri
    <3> QED BY <3>1
  <2> QED BY <2>1, <2>2
<1> QED BY <1>1, <1>2, <1>3, TunggalSepi

-----------------------------------------------------------------------------
(* No unit outlives its category.                                           *)

\* Units that change keep their category, and what is deleted stays deleted.
LEMMA YatimUbah ==
    ASSUME TypeInv, TanpaYatim, DOMAIN kategori \subseteq DOMAIN kategori',
           \A v \in DOMAIN varian' :
              varian'[v].status # "terhapus" =>
                 \/ /\ v \in DOMAIN varian /\ varian'[v].kategori = varian[v].kategori
                    /\ varian[v].status # "terhapus"
                    /\ kategori[varian[v].kategori].ada => kategori'[varian[v].kategori].ada
                 \/ varian'[v].kategori \in DOMAIN kategori' /\ kategori'[varian'[v].kategori].ada
    PROVE  TanpaYatim'
BY DEF TanpaYatim, KategoriAda

LEMMA StatusYatim ==
    ASSUME TypeInv, TanpaYatim, NEW S, NEW s \in StatusVarian, varian' = SetStatus(S, s),
           DOMAIN kategori \subseteq DOMAIN kategori',
           \A v \in DOMAIN varian : varian[v].status # "terhapus" /\ kategori[varian[v].kategori].ada =>
              kategori'[varian[v].kategori].ada \/ (v \in S /\ s = "terhapus")
    PROVE  TanpaYatim'
<1>1. /\ DOMAIN varian' = DOMAIN varian
      /\ \A v \in DOMAIN varian : /\ varian'[v].kategori = varian[v].kategori
                                  /\ varian'[v].status = IF v \in S /\ varian[v].status # "terhapus"
                                                         THEN s ELSE varian[v].status
  BY StatusSah
<1>2. ASSUME NEW v \in DOMAIN varian', varian'[v].status # "terhapus"
      PROVE  /\ v \in DOMAIN varian /\ varian'[v].kategori = varian[v].kategori
             /\ varian[v].status # "terhapus"
             /\ kategori[varian[v].kategori].ada => kategori'[varian[v].kategori].ada
  BY <1>1, <1>2
<1> QED BY <1>2, YatimUbah

\* New units belong to categories that there are.
LEMMA UnitYatim ==
    ASSUME TypeInv, TanpaYatim, NEW u \in Seq(TipeUnit), varian' = varian \o u,
           DOMAIN kategori \subseteq DOMAIN kategori',
           \A k \in DOMAIN kategori : kategori[k].ada => kategori'[k].ada,
           \A i \in 1 .. Len(u) : u[i].kategori \in DOMAIN kategori' /\ kategori'[u[i].kategori].ada
    PROVE  TanpaYatim'
<1>1. varian \in Seq(TipeUnit) /\ DOMAIN varian = 1 .. Len(varian)
  BY Dasar DEF TypeInv, VarianSah
<1>2. /\ DOMAIN varian' = 1 .. Len(varian) + Len(u)
      /\ \A i \in 1 .. Len(varian) : varian'[i] = varian[i]
      /\ \A i \in 1 .. Len(u) : varian'[Len(varian) + i] = u[i]
      /\ \A i \in 1 .. Len(varian) + Len(u) :
            i \in 1 .. Len(varian) \/ \E j \in 1 .. Len(u) : i = Len(varian) + j
  <2>1. PICK w : w = varian \o u
    OBVIOUS
  <2>2. DOMAIN w = 1 .. Len(varian) + Len(u)
    BY <1>1, <2>1, SeqGabung
  <2>3. /\ \A i \in 1 .. Len(varian) : w[i] = varian[i]
        /\ \A i \in 1 .. Len(u) : w[Len(varian) + i] = u[i]
    BY <1>1, <2>1, SeqGabung
  <2>4. \A i \in 1 .. Len(varian) + Len(u) :
            i \in 1 .. Len(varian) \/ \E j \in 1 .. Len(u) : i = Len(varian) + j
    BY <1>1, SeqGabung
  <2> QED BY <2>1, <2>2, <2>3, <2>4
<1>3. \A v \in DOMAIN varian : varian[v].kategori \in DOMAIN kategori
  BY Dasar DEF TypeInv, VarianSah
<1>4. ASSUME NEW v \in DOMAIN varian', varian'[v].status # "terhapus"
      PROVE  \/ /\ v \in DOMAIN varian /\ varian'[v].kategori = varian[v].kategori
                /\ varian[v].status # "terhapus"
                /\ kategori[varian[v].kategori].ada => kategori'[varian[v].kategori].ada
             \/ varian'[v].kategori \in DOMAIN kategori' /\ kategori'[varian'[v].kategori].ada
  <2>1. CASE v \in 1 .. Len(varian)
    BY <1>1, <1>2, <1>3, <1>4, <2>1
  <2>2. CASE \E j \in 1 .. Len(u) : v = Len(varian) + j
    BY <1>2, <2>2
  <2> QED BY <1>2, <2>1, <2>2
<1> QED BY <1>4, YatimUbah

LEMMA YatimDiam ==
    ASSUME TypeInv, TanpaYatim, UNCHANGED varian, DOMAIN kategori \subseteq DOMAIN kategori',
           \A k \in DOMAIN kategori : kategori'[k].ada = kategori[k].ada
    PROVE  TanpaYatim'
<1>1. \A v \in DOMAIN varian : varian[v].kategori \in DOMAIN kategori
  BY Dasar DEF TypeInv, VarianSah
<1> QED BY <1>1 DEF TanpaYatim, KategoriAda

\* A request that begins.
LEMMA YatimMulai ==
    ASSUME TypeInv, YatimInv, SellerTertib, NEW p \in Proses, NEW r, Mulai(p, r),
           UNCHANGED <<kategori, varian, latar>>, r.tahap = "stok" => KategoriAda(r.kategori)
    PROVE  YatimInv'
<1>1. Tunggal' /\ \A q \in Proses : proses'[q].tahap # "bebas" => q = p /\ proses'[q] = r
  BY TunggalMulai
<1>2. KategoriHidup'
  BY <1>1 DEF KategoriHidup, KategoriAda
<1>3. TanpaYatim'
  BY DEF YatimInv, TanpaYatim, KategoriAda
<1> QED BY <1>1, <1>2, <1>3 DEF YatimInv

LEMMA YatimBaca ==
    ASSUME TypeInv, YatimInv, SellerTertib, NEW p \in Proses,
           \/ \E b \in DOMAIN barang : \/ HapusBarangInduk(p, b)
                                       \/ \E s \in StokAwal : TambahKategoriBarang(p, b, s)
                                       \/ \E k \in DOMAIN kategori : SetAsOriginKategoriBarang(p, b, k)
           \/ \E k \in DOMAIN kategori : \/ HapusKategoriBarang(p, k)
                                         \/ \E n \in StokMasukan : EditStokKategoriBarang(p, k, n)
                                         \/ \E j \in Jumlah : \/ DownKategoriBarang(p, k, j)
                                                              \/ UpKategoriBarang(p, k, j)
    PROVE  YatimInv'
<1>1. \E r : /\ Mulai(p, r) /\ UNCHANGED <<kategori, varian, latar>>
             /\ r.tahap = "stok" => KategoriAda(r.kategori)
  <2>1. ASSUME NEW b \in DOMAIN barang, HapusBarangInduk(p, b)
        PROVE  \E r : Mulai(p, r) /\ UNCHANGED <<kategori, varian, latar>> /\ r.tahap # "stok"
    <3>1. PICK n \in DOMAIN ambangBarang : \E K \in Limit(KategoriDari(b), ambangBarang[n].kategori) :
             Mulai(p, [ProsesBebas EXCEPT !.tahap = "hapusBarang", !.barang = b, !.pilih = K])
      BY <2>1 DEF HapusBarangInduk
    <3>2. PICK K : Mulai(p, [ProsesBebas EXCEPT !.tahap = "hapusBarang", !.barang = b, !.pilih = K])
      BY <3>1
    <3>3. [ProsesBebas EXCEPT !.tahap = "hapusBarang", !.barang = b, !.pilih = K].tahap # "stok"
      BY DEF ProsesBebas
    <3>4. UNCHANGED <<kategori, varian, latar>>
      BY <2>1 DEF HapusBarangInduk
    <3> QED BY <3>2, <3>3, <3>4
  <2>2. ASSUME NEW b \in DOMAIN barang, NEW s \in StokAwal, TambahKategoriBarang(p, b, s)
        PROVE  \E r : Mulai(p, r) /\ UNCHANGED <<kategori, varian, latar>> /\ r.tahap # "stok"
    <3>1. [ProsesBebas EXCEPT !.tahap = "tambah", !.barang = b, !.jumlah = s].tahap # "stok"
      BY DEF ProsesBebas
    <3> QED BY <2>2, <3>1 DEF TambahKategoriBarang
  <2>3. ASSUME NEW b \in DOMAIN barang, NEW k \in DOMAIN kategori, SetAsOriginKategoriBarang(p, b, k)
        PROVE  \E r : Mulai(p, r) /\ UNCHANGED <<kategori, varian, latar>> /\ r.tahap # "stok"
    <3>1. [ProsesBebas EXCEPT !.tahap = "asal", !.barang = b, !.kategori = k].tahap # "stok"
      BY DEF ProsesBebas
    <3> QED BY <2>3, <3>1 DEF SetAsOriginKategoriBarang
  <2>4. ASSUME NEW k \in DOMAIN kategori, HapusKategoriBarang(p, k)
        PROVE  \E r : Mulai(p, r) /\ UNCHANGED <<kategori, varian, latar>> /\ r.tahap # "stok"
    <3>1. [ProsesBebas EXCEPT !.tahap = "hapusKategori", !.barang = kategori[k].barang,
                              !.kategori = k, !.jumlah = kategori[k].stok].tahap # "stok"
      BY DEF ProsesBebas
    <3> QED BY <2>4, <3>1 DEF HapusKategoriBarang
  <2>5. ASSUME NEW k \in DOMAIN kategori, NEW n \in StokMasukan, EditStokKategoriBarang(p, k, n)
        PROVE  \E r : Mulai(p, r) /\ UNCHANGED <<kategori, varian, latar>> /\ KategoriAda(r.kategori)
    <3>1. PICK D : Mulai(p, [ProsesBebas EXCEPT !.tahap = "stok", !.barang = kategori[k].barang,
                                                !.kategori = k, !.jumlah = n, !.pilih = D])
      BY <2>5 DEF EditStokKategoriBarang
    <3>2. [ProsesBebas EXCEPT !.tahap = "stok", !.barang = kategori[k].barang,
                              !.kategori = k, !.jumlah = n, !.pilih = D].kategori = k
      BY DEF ProsesBebas
    <3>3. KategoriAda(k) /\ UNCHANGED <<kategori, varian, latar>>
      BY <2>5 DEF EditStokKategoriBarang
    <3> QED BY <3>1, <3>2, <3>3
  <2>6. ASSUME NEW k \in DOMAIN kategori, NEW j \in Jumlah, DownKategoriBarang(p, k, j)
        PROVE  \E r : Mulai(p, r) /\ UNCHANGED <<kategori, varian, latar>> /\ r.tahap # "stok"
    <3>1. PICK S : Mulai(p, [ProsesBebas EXCEPT !.tahap = "turun", !.kategori = k, !.pilih = S, !.semua = (j = 0)])
      BY <2>6 DEF DownKategoriBarang
    <3>2. [ProsesBebas EXCEPT !.tahap = "turun", !.kategori = k, !.pilih = S, !.semua = (j = 0)].tahap # "stok"
      BY DEF ProsesBebas
    <3>3. UNCHANGED <<kategori, varian, latar>>
      BY <2>6 DEF DownKategoriBarang
    <3> QED BY <3>1, <3>2, <3>3
  <2>7. ASSUME NEW k \in DOMAIN kategori, NEW j \in Jumlah, UpKategoriBarang(p, k, j)
        PROVE  \E r : Mulai(p, r) /\ UNCHANGED <<kategori, varian, latar>> /\ r.tahap # "stok"
    <3>1. PICK S : Mulai(p, [ProsesBebas EXCEPT !.tahap = "naik", !.kategori = k, !.pilih = S])
      BY <2>7 DEF UpKategoriBarang
    <3>2. [ProsesBebas EXCEPT !.tahap = "naik", !.kategori = k, !.pilih = S].tahap # "stok"
      BY DEF ProsesBebas
    <3>3. UNCHANGED <<kategori, varian, latar>>
      BY <2>7 DEF UpKategoriBarang
    <3> QED BY <3>1, <3>2, <3>3
  <2> QED BY <2>1, <2>2, <2>3, <2>4, <2>5, <2>6, <2>7, Zenon
<1>2. PICK r : /\ Mulai(p, r) /\ UNCHANGED <<kategori, varian, latar>>
               /\ r.tahap = "stok" => KategoriAda(r.kategori)
  BY <1>1
<1> QED BY <1>2, YatimMulai

\* A request that writes.
LEMMA YatimTulis ==
    ASSUME TypeInv, YatimInv, NEW p \in Proses,
           \/ HapusBarangTulis(p) \/ TambahTulis(p) \/ HapusKategoriTulis(p) \/ AsalTulis(p)
           \/ StokKurang(p) \/ StokTambah(p) \/ DownKategoriTulis(p) \/ UpKategoriTulis(p) \/ Putus(p)
    PROVE  YatimInv'
<1>0. TanpaYatim /\ Tunggal /\ KategoriHidup
  BY DEF YatimInv
<1>1. PICK r : r = proses[p]
  OBVIOUS
<1>3. r \in TipeProses /\ Sah(r, Len(barang), Len(kategori), Len(varian))
  BY <1>1, Dasar DEF TypeInv, ProsesSah
<1>4. Tunggal' /\ KategoriHidup'
  <2>1. proses[p].tahap # "bebas" /\ Lepas(p)
    BY DEF HapusBarangTulis, TambahTulis, HapusKategoriTulis, AsalTulis, StokKurang, StokTambah,
           DownKategoriTulis, UpKategoriTulis, Putus
  <2>2. UNCHANGED latar \/ \E jenis, b, isi : Jalankan(jenis, b, isi)
    BY DEF HapusBarangTulis, TambahTulis, HapusKategoriTulis, AsalTulis, StokKurang, StokTambah,
           DownKategoriTulis, UpKategoriTulis, Putus
  <2> QED BY <1>0, <2>1, <2>2, TunggalTulis
<1>s. "terhapus" \in StatusVarian /\ "Down" \in StatusVarian /\ "Ready" \in StatusVarian
  BY DEF StatusVarian
<1>v. \A v \in DOMAIN varian : varian[v] \in TipeUnit /\ varian[v].status \in StatusVarian /\ varian[v].kategori \in DOMAIN kategori
  BY Dasar DEF TypeInv, VarianSah, TipeUnit
<1>5. TanpaYatim'
  <2>1. CASE HapusBarangTulis(p)
    <3>1. /\ kategori' = [k \in DOMAIN kategori |->
                            IF kategori[k].barang = r.barang
                            THEN [kategori[k] EXCEPT !.ada = FALSE] ELSE kategori[k]]
          /\ varian' = SetStatus(VarianBarangInduk(r.barang), "terhapus")
      BY <1>1, <2>1 DEF HapusBarangTulis
    <3>2. ASSUME NEW v \in DOMAIN varian, kategori[varian[v].kategori].ada
          PROVE  kategori'[varian[v].kategori].ada \/ v \in VarianBarangInduk(r.barang)
      BY <1>v, <3>1, <3>2 DEF VarianBarangInduk
    <3>3. DOMAIN kategori' = DOMAIN kategori
      BY <3>1
    <3> QED BY <1>0, <1>s, <3>1, <3>2, <3>3, StatusYatim
  <2>2. CASE TambahTulis(p)
    <3>k. PICK k : k = Len(kategori) + 1
      OBVIOUS
    <3>b. PICK baris : baris = [barang |-> r.barang, stok |-> r.jumlah, original |-> FALSE, ada |-> TRUE]
      OBVIOUS
    <3>u. PICK u : u = UnitBaru(k, r.jumlah)
      OBVIOUS
    <3>1. r.tahap = "tambah" /\ kategori' = Append(kategori, baris) /\ varian' = varian \o u
      BY <1>1, <2>2, <3>k, <3>b, <3>u DEF TambahTulis
    <3>2. r.barang \in Nat /\ r.jumlah \in Nat /\ k \in Nat
      BY <1>3, <3>k, Dasar DEF TipeProses
    <3>3. u \in Seq(TipeUnit) /\ Len(u) = r.jumlah /\ \A i \in 1 .. r.jumlah : u[i].kategori = k
      BY <3>2, <3>u, UnitBaruSah
    <3>4. baris \in TipeRak /\ baris.ada
      BY <3>2, <3>b DEF TipeRak
    <3>5. /\ DOMAIN kategori' = 1 .. k /\ \A i \in 1 .. Len(kategori) : kategori'[i] = kategori[i]
          /\ kategori'[k] = baris
      BY <3>1, <3>4, <3>k, SeqTambah DEF TypeInv, KategoriSah
    <3>6. DOMAIN kategori = 1 .. Len(kategori) /\ DOMAIN kategori \subseteq 1 .. k /\ k \in 1 .. k
      BY <3>k, Dasar
    <3> QED BY <1>0, <3>1, <3>3, <3>4, <3>5, <3>6, UnitYatim
  <2>3. CASE HapusKategoriTulis(p)
    <3>1. /\ varian' = SetStatus(VarianBerstatus(r.kategori, StatusVarian), "terhapus")
          /\ kategori' = [kategori EXCEPT ![r.kategori].ada = FALSE]
      BY <1>1, <2>3 DEF HapusKategoriTulis
    <3>2. ASSUME NEW v \in DOMAIN varian, kategori[varian[v].kategori].ada
          PROVE  kategori'[varian[v].kategori].ada \/ v \in VarianBerstatus(r.kategori, StatusVarian)
      BY <1>v, <3>1, <3>2 DEF VarianBerstatus
    <3>3. DOMAIN kategori' = DOMAIN kategori
      BY <3>1
    <3> QED BY <1>0, <1>s, <3>1, <3>2, <3>3, StatusYatim
  <2>4. CASE AsalTulis(p)
    <3>1. /\ kategori' = [kategori EXCEPT ![r.kategori].original = @ \/ kategori[r.kategori].ada]
          /\ UNCHANGED varian
      BY <1>1, <2>4 DEF AsalTulis
    <3>2. ASSUME NEW k \in DOMAIN kategori PROVE kategori'[k].ada = kategori[k].ada
      <4>1. kategori[k] \in TipeRak
        BY Dasar
      <4>2. CASE k = r.kategori
        <5>1. PICK a : a = (kategori[k].original \/ kategori[k].ada)
          OBVIOUS
        <5>2. kategori'[k] = [kategori[k] EXCEPT !.original = a]
          BY <3>1, <4>2, <5>1
        <5> QED BY <4>1, <5>2 DEF TipeRak
      <4>3. CASE k # r.kategori
        BY <3>1, <4>3
      <4> QED BY <4>2, <4>3
    <3>3. DOMAIN kategori' = DOMAIN kategori
      BY <3>1
    <3> QED BY <1>0, <3>1, <3>2, <3>3, YatimDiam
  <2>5. CASE StokKurang(p)
    <3>1. PICK S : varian' = SetStatus(S, "terhapus")
      BY <2>5 DEF StokKurang
    <3>2. kategori' = SetStok(r.kategori, r.jumlah) /\ r.jumlah \in Nat
      BY <1>1, <1>3, <2>5 DEF StokKurang, TipeProses
    <3>3. /\ kategori' = [i \in DOMAIN kategori |-> kategori'[i]]
          /\ \A i \in DOMAIN kategori : kategori'[i].ada = kategori[i].ada
      BY <3>2, SetStokSah
    <3>4. DOMAIN kategori' = DOMAIN kategori
      BY <3>3
    <3> QED BY <1>0, <1>s, <1>v, <3>1, <3>3, <3>4, StatusYatim
  <2>6. CASE StokTambah(p)
    <3>s. PICK s : s = r.jumlah - Cardinality(r.pilih)
      OBVIOUS
    <3>u. PICK u : u = UnitBaru(r.kategori, s)
      OBVIOUS
    <3>1. /\ r.tahap = "stok" /\ s > 0 /\ varian' = varian \o u
          /\ kategori' = SetStok(r.kategori, r.jumlah)
      BY <1>1, <2>6, <3>s, <3>u DEF StokTambah
    <3>2. r.jumlah \in Nat /\ s \in Nat /\ r.kategori \in Nat
      <4>1. r.jumlah \in Nat /\ Cardinality(r.pilih) \in Nat /\ r.kategori \in Nat
        BY <1>3, PilihHingga DEF TipeProses
      <4> QED BY <3>s, <3>1, <4>1
    <3>3. u \in Seq(TipeUnit) /\ Len(u) = s /\ \A i \in 1 .. s : u[i].kategori = r.kategori
      BY <3>2, <3>u, UnitBaruSah
    <3>4. /\ kategori' = [i \in DOMAIN kategori |-> kategori'[i]]
          /\ \A i \in DOMAIN kategori : kategori'[i].ada = kategori[i].ada
      BY <3>1, <3>2, SetStokSah
    <3>5. r.kategori \in DOMAIN kategori /\ kategori[r.kategori].ada
      BY <1>0, <1>1, <3>1 DEF KategoriHidup, KategoriAda
    <3>6. DOMAIN kategori' = DOMAIN kategori
      BY <3>4
    <3> QED BY <1>0, <3>1, <3>3, <3>4, <3>5, <3>6, UnitYatim
  <2>7. CASE DownKategoriTulis(p)
    <3>1. varian' = SetStatus(r.pilih, "Down") /\ UNCHANGED kategori
      BY <1>1, <2>7 DEF DownKategoriTulis
    <3> QED BY <1>0, <1>s, <3>1, StatusYatim
  <2>8. CASE UpKategoriTulis(p)
    <3>1. varian' = SetStatus(r.pilih, "Ready") /\ UNCHANGED kategori
      BY <1>1, <2>8 DEF UpKategoriTulis
    <3> QED BY <1>0, <1>s, <3>1, StatusYatim
  <2>9. CASE Putus(p)
    <3>1. UNCHANGED <<kategori, varian>>
      BY <2>9 DEF Putus
    <3> QED BY <1>0, <3>1, YatimDiam
  <2> QED BY <2>1, <2>2, <2>3, <2>4, <2>5, <2>6, <2>7, <2>8, <2>9
<1> QED BY <1>4, <1>5 DEF YatimInv

\* A write without a request leaves one goroutine.
LEMMA TunggalLangsung ==
    ASSUME Sepi, UNCHANGED proses, NEW jenis, NEW b, NEW isi, Jalankan(jenis, b, isi)
    PROVE  Tunggal' /\ KategoriHidup'
<1>1. \A q \in Proses : proses'[q].tahap = "bebas"
  BY DEF Sepi
<1>2. Len(latar') = 1
  BY SatuLatar DEF Sepi
<1>3. Len(latar') <= 1
  BY <1>2
<1> QED BY <1>1, <1>3, TunggalSepi

LEMMA YatimBarang ==
    ASSUME TypeInv, YatimInv, SellerTertib, NEW b \in DOMAIN barang, DownStokBarangInduk(b) \/ UpBarangInduk(b)
    PROVE  YatimInv'
<1>1. Sepi
  BY TenangSepi DEF DownStokBarangInduk, UpBarangInduk
<1>2. \E jenis, isi : Jalankan(jenis, b, isi)
  BY DEF DownStokBarangInduk, UpBarangInduk
<1>3. UNCHANGED <<kategori, proses>> /\ \E S : varian' = SetStatus(S, "Down") \/ varian' = SetStatus(S, "Ready")
  BY DEF DownStokBarangInduk, UpBarangInduk
<1>4. Tunggal' /\ KategoriHidup'
  BY <1>1, <1>2, <1>3, TunggalLangsung
<1>5. TanpaYatim'
  <2>1. "Down" \in StatusVarian /\ "Ready" \in StatusVarian
    BY DEF StatusVarian
  <2>2. PICK S, s : s \in StatusVarian /\ varian' = SetStatus(S, s)
    BY <1>3, <2>1
  <2>3. UNCHANGED kategori /\ TanpaYatim
    BY <1>3 DEF YatimInv
  <2> QED BY <2>2, <2>3, StatusYatim
<1> QED BY <1>4, <1>5 DEF YatimInv

LEMMA YatimMasukan ==
    ASSUME TypeInv, YatimInv, SellerTertib, NEW isi \in Isi, NEW asal \in DOMAIN isi, MasukanBarangInduk(isi, asal)
    PROVE  YatimInv'
<1>b. PICK b : b = Len(barang) + 1
  OBVIOUS
<1>k. PICK k0 : k0 = Len(kategori)
  OBVIOUS
<1>u. PICK u : u = UnitKategori(isi, k0)
  OBVIOUS
<1>n. PICK n : n = Len(isi)
  OBVIOUS
<1>t. PICK t : t = [i \in 1 .. n |-> [barang |-> b, stok |-> isi[i], original |-> i = asal, ada |-> TRUE]]
  OBVIOUS
<1>1. /\ Tenang /\ kategori' = kategori \o t /\ varian' = varian \o u
      /\ UNCHANGED proses
  BY <1>b, <1>k, <1>u, <1>n, <1>t DEF MasukanBarangInduk
<1>j. PICK isiLatar : Jalankan("buat", b, isiLatar)
  BY <1>b DEF MasukanBarangInduk
<1>2. Sepi
  BY <1>1, TenangSepi
<1>3. Tunggal' /\ KategoriHidup'
  BY <1>1, <1>2, <1>j, TunggalLangsung
<1>4. n \in 1 .. 2 /\ (\A i \in 1 .. n : isi[i] \in Nat) /\ k0 \in Nat /\ b \in Nat
  <2>1. n \in 1 .. 2 /\ \A i \in 1 .. n : isi[i] \in Nat
    BY <1>n, IsiDasar
  <2> QED BY <1>k, <1>b, <2>1, Dasar
<1>5. t \in Seq(TipeRak) /\ Len(t) = n /\ \A i \in 1 .. n : t[i].ada
  <2>1. \A i \in 1 .. n : t[i] = [barang |-> b, stok |-> isi[i], original |-> i = asal, ada |-> TRUE]
    BY <1>t
  <2>2. ASSUME NEW i \in 1 .. n PROVE t[i] \in TipeRak /\ t[i].ada
    <3>1. PICK a : a = (i = asal)
      OBVIOUS
    <3>2. t[i] = [barang |-> b, stok |-> isi[i], original |-> a, ada |-> TRUE] /\ a \in BOOLEAN /\ isi[i] \in Nat
      BY <1>4, <2>1, <3>1
    <3> QED BY <1>4, <3>2 DEF TipeRak
  <2>3. t = [i \in 1 .. n |-> t[i]] /\ n \in Nat
    BY <1>t, <1>4
  <2>4. t \in [1 .. n -> TipeRak]
    BY <2>2, <2>3
  <2> QED BY <2>2, <2>3, <2>4
<1>6. /\ DOMAIN kategori' = 1 .. k0 + n
      /\ \A i \in 1 .. k0 : kategori'[i] = kategori[i]
      /\ \A i \in 1 .. n : kategori'[k0 + i] = t[i]
  <2>1. kategori \in Seq(TipeRak) /\ t \in Seq(TipeRak)
    BY <1>5 DEF TypeInv, KategoriSah
  <2>2. PICK w : w = kategori \o t
    OBVIOUS
  <2>3. DOMAIN w = 1 .. Len(kategori) + Len(t)
    BY <2>1, <2>2, SeqGabung
  <2>4. /\ \A i \in 1 .. Len(kategori) : w[i] = kategori[i]
        /\ \A i \in 1 .. Len(t) : w[Len(kategori) + i] = t[i]
    BY <2>1, <2>2, SeqGabung
  <2> QED BY <1>1, <1>5, <1>k, <2>2, <2>3, <2>4, Zenon
<1>7. u \in Seq(TipeUnit) /\ \A i \in 1 .. Len(u) : u[i].kategori \in k0 + 1 .. k0 + n
  <2>1. Diisi(u, isi, k0)
    BY <1>4, <1>u, UnitDiisi
  <2> QED BY <2>1, <1>n DEF Diisi
<1>8. \A k \in k0 + 1 .. k0 + n : k \in DOMAIN kategori' /\ kategori'[k].ada
  <2> TAKE k \in k0 + 1 .. k0 + n
  <2>1. k - k0 \in 1 .. n /\ k = k0 + (k - k0) /\ k \in 1 .. k0 + n
    BY <1>4
  <2>2. kategori'[k] = t[k - k0]
    BY <1>6, <2>1
  <2> QED BY <1>5, <1>6, <2>1, <2>2
<1>9. DOMAIN kategori = 1 .. k0 /\ DOMAIN kategori \subseteq DOMAIN kategori'
  BY <1>k, <1>4, <1>6, Dasar
<1>10. TanpaYatim'
  <2>1. TanpaYatim
    BY DEF YatimInv
  <2> QED BY <1>1, <1>6, <1>7, <1>8, <1>9, <2>1, UnitYatim
<1> QED BY <1>3, <1>10 DEF YatimInv

LEMMA LatarDiam ==
    ASSUME NEW i, Latar(i)
    PROVE  latar' = Sisa(i) /\ UNCHANGED <<barang, kategori, varian, proses, pilihan>>
BY DEF Latar, LatarBuat, LatarTambah, LatarHapusBarang, LatarHapusKategori, LatarStok, LatarTurunBarang,
       LatarNaikBarang, LatarTurun, LatarNaik, LatarGagal, Ambil

LEMMA TunggalLatar ==
    ASSUME TypeInv, Tunggal, NEW i \in DOMAIN latar, Latar(i)
    PROVE  Tunggal' /\ latar' = << >> /\ \A p \in Proses : proses[p].tahap = "bebas"
<1>1. latar' = Sisa(i) /\ UNCHANGED proses
  BY LatarDiam
<1>2. Sisa(i) = << >>
  <2>1. latar \in Seq(TipeTugas) /\ Len(latar) <= 1
    BY DEF TypeInv, LatarSah, Tunggal
  <2> QED BY <2>1, SeqSisa
<1>3. \A p \in Proses : proses[p].tahap = "bebas"
  BY DEF Tunggal
<1> QED BY <1>1, <1>2, <1>3 DEF Tunggal

LEMMA YatimLatar ==
    ASSUME TypeInv, YatimInv, NEW i \in DOMAIN latar, Latar(i)
    PROVE  YatimInv'
<1>1. Tunggal' /\ UNCHANGED <<kategori, varian, proses>>
  BY TunggalLatar, LatarDiam DEF YatimInv
<1>2. TanpaYatim' /\ KategoriHidup'
  BY <1>1 DEF YatimInv, TanpaYatim, KategoriHidup, KategoriAda
<1> QED BY <1>1, <1>2 DEF YatimInv

LEMMA YatimPembeli ==
    ASSUME TypeInv, YatimInv, NEW q \in Pembeli, PembeliBaca(q) \/ PembeliTahan(q)
    PROVE  YatimInv'
<1>1. UNCHANGED <<latar, proses>>
  BY DEF PembeliBaca, PembeliTahan
<1>2. Tunggal'
  BY <1>1 DEF YatimInv, Tunggal
<1>3. /\ kategori' = [k \in DOMAIN kategori |-> kategori'[k]]
      /\ \A k \in DOMAIN kategori : kategori'[k].ada = kategori[k].ada
  <2>1. CASE UNCHANGED kategori
    BY <2>1 DEF TypeInv, KategoriSah
  <2>2. ASSUME NEW k, NEW n, kategori' = [kategori EXCEPT ![k].stok = n]
        PROVE  /\ kategori' = [c \in DOMAIN kategori |-> kategori'[c]]
               /\ \A c \in DOMAIN kategori : kategori'[c].ada = kategori[c].ada
    <3>1. ASSUME NEW c \in DOMAIN kategori PROVE kategori'[c].ada = kategori[c].ada
      <4>1. kategori[c] \in TipeRak
        BY Dasar
      <4>2. CASE c = k
        <5>1. kategori'[c] = [kategori[c] EXCEPT !.stok = n]
          BY <2>2, <4>2
        <5> QED BY <4>1, <5>1 DEF TipeRak
      <4>3. CASE c # k
        BY <2>2, <4>3
      <4> QED BY <4>2, <4>3
    <3> QED BY <2>2, <3>1
  <2>3. UNCHANGED kategori \/ \E k, n : kategori' = [kategori EXCEPT ![k].stok = n]
    BY DEF PembeliBaca, PembeliTahan
  <2> QED BY <2>1, <2>2, <2>3
<1>4. DOMAIN kategori' = DOMAIN kategori
  BY <1>3
<1>5. KategoriHidup'
  BY <1>1, <1>3, <1>4 DEF YatimInv, KategoriHidup, KategoriAda
<1>6. TanpaYatim'
  <2>1. CASE PembeliBaca(q)
    <3>1. UNCHANGED varian
      BY <2>1 DEF PembeliBaca
    <3> QED BY <1>3, <1>4, <3>1, YatimDiam DEF YatimInv
  <2>2. CASE PembeliTahan(q)
    <3>1. varian' = SetStatus({pilihan[q]}, "Dipesan") /\ "Dipesan" \in StatusVarian
      BY <2>2 DEF PembeliTahan, StatusVarian
    <3>2. \A v \in DOMAIN varian : varian[v].kategori \in DOMAIN kategori
      BY Dasar DEF TypeInv, VarianSah
    <3> QED BY <1>3, <1>4, <3>1, <3>2, StatusYatim DEF YatimInv
  <2> QED BY <2>1, <2>2
<1> QED BY <1>2, <1>5, <1>6 DEF YatimInv

LEMMA YatimInit == Init => YatimInv
<1> SUFFICES ASSUME Init PROVE YatimInv
  OBVIOUS
<1>1. varian = << >> /\ latar = << >> /\ \A p \in Proses : proses[p].tahap = "bebas"
  BY BebasTahap DEF Init
<1> QED BY <1>1 DEF YatimInv, Tunggal, KategoriHidup, TanpaYatim

LEMMA YatimLangkah ==
    ASSUME SellerTertib, TypeInv, YatimInv, Next
    PROVE  YatimInv'
<1>1. ASSUME NEW isi \in Isi, NEW asal \in DOMAIN isi, MasukanBarangInduk(isi, asal) PROVE YatimInv'
  BY <1>1, YatimMasukan
<1>2. ~MasukanGagal
  BY DEF MasukanGagal
<1>3. ASSUME NEW b \in DOMAIN barang, DownStokBarangInduk(b) \/ UpBarangInduk(b) PROVE YatimInv'
  BY <1>3, YatimBarang
<1>4. ASSUME NEW p \in Proses, Langkah(p) PROVE YatimInv'
  BY <1>4, YatimBaca, YatimTulis DEF Langkah
<1>5. ASSUME NEW i \in DOMAIN latar, Latar(i) PROVE YatimInv'
  BY <1>5, YatimLatar
<1>6. ASSUME NEW q \in Pembeli, PembeliBaca(q) \/ PembeliTahan(q) PROVE YatimInv'
  BY <1>6, YatimPembeli
<1> QED BY <1>1, <1>2, <1>3, <1>4, <1>5, <1>6 DEF Next

LEMMA YatimDiamVars ==
    ASSUME TypeInv, UNCHANGED vars
    PROVE  TypeInv' /\ (YatimInv => YatimInv')
<1>1. TypeInv'
  BY TypeInvLangkah
<1>2. UNCHANGED <<kategori, varian, latar, proses>>
  BY DEF vars
<1>3. YatimInv => YatimInv'
  BY <1>2 DEF YatimInv, Tunggal, KategoriHidup, TanpaYatim, KategoriAda
<1> QED BY <1>1, <1>3

\* The scenarios of an orderly seller.
YatimSkenario == skenario # "selang" => TypeInv /\ YatimInv

LEMMA YatimSkenarioAwal == InitTiga => YatimSkenario
BY TypeInvInit, YatimInit DEF InitTiga, YatimSkenario

LEMMA YatimSkenarioLangkah ==
    ASSUME SellerTertib, YatimSkenario, [NextTiga]_varsTiga
    PROVE  YatimSkenario'
<1> SUFFICES ASSUME skenario # "selang" PROVE TypeInv' /\ YatimInv'
  <2>1. UNCHANGED skenario
    BY DEF NextTiga, varsTiga
  <2> QED BY <2>1 DEF YatimSkenario
<1>1. TypeInv /\ YatimInv
  BY DEF YatimSkenario
<1>2. CASE UNCHANGED varsTiga
  BY <1>1, <1>2, YatimDiamVars DEF varsTiga
<1>3. CASE NextTiga
  <2>1. Next
    BY <1>3 DEF NextTiga, NextTertib, NextPembeli
  <2> QED BY <1>1, <2>1, TypeInvLangkah, YatimLangkah
<1> QED BY <1>2, <1>3

\* No unit outlives its category or its product, when the seller waits for each answer and
\* its goroutine: what TambahKategoriBarang, HapusKategoriBarang and EditStokKategoriBarang
\* have read is still there when they write, however slow the checkouts beside them are.
THEOREM YatimBenar == SellerTertib => (SpecTiga => []TanpaYatimTertib)
<1> SUFFICES ASSUME SellerTertib PROVE SpecTiga => []TanpaYatimTertib
  OBVIOUS
<1>1. YatimSkenario /\ [NextTiga]_varsTiga => YatimSkenario'
  BY YatimSkenarioLangkah
<1>2. YatimSkenario => TanpaYatimTertib
  BY DEF YatimSkenario, YatimInv, TanpaYatimTertib
<1> QED BY YatimSkenarioAwal, <1>1, <1>2, PTL DEF SpecTiga

-----------------------------------------------------------------------------
(* The orderly seller whose stocks are never set to 0: what a request has   *)
(* read of the units, the stock and the product still holds when it writes. *)

UnitTerbaca(r) ==
    /\ r.tahap = "stok" => r.jumlah # 0
    /\ r.tahap \in {"stok", "naik"} => r.pilih \subseteq VarianBerstatus(r.kategori, {"Down"})
    /\ r.tahap = "turun" => r.pilih \subseteq VarianBerstatus(r.kategori, {"Ready"})
    /\ r.tahap = "hapusBarang" => BarangAda(r.barang) /\ r.pilih \subseteq KategoriDari(r.barang)
    /\ r.tahap = "tambah" => BarangAda(r.barang)
    /\ r.tahap = "hapusKategori" => /\ KategoriAda(r.kategori)
                                    /\ r.barang = kategori[r.kategori].barang
                                    /\ r.jumlah = kategori[r.kategori].stok
    /\ r.tahap = "stok" => KategoriAda(r.kategori) /\ r.barang = kategori[r.kategori].barang

\* A category is of a product that there is.
KategoriBerbarang == \A k \in DOMAIN kategori : kategori[k].ada => BarangAda(kategori[k].barang)

BekalInv == /\ StokTidakLebih /\ KategoriBerbarang
            /\ \A p \in Proses : UnitTerbaca(proses[p])

\* The units of category k that can be sold.

LEMMA HinggaVarian ==
    ASSUME TypeInv, NEW k, NEW S
    PROVE  /\ VarianBerstatus(k, S) \subseteq 1 .. Len(varian)
           /\ IsFiniteSet(VarianBerstatus(k, S)) /\ Cardinality(VarianBerstatus(k, S)) \in Nat
<1>1. VarianBerstatus(k, S) \subseteq 1 .. Len(varian) /\ Len(varian) \in Nat
  BY VarianTipe, Dasar
<1>2. IsFiniteSet(1 .. Len(varian))
  BY <1>1, FS_Interval
<1>3. IsFiniteSet(VarianBerstatus(k, S))
  BY <1>1, <1>2, FS_Subset
<1> QED BY <1>1, <1>3, FS_CardinalityType

LEMMA HinggaKelak ==
    ASSUME VarianSah', NEW k, NEW S
    PROVE  /\ IsFiniteSet(VarianBerstatus(k, S)') /\ Cardinality(VarianBerstatus(k, S)') \in Nat
           /\ \A T \in SUBSET (VarianBerstatus(k, S)') :
                 /\ IsFiniteSet(T) /\ Cardinality(T) \in Nat
                 /\ Cardinality(T) <= Cardinality(VarianBerstatus(k, S)')
<1>1. varian' \in Seq(TipeUnit)
  BY DEF VarianSah
<1>2. Len(varian') \in Nat /\ DOMAIN varian' = 1 .. Len(varian')
  BY <1>1, SeqDasar
<1>3. VarianBerstatus(k, S)' \subseteq 1 .. Len(varian')
  BY <1>2 DEF VarianBerstatus
<1>4. IsFiniteSet(1 .. Len(varian'))
  BY <1>2, FS_Interval
<1>5. IsFiniteSet(VarianBerstatus(k, S)')
  BY <1>3, <1>4, FS_Subset
<1> QED BY <1>5, FS_CardinalityType, FS_Subset

LEMMA LimitUkuran ==
    ASSUME NEW S, IsFiniteSet(S), NEW n \in Nat, NEW T \in Limit(S, n)
    PROVE  /\ T \subseteq S /\ IsFiniteSet(T) /\ Cardinality(T) \in Nat /\ Cardinality(S) \in Nat
           /\ Cardinality(T) = IF Cardinality(S) < n THEN Cardinality(S) ELSE n
           /\ Cardinality(S) <= n => T = S
<1>1. T \subseteq S /\ Cardinality(T) = IF Cardinality(S) < n THEN Cardinality(S) ELSE n
  BY DEF Limit
<1>2. IsFiniteSet(T) /\ (Cardinality(S) = Cardinality(T) => S = T)
  BY <1>1, FS_Subset
<1>3. Cardinality(S) \in Nat /\ Cardinality(T) \in Nat
  BY <1>2, FS_CardinalityType
<1> QED BY <1>1, <1>2, <1>3

-----------------------------------------------------------------------------
(* What a write makes of the units of a category.                           *)

LEMMA StatusHitung ==
    ASSUME TypeInv, NEW S, NEW s \in StatusVarian, varian' = SetStatus(S, s), NEW k
    PROVE  /\ \A X : s \in X =>
                 VarianBerstatus(k, X)' = VarianBerstatus(k, X) \cup
                    {v \in S \cap DOMAIN varian : varian[v].kategori = k /\ varian[v].status # "terhapus"}
           /\ \A X : s \notin X /\ "terhapus" \notin X => VarianBerstatus(k, X)' = VarianBerstatus(k, X) \ S
<1>1. /\ DOMAIN varian' = DOMAIN varian
      /\ \A v \in DOMAIN varian : /\ varian'[v].kategori = varian[v].kategori
                                  /\ varian'[v].status = IF v \in S /\ varian[v].status # "terhapus"
                                                         THEN s ELSE varian[v].status
  BY StatusSah
<1> QED BY <1>1 DEF VarianBerstatus

\* Units of another category stay as they are.
LEMMA StatusLain ==
    ASSUME TypeInv, NEW S, NEW s \in StatusVarian, varian' = SetStatus(S, s), NEW k,
           \A v \in S \cap DOMAIN varian : varian[v].kategori # k
    PROVE  \A X : VarianBerstatus(k, X)' = VarianBerstatus(k, X)
<1>1. /\ DOMAIN varian' = DOMAIN varian
      /\ \A v \in DOMAIN varian : /\ varian'[v].kategori = varian[v].kategori
                                  /\ varian'[v].status = IF v \in S /\ varian[v].status # "terhapus"
                                                         THEN s ELSE varian[v].status
  BY StatusSah
<1> QED BY <1>1 DEF VarianBerstatus

\* The places of the new units u that belong to category k and have a status in X.
Tempat(u, k, X) == {Len(varian) + i : i \in {j \in 1 .. Len(u) : u[j].kategori = k /\ u[j].status \in X}}

LEMMA UnitHitung ==
    ASSUME TypeInv, NEW u \in Seq(TipeUnit), varian' = varian \o u, NEW k, NEW X
    PROVE  VarianBerstatus(k, X)' = VarianBerstatus(k, X) \cup Tempat(u, k, X)
<1>1. varian \in Seq(TipeUnit) /\ DOMAIN varian = 1 .. Len(varian) /\ Len(varian) \in Nat
  BY Dasar DEF TypeInv, VarianSah
<1>2. Len(u) \in Nat
  BY SeqDasar
<1> PICK w : w = varian \o u
  OBVIOUS
<1>3a. DOMAIN w = 1 .. Len(varian) + Len(u)
  BY <1>1, SeqGabung
<1>3b. \A i \in 1 .. Len(varian) : w[i] = varian[i]
  BY <1>1, SeqGabung
<1>3c. \A i \in 1 .. Len(u) : w[Len(varian) + i] = u[i]
  BY <1>1, SeqGabung
<1>3d. \A i \in 1 .. Len(varian) + Len(u) :
         i \in 1 .. Len(varian) \/ \E j \in 1 .. Len(u) : i = Len(varian) + j
  BY <1>1, SeqGabung
<1>3. /\ DOMAIN w = 1 .. Len(varian) + Len(u)
      /\ \A i \in 1 .. Len(varian) : w[i] = varian[i]
      /\ \A i \in 1 .. Len(u) : w[Len(varian) + i] = u[i]
      /\ \A i \in 1 .. Len(varian) + Len(u) :
            i \in 1 .. Len(varian) \/ \E j \in 1 .. Len(u) : i = Len(varian) + j
  BY <1>3a, <1>3b, <1>3c, <1>3d
<1>4. varian' = w
  OBVIOUS
<1> DEFINE N == {j \in 1 .. Len(u) : u[j].kategori = k /\ u[j].status \in X}
<1>5. VarianBerstatus(k, X)' = {v \in DOMAIN w : w[v].kategori = k /\ w[v].status \in X}
  BY <1>4 DEF VarianBerstatus
<1>6. ASSUME NEW v, v \in DOMAIN w, w[v].kategori = k, w[v].status \in X
      PROVE  v \in VarianBerstatus(k, X) \cup {Len(varian) + i : i \in N}
  <2>1. CASE v \in 1 .. Len(varian)
    BY <1>1, <1>3, <1>6, <2>1 DEF VarianBerstatus
  <2>2. CASE \E j \in 1 .. Len(u) : v = Len(varian) + j
    BY <1>3, <1>6, <2>2
  <2> QED BY <1>3, <1>6, <2>1, <2>2
<1>7. ASSUME NEW v \in VarianBerstatus(k, X)
      PROVE  v \in DOMAIN w /\ w[v].kategori = k /\ w[v].status \in X
  <2>1. v \in 1 .. Len(varian) /\ varian[v].kategori = k /\ varian[v].status \in X
    BY <1>1 DEF VarianBerstatus
  <2>2. w[v] = varian[v] /\ v \in 1 .. Len(varian) + Len(u)
    BY <1>1, <1>2, <1>3, <2>1
  <2> QED BY <1>3, <2>1, <2>2
<1>8. ASSUME NEW i \in N
      PROVE  Len(varian) + i \in DOMAIN w /\ w[Len(varian) + i].kategori = k /\ w[Len(varian) + i].status \in X
  <2>1. i \in 1 .. Len(u) /\ Len(varian) + i \in 1 .. Len(varian) + Len(u)
    BY <1>1, <1>2
  <2> QED BY <1>3, <2>1
<1> QED BY <1>5, <1>6, <1>7, <1>8 DEF Tempat

\* The numbers behind m, shifted: as many as there are.
LEMMA GeserUkuran ==
    ASSUME NEW m \in Nat, NEW a \in Nat, NEW n \in Nat
    PROVE  /\ IsFiniteSet({m + i : i \in {j \in 1 .. a + n : j > a}})
           /\ Cardinality({m + i : i \in {j \in 1 .. a + n : j > a}}) = n
<1>1. {m + i : i \in {j \in 1 .. a + n : j > a}} = m + a + 1 .. m + a + n
  <2>1. ASSUME NEW i \in {j \in 1 .. a + n : j > a} PROVE m + i \in m + a + 1 .. m + a + n
    OBVIOUS
  <2>2. ASSUME NEW v \in m + a + 1 .. m + a + n
        PROVE  v - m \in {j \in 1 .. a + n : j > a} /\ v = m + (v - m)
    OBVIOUS
  <2> QED BY <2>1, <2>2
<1>2. IsFiniteSet(m + a + 1 .. m + a + n)
  BY FS_Interval
<1>3. Cardinality(m + a + 1 .. m + a + n) = n
  <2> DEFINE x == m + a + 1  y == m + a + n
  <2>1. x \in Int /\ y \in Int /\ Cardinality(x .. y) = IF x > y THEN 0 ELSE y - x + 1
    <3>1. x \in Int /\ y \in Int
      OBVIOUS
    <3> QED BY <3>1, FS_Interval
  <2> QED BY <2>1
<1> QED BY <1>1, <1>2, <1>3

-----------------------------------------------------------------------------
(* What each write changes, row by row.                                     *)

\* The units of product b that are not deleted.
Hidup(b) == {v \in VarianBarangInduk(b) : varian[v].status # "terhapus"}

BarangTertahan == /\ DOMAIN barang' = DOMAIN barang
                  /\ \A b \in DOMAIN barang : barang'[b].ada = barang[b].ada
KategoriTertahan ==
    /\ DOMAIN kategori' = DOMAIN kategori
    /\ \A k \in DOMAIN kategori : /\ kategori'[k].barang = kategori[k].barang
                                  /\ kategori'[k].ada = kategori[k].ada
StokTertahan == \A k \in DOMAIN kategori : kategori'[k].stok = kategori[k].stok

LEMMA TertahanDiam ==
    ASSUME UNCHANGED <<barang, kategori>>
    PROVE  BarangTertahan /\ KategoriTertahan /\ StokTertahan
BY DEF BarangTertahan, KategoriTertahan, StokTertahan

\* A unit belongs to a category that there is, and it to a product.
LEMMA UnitMilik ==
    ASSUME TypeInv
    PROVE  \A v \in DOMAIN varian : /\ varian[v].kategori \in DOMAIN kategori
                                    /\ varian[v].status \in StatusVarian
                                    /\ kategori[varian[v].kategori].barang \in DOMAIN barang
<1>1. \A v \in DOMAIN varian : varian[v] \in TipeUnit /\ varian[v].kategori \in DOMAIN kategori
  BY Dasar DEF TypeInv, VarianSah
<1>2. \A k \in DOMAIN kategori : kategori[k].barang \in DOMAIN barang
  BY Dasar DEF TypeInv, KategoriSah
<1> QED BY <1>1, <1>2 DEF TipeUnit

BarangTerhapus(r) ==
    /\ r.tahap = "hapusBarang"
    /\ DOMAIN barang' = DOMAIN barang /\ DOMAIN kategori' = DOMAIN kategori
    /\ \A b \in DOMAIN barang : barang'[b].ada = (barang[b].ada /\ b # r.barang)
    /\ \A k \in DOMAIN kategori :
          /\ kategori'[k].barang = kategori[k].barang /\ kategori'[k].stok = kategori[k].stok
          /\ kategori'[k].ada = (kategori[k].ada /\ kategori[k].barang # r.barang)
    /\ \A k \in DOMAIN kategori : kategori[k].barang # r.barang =>
          \A X : VarianBerstatus(k, X)' = VarianBerstatus(k, X)
    /\ \A b : b # r.barang => Hidup(b)' = Hidup(b)
    /\ Jalankan("hapusBarang", r.barang, [k \in r.pilih |-> 0])

LEMMA HapusBarangEfek ==
    ASSUME TypeInv, NEW p \in Proses, HapusBarangTulis(p), NEW r, r = proses[p]
    PROVE  BarangTerhapus(r)
<1>2. /\ r.tahap = "hapusBarang"
      /\ barang' = [barang EXCEPT ![r.barang].ada = FALSE]
      /\ kategori' = [k \in DOMAIN kategori |->
                        IF kategori[k].barang = r.barang
                        THEN [kategori[k] EXCEPT !.ada = FALSE] ELSE kategori[k]]
      /\ varian' = SetStatus(VarianBarangInduk(r.barang), "terhapus")
      /\ Jalankan("hapusBarang", r.barang, [k \in r.pilih |-> 0])
  BY DEF HapusBarangTulis
<1>3. DOMAIN barang' = DOMAIN barang /\ DOMAIN kategori' = DOMAIN kategori
  BY <1>2
<1>4. ASSUME NEW b \in DOMAIN barang PROVE barang'[b].ada = (barang[b].ada /\ b # r.barang)
  <2>1. barang[b] \in TipeBarang
    BY Dasar
  <2>2. CASE b = r.barang
    <3>1. barang'[b] = [barang[b] EXCEPT !.ada = FALSE]
      BY <1>2, <2>2
    <3> QED BY <2>1, <2>2, <3>1 DEF TipeBarang
  <2>3. CASE b # r.barang
    <3>1. barang'[b] = barang[b]
      BY <1>2, <2>3
    <3> QED BY <2>1, <2>3, <3>1 DEF TipeBarang
  <2> QED BY <2>2, <2>3
<1>5. ASSUME NEW k \in DOMAIN kategori
      PROVE  /\ kategori'[k].barang = kategori[k].barang /\ kategori'[k].stok = kategori[k].stok
             /\ kategori'[k].ada = (kategori[k].ada /\ kategori[k].barang # r.barang)
  <2>1. kategori[k] \in TipeRak
    BY Dasar
  <2>2. CASE kategori[k].barang = r.barang
    <3>1. kategori'[k] = [kategori[k] EXCEPT !.ada = FALSE]
      BY <1>2, <2>2
    <3> QED BY <2>1, <2>2, <3>1 DEF TipeRak
  <2>3. CASE kategori[k].barang # r.barang
    <3>1. kategori'[k] = kategori[k]
      BY <1>2, <2>3
    <3> QED BY <2>1, <2>3, <3>1 DEF TipeRak
  <2> QED BY <2>2, <2>3
<1>s. "terhapus" \in StatusVarian
  BY DEF StatusVarian
<1>6. ASSUME NEW k \in DOMAIN kategori, kategori[k].barang # r.barang
      PROVE  \A X : VarianBerstatus(k, X)' = VarianBerstatus(k, X)
  <2>1. \A v \in VarianBarangInduk(r.barang) \cap DOMAIN varian : varian[v].kategori # k
    BY <1>6 DEF VarianBarangInduk
  <2> QED BY <1>2, <1>s, <2>1, StatusLain
<1>7. ASSUME NEW b, b # r.barang PROVE Hidup(b)' = Hidup(b)
  <2>1. /\ DOMAIN varian' = DOMAIN varian
        /\ \A v \in DOMAIN varian :
              /\ varian'[v].kategori = varian[v].kategori
              /\ varian'[v].status = IF v \in VarianBarangInduk(r.barang) /\ varian[v].status # "terhapus"
                                     THEN "terhapus" ELSE varian[v].status
    BY <1>2, <1>s, StatusSah
  <2>2. \A v \in DOMAIN varian : varian[v].kategori \in DOMAIN kategori
    BY UnitMilik
  <2> QED BY <1>5, <1>7, <2>1, <2>2 DEF Hidup, VarianBarangInduk
<1> QED BY <1>2, <1>3, <1>4, <1>5, <1>6, <1>7 DEF BarangTerhapus

KategoriTerhapus(r) ==
    /\ r.tahap = "hapusKategori" /\ BarangTertahan /\ DOMAIN kategori' = DOMAIN kategori
    /\ \A k \in DOMAIN kategori :
          /\ kategori'[k].barang = kategori[k].barang /\ kategori'[k].stok = kategori[k].stok
          /\ kategori'[k].ada = (kategori[k].ada /\ k # r.kategori)
    /\ \A k : k # r.kategori => \A X : VarianBerstatus(k, X)' = VarianBerstatus(k, X)
    /\ \A b : Hidup(b)' = Hidup(b) \ VarianBerstatus(r.kategori, StatusVarian)
    /\ Jalankan("hapusKategori", r.barang, [k \in {r.kategori} |-> r.jumlah])

LEMMA HapusKategoriEfek ==
    ASSUME TypeInv, NEW p \in Proses, HapusKategoriTulis(p), NEW r, r = proses[p]
    PROVE  KategoriTerhapus(r)
<1>2. /\ r.tahap = "hapusKategori"
      /\ varian' = SetStatus(VarianBerstatus(r.kategori, StatusVarian), "terhapus")
      /\ kategori' = [kategori EXCEPT ![r.kategori].ada = FALSE]
      /\ Jalankan("hapusKategori", r.barang, [k \in {r.kategori} |-> r.jumlah])
      /\ UNCHANGED barang
  BY DEF HapusKategoriTulis
<1>3. DOMAIN kategori' = DOMAIN kategori /\ BarangTertahan
  BY <1>2 DEF BarangTertahan
<1>5. ASSUME NEW k \in DOMAIN kategori
      PROVE  /\ kategori'[k].barang = kategori[k].barang /\ kategori'[k].stok = kategori[k].stok
             /\ kategori'[k].ada = (kategori[k].ada /\ k # r.kategori)
  <2>1. kategori[k] \in TipeRak
    BY Dasar
  <2>2. CASE k = r.kategori
    <3>1. kategori'[k] = [kategori[k] EXCEPT !.ada = FALSE]
      BY <1>2, <2>2
    <3> QED BY <2>1, <2>2, <3>1 DEF TipeRak
  <2>3. CASE k # r.kategori
    <3>1. kategori'[k] = kategori[k]
      BY <1>2, <2>3
    <3> QED BY <2>1, <2>3, <3>1 DEF TipeRak
  <2> QED BY <2>2, <2>3
<1>s. "terhapus" \in StatusVarian
  BY DEF StatusVarian
<1>6. ASSUME NEW k, k # r.kategori
      PROVE  \A X : VarianBerstatus(k, X)' = VarianBerstatus(k, X)
  <2>1. \A v \in VarianBerstatus(r.kategori, StatusVarian) \cap DOMAIN varian : varian[v].kategori # k
    BY <1>6 DEF VarianBerstatus
  <2> QED BY <1>2, <1>s, <2>1, StatusLain
<1>7. ASSUME NEW b PROVE Hidup(b)' = Hidup(b) \ VarianBerstatus(r.kategori, StatusVarian)
  <2>1. /\ DOMAIN varian' = DOMAIN varian
        /\ \A v \in DOMAIN varian :
              /\ varian'[v].kategori = varian[v].kategori
              /\ varian'[v].status = IF v \in VarianBerstatus(r.kategori, StatusVarian) /\ varian[v].status # "terhapus"
                                     THEN "terhapus" ELSE varian[v].status
    BY <1>2, <1>s, StatusSah
  <2>2. \A v \in DOMAIN varian : varian[v].kategori \in DOMAIN kategori
    BY UnitMilik
  <2> QED BY <1>5, <2>1, <2>2 DEF Hidup, VarianBarangInduk
<1> QED BY <1>2, <1>3, <1>5, <1>6, <1>7 DEF KategoriTerhapus

LEMMA AsalEfek ==
    ASSUME TypeInv, NEW p \in Proses, AsalTulis(p)
    PROVE  /\ BarangTertahan /\ KategoriTertahan /\ StokTertahan /\ UNCHANGED <<varian, latar>>
<1>1. PICK r : r = proses[p]
  OBVIOUS
<1>2. /\ barang' = [barang EXCEPT ![r.barang].asal = IF barang[r.barang].ada THEN r.kategori ELSE @]
      /\ kategori' = [kategori EXCEPT ![r.kategori].original = @ \/ kategori[r.kategori].ada]
      /\ UNCHANGED <<varian, latar>>
  BY <1>1 DEF AsalTulis
<1>3. ASSUME NEW b \in DOMAIN barang PROVE barang'[b].ada = barang[b].ada
  <2>1. barang[b] \in TipeBarang
    BY Dasar
  <2>2. CASE b = r.barang
    <3>1. PICK a : a = IF barang[b].ada THEN r.kategori ELSE barang[b].asal
      OBVIOUS
    <3>2. barang'[b] = [barang[b] EXCEPT !.asal = a]
      BY <1>2, <2>2, <3>1
    <3> QED BY <2>1, <3>2 DEF TipeBarang
  <2>3. CASE b # r.barang
    BY <1>2, <2>3
  <2> QED BY <2>2, <2>3
<1>4. ASSUME NEW k \in DOMAIN kategori
      PROVE  /\ kategori'[k].barang = kategori[k].barang /\ kategori'[k].stok = kategori[k].stok
             /\ kategori'[k].ada = kategori[k].ada
  <2>1. kategori[k] \in TipeRak
    BY Dasar
  <2>2. CASE k = r.kategori
    <3>1. PICK a : a = (kategori[k].original \/ kategori[k].ada)
      OBVIOUS
    <3>2. kategori'[k] = [kategori[k] EXCEPT !.original = a]
      BY <1>2, <2>2, <3>1
    <3> QED BY <2>1, <3>2 DEF TipeRak
  <2>3. CASE k # r.kategori
    BY <1>2, <2>3
  <2> QED BY <2>2, <2>3
<1>5. DOMAIN barang' = DOMAIN barang /\ DOMAIN kategori' = DOMAIN kategori
  BY <1>2
<1> QED BY <1>2, <1>3, <1>4, <1>5 DEF BarangTertahan, KategoriTertahan, StokTertahan

LEMMA SetStokEfek ==
    ASSUME TypeInv, NEW k, NEW n \in Nat, kategori' = SetStok(k, n)
    PROVE  /\ KategoriTertahan
           /\ \A i \in DOMAIN kategori :
                 kategori'[i].stok = IF i = k /\ n # 0 /\ kategori[k].ada THEN n ELSE kategori[i].stok
<1>1. KategoriTertahan
  BY SetStokSah DEF KategoriTertahan
<1>2. ASSUME NEW i \in DOMAIN kategori
      PROVE  kategori'[i].stok = IF i = k /\ n # 0 /\ kategori[k].ada THEN n ELSE kategori[i].stok
  <2>1. kategori[i] \in TipeRak
    BY Dasar
  <2>2. CASE i = k /\ n # 0 /\ kategori[k].ada
    <3>1. kategori'[i] = [kategori[i] EXCEPT !.stok = n]
      BY <2>2 DEF SetStok, KategoriAda
    <3> QED BY <2>1, <2>2, <3>1 DEF TipeRak
  <2>3. CASE i # k
    <3>1. kategori'[i] = kategori[i]
      BY <2>3 DEF SetStok
    <3> QED BY <2>3, <3>1
  <2>4. CASE n = 0 \/ ~kategori[k].ada
    <3>1. kategori' = kategori
      BY <2>4 DEF SetStok, KategoriAda
    <3> QED BY <2>4, <3>1
  <2> QED BY <2>2, <2>3, <2>4
<1> QED BY <1>1, <1>2

LEMMA StatusHidup ==
    ASSUME TypeInv, KategoriTertahan, NEW S, NEW s \in StatusVarian, varian' = SetStatus(S, s)
    PROVE  \A b : Hidup(b)' = IF s = "terhapus" THEN Hidup(b) \ S ELSE Hidup(b)
<1>1. /\ DOMAIN varian' = DOMAIN varian
      /\ \A v \in DOMAIN varian : /\ varian'[v].kategori = varian[v].kategori
                                  /\ varian'[v].status = IF v \in S /\ varian[v].status # "terhapus"
                                                         THEN s ELSE varian[v].status
  BY StatusSah
<1>2. \A v \in DOMAIN varian : kategori'[varian[v].kategori].barang = kategori[varian[v].kategori].barang
  BY UnitMilik DEF KategoriTertahan
<1>3. \A b : VarianBarangInduk(b)' = VarianBarangInduk(b)
  BY <1>1, <1>2 DEF VarianBarangInduk
<1>4. \A b : VarianBarangInduk(b) \subseteq DOMAIN varian
  BY DEF VarianBarangInduk
<1>5. CASE s = "terhapus"
  <2>1. \A v \in DOMAIN varian : varian'[v].status # "terhapus" <=> (varian[v].status # "terhapus" /\ v \notin S)
    BY <1>1, <1>5
  <2> QED BY <1>3, <1>4, <1>5, <2>1 DEF Hidup
<1>6. CASE s # "terhapus"
  <2>1. \A v \in DOMAIN varian : varian'[v].status # "terhapus" <=> varian[v].status # "terhapus"
    BY <1>1, <1>6
  <2> QED BY <1>3, <1>4, <1>6, <2>1 DEF Hidup
<1> QED BY <1>5, <1>6

\* The places of the new units u that belong to product b.
TempatBarang(u, b) == {Len(varian) + i : i \in {j \in 1 .. Len(u) : kategori'[u[j].kategori].barang = b}}

\* New units, all Down, behind the others.
LEMMA UnitHidup ==
    ASSUME TypeInv, NEW u \in Seq(TipeUnit), varian' = varian \o u,
           \A k \in DOMAIN kategori : kategori'[k].barang = kategori[k].barang,
           \A i \in 1 .. Len(u) : u[i].status = "Down", NEW b
    PROVE  Hidup(b)' = Hidup(b) \cup TempatBarang(u, b)
<1>1. varian \in Seq(TipeUnit) /\ DOMAIN varian = 1 .. Len(varian) /\ Len(varian) \in Nat
  BY Dasar DEF TypeInv, VarianSah
<1>2. Len(u) \in Nat
  BY SeqDasar
<1> PICK w : w = varian \o u
  OBVIOUS
<1>3a. DOMAIN w = 1 .. Len(varian) + Len(u)
  BY <1>1, SeqGabung
<1>3b. \A i \in 1 .. Len(varian) : w[i] = varian[i]
  BY <1>1, SeqGabung
<1>3c. \A i \in 1 .. Len(u) : w[Len(varian) + i] = u[i]
  BY <1>1, SeqGabung
<1>3d. \A i \in 1 .. Len(varian) + Len(u) :
         i \in 1 .. Len(varian) \/ \E j \in 1 .. Len(u) : i = Len(varian) + j
  BY <1>1, SeqGabung
<1> DEFINE N == {j \in 1 .. Len(u) : kategori'[u[j].kategori].barang = b}
<1>5. Hidup(b)' = {v \in DOMAIN w : kategori'[w[v].kategori].barang = b /\ w[v].status # "terhapus"}
  <2>1. varian' = w
    OBVIOUS
  <2> QED BY <2>1 DEF Hidup, VarianBarangInduk
<1>4. \A v \in DOMAIN varian : kategori'[varian[v].kategori].barang = kategori[varian[v].kategori].barang
  BY UnitMilik
<1>6. ASSUME NEW v, v \in DOMAIN w, kategori'[w[v].kategori].barang = b, w[v].status # "terhapus"
      PROVE  v \in Hidup(b) \cup {Len(varian) + i : i \in N}
  <2>1. CASE v \in 1 .. Len(varian)
    BY <1>1, <1>3b, <1>4, <1>6, <2>1 DEF Hidup, VarianBarangInduk
  <2>2. CASE \E j \in 1 .. Len(u) : v = Len(varian) + j
    BY <1>3c, <1>6, <2>2
  <2> QED BY <1>3a, <1>3d, <1>6, <2>1, <2>2
<1>7. ASSUME NEW v \in Hidup(b)
      PROVE  v \in DOMAIN w /\ kategori'[w[v].kategori].barang = b /\ w[v].status # "terhapus"
  <2>1. v \in 1 .. Len(varian) /\ kategori[varian[v].kategori].barang = b /\ varian[v].status # "terhapus"
    BY <1>1 DEF Hidup, VarianBarangInduk
  <2>2. w[v] = varian[v] /\ v \in 1 .. Len(varian) + Len(u)
    BY <1>1, <1>2, <1>3b, <2>1
  <2> QED BY <1>1, <1>3a, <1>4, <2>1, <2>2
<1>8. ASSUME NEW i \in N
      PROVE  /\ Len(varian) + i \in DOMAIN w
             /\ kategori'[w[Len(varian) + i].kategori].barang = b /\ w[Len(varian) + i].status # "terhapus"
  <2>1. i \in 1 .. Len(u) /\ Len(varian) + i \in 1 .. Len(varian) + Len(u)
    BY <1>1, <1>2
  <2>2. w[Len(varian) + i] = u[i]
    BY <1>3c, <2>1
  <2>3. kategori'[u[i].kategori].barang = b
    OBVIOUS
  <2>4. u[i].status # "terhapus"
    BY <2>1
  <2>5. Len(varian) + i \in DOMAIN w
    BY <1>3a, <2>1
  <2>6. kategori'[w[Len(varian) + i].kategori].barang = b
    BY <2>2, <2>3, Zenon
  <2>7. w[Len(varian) + i].status # "terhapus"
    BY <2>2, <2>4, Zenon
  <2> QED BY <2>5, <2>6, <2>7, Zenon
<1> DEFINE T == {Len(varian) + i : i \in N}
<1>9. Hidup(b)' \subseteq Hidup(b) \cup T
  BY <1>5, <1>6
<1>10. Hidup(b) \subseteq Hidup(b)'
  BY <1>5, <1>7
<1>11. T \subseteq Hidup(b)'
  <2>1. ASSUME NEW i \in N PROVE Len(varian) + i \in Hidup(b)'
    BY <1>5, <1>8
  <2> QED BY <2>1
<1> QED BY <1>9, <1>10, <1>11 DEF TempatBarang

StokDikurangi(r) ==
    /\ r.tahap = "stok" /\ r \in TipeProses /\ UNCHANGED barang
    /\ Cardinality(r.pilih) \in Nat /\ r.jumlah \in Nat /\ r.jumlah < Cardinality(r.pilih)
    /\ KategoriTertahan
    /\ \A i \in DOMAIN kategori : kategori'[i].stok =
          IF i = r.kategori /\ r.jumlah # 0 /\ kategori[r.kategori].ada THEN r.jumlah ELSE kategori[i].stok
    /\ \E S \in SUBSET r.pilih : /\ varian' = SetStatus(S, "terhapus") /\ IsFiniteSet(S)
                                 /\ Cardinality(S) = Cardinality(r.pilih) - r.jumlah
    /\ Jalankan("stok", r.barang, [k \in {r.kategori} |-> -(Cardinality(r.pilih) - r.jumlah)])

LEMMA StokKurangEfek ==
    ASSUME TypeInv, NEW p \in Proses, StokKurang(p), NEW r, r = proses[p]
    PROVE  StokDikurangi(r)
<1>2. /\ r.tahap = "stok" /\ Cardinality(r.pilih) - r.jumlah > 0
      /\ \E S \in Limit(r.pilih, Cardinality(r.pilih) - r.jumlah) : varian' = SetStatus(S, "terhapus")
      /\ kategori' = SetStok(r.kategori, r.jumlah)
      /\ Jalankan("stok", r.barang, [k \in {r.kategori} |-> -(Cardinality(r.pilih) - r.jumlah)])
      /\ UNCHANGED barang
  BY DEF StokKurang
<1>3. r \in TipeProses
  BY Dasar
<1>4. r.jumlah \in Nat /\ Cardinality(r.pilih) \in Nat /\ IsFiniteSet(r.pilih)
  BY <1>3, PilihHingga DEF TipeProses
<1> PICK s : s = Cardinality(r.pilih) - r.jumlah
  OBVIOUS
<1>5. s \in Nat /\ s <= Cardinality(r.pilih) /\ r.jumlah < Cardinality(r.pilih)
  BY <1>2, <1>4
<1>6. PICK S \in Limit(r.pilih, s) : varian' = SetStatus(S, "terhapus")
  BY <1>2
<1>7. S \subseteq r.pilih /\ IsFiniteSet(S) /\ Cardinality(S) = s
  BY <1>4, <1>5, LimitUkuran
<1>8. /\ KategoriTertahan
      /\ \A i \in DOMAIN kategori : kategori'[i].stok =
            IF i = r.kategori /\ r.jumlah # 0 /\ kategori[r.kategori].ada THEN r.jumlah ELSE kategori[i].stok
  BY <1>2, <1>4, SetStokEfek
<1> QED BY <1>2, <1>3, <1>4, <1>5, <1>6, <1>7, <1>8 DEF StokDikurangi

\* s new units of category k.
Unit(u, k, s) == /\ u \in Seq(TipeUnit) /\ Len(u) = s /\ s \in Nat
                 /\ \A i \in 1 .. s : u[i].kategori = k /\ u[i].status = "Down"

StokDitambah(r) ==
    /\ r.tahap = "stok" /\ r \in TipeProses /\ UNCHANGED barang
    /\ Cardinality(r.pilih) \in Nat /\ r.jumlah \in Nat /\ r.jumlah > Cardinality(r.pilih)
    /\ KategoriTertahan
    /\ \A i \in DOMAIN kategori : kategori'[i].stok =
          IF i = r.kategori /\ r.jumlah # 0 /\ kategori[r.kategori].ada THEN r.jumlah ELSE kategori[i].stok
    /\ \E u : varian' = varian \o u /\ Unit(u, r.kategori, r.jumlah - Cardinality(r.pilih))
    /\ Jalankan("stok", r.barang, [k \in {r.kategori} |-> r.jumlah - Cardinality(r.pilih)])

LEMMA StokTambahEfek ==
    ASSUME TypeInv, NEW p \in Proses, StokTambah(p), NEW r, r = proses[p]
    PROVE  StokDitambah(r)
<1> PICK s : s = r.jumlah - Cardinality(r.pilih)
  OBVIOUS
<1>2. /\ r.tahap = "stok" /\ s > 0
      /\ varian' = varian \o UnitBaru(r.kategori, s)
      /\ kategori' = SetStok(r.kategori, r.jumlah)
      /\ Jalankan("stok", r.barang, [k \in {r.kategori} |-> s])
      /\ UNCHANGED barang
  BY DEF StokTambah
<1>3. r \in TipeProses
  BY Dasar
<1>4. r.jumlah \in Nat /\ Cardinality(r.pilih) \in Nat /\ r.kategori \in Nat
  BY <1>3, PilihHingga DEF TipeProses
<1>5. s \in Nat /\ r.jumlah > Cardinality(r.pilih)
  BY <1>2, <1>4
<1>6. Unit(UnitBaru(r.kategori, s), r.kategori, s)
  BY <1>4, <1>5, UnitBaruSah DEF Unit
<1>8. /\ KategoriTertahan
      /\ \A i \in DOMAIN kategori : kategori'[i].stok =
            IF i = r.kategori /\ r.jumlah # 0 /\ kategori[r.kategori].ada THEN r.jumlah ELSE kategori[i].stok
  BY <1>2, <1>4, SetStokEfek
<1> QED BY <1>2, <1>3, <1>4, <1>5, <1>6, <1>8 DEF StokDitambah

\* Category k, a new one, of product b and with a stock of s.
KategoriBaru(k, b, s) == /\ kategori'[k].barang = b /\ kategori'[k].stok = s /\ kategori'[k].ada

KategoriDitambah(r, k) ==
    /\ r.tahap = "tambah" /\ r \in TipeProses /\ r.jumlah \in Nat /\ UNCHANGED barang
    /\ k \in Nat /\ DOMAIN kategori' = DOMAIN kategori \cup {k} /\ k \notin DOMAIN kategori
    /\ \A i \in DOMAIN kategori : kategori'[i] = kategori[i]
    /\ KategoriBaru(k, r.barang, r.jumlah)
    /\ \E u : varian' = varian \o u /\ Unit(u, k, r.jumlah)
    /\ Jalankan("tambah", r.barang, [j \in {k} |-> r.jumlah])

LEMMA TambahEfek ==
    ASSUME TypeInv, NEW p \in Proses, TambahTulis(p), NEW r, r = proses[p], NEW k, k = Len(kategori) + 1
    PROVE  KategoriDitambah(r, k)
<1>b. PICK baris : baris = [barang |-> r.barang, stok |-> r.jumlah, original |-> FALSE, ada |-> TRUE]
  OBVIOUS
<1>2. /\ r.tahap = "tambah" /\ kategori' = Append(kategori, baris)
      /\ varian' = varian \o UnitBaru(k, r.jumlah)
      /\ Jalankan("tambah", r.barang, [j \in {k} |-> r.jumlah])
      /\ UNCHANGED barang
  BY <1>b DEF TambahTulis
<1>3. r \in TipeProses
  BY Dasar
<1>4. r.jumlah \in Nat /\ r.barang \in Nat /\ k \in Nat
  BY <1>3, Dasar DEF TipeProses
<1>5. baris \in TipeRak
  BY <1>4, <1>b DEF TipeRak
<1>6. /\ DOMAIN kategori' = 1 .. k
      /\ \A i \in 1 .. Len(kategori) : kategori'[i] = kategori[i]
      /\ kategori'[k] = baris
  BY <1>2, <1>5, SeqTambah DEF TypeInv, KategoriSah
<1>7. 1 .. k = DOMAIN kategori \cup {k} /\ k \notin DOMAIN kategori /\ DOMAIN kategori = 1 .. Len(kategori)
  BY Dasar
<1>8. Unit(UnitBaru(k, r.jumlah), k, r.jumlah)
  BY <1>4, UnitBaruSah DEF Unit
<1>9. KategoriBaru(k, r.barang, r.jumlah)
  BY <1>b, <1>6 DEF KategoriBaru
<1>10. \A i \in DOMAIN kategori : kategori'[i] = kategori[i]
  BY <1>6, <1>7
<1> QED BY <1>2, <1>3, <1>4, <1>6, <1>7, <1>8, <1>9, <1>10 DEF KategoriDitambah

\* DownKategoriBarang and UpKategoriBarang.
LEMMA UnitEfek ==
    ASSUME TypeInv, NEW p \in Proses, DownKategoriTulis(p) \/ UpKategoriTulis(p), NEW r, r = proses[p]
    PROVE  /\ r \in TipeProses /\ UNCHANGED <<barang, kategori>>
           /\ \/ /\ r.tahap = "turun" /\ varian' = SetStatus(r.pilih, "Down")
                 /\ Jalankan("turun", 0, [k \in {r.kategori} |-> Cardinality(r.pilih)])
              \/ /\ r.tahap = "naik" /\ varian' = SetStatus(r.pilih, "Ready")
                 /\ Jalankan("naik", 0, [k \in {r.kategori} |-> Cardinality(r.pilih)])
<1>1. r \in TipeProses
  BY Dasar
<1> QED BY <1>1 DEF DownKategoriTulis, UpKategoriTulis

BarangDimasukkan(isi, b, k0, n) ==
    /\ Tenang /\ UNCHANGED proses /\ n \in 1 .. 2 /\ k0 \in Nat /\ \A i \in 1 .. n : isi[i] \in Nat
    /\ DOMAIN barang' = DOMAIN barang \cup {b} /\ b \notin DOMAIN barang
    /\ \A c \in DOMAIN barang : barang'[c].ada = barang[c].ada
    /\ barang'[b].ada
    /\ DOMAIN kategori' = DOMAIN kategori \cup (k0 + 1 .. k0 + n) /\ DOMAIN kategori = 1 .. k0
    /\ \A i \in DOMAIN kategori : kategori'[i] = kategori[i]
    /\ \A i \in 1 .. n : KategoriBaru(k0 + i, b, isi[i])
    /\ \E u : varian' = varian \o u /\ Diisi(u, isi, k0)
    /\ Jalankan("buat", b, [k \in k0 + 1 .. k0 + n |-> isi[k - k0]])

LEMMA MasukanEfek ==
    ASSUME TypeInv, NEW isi \in Isi, NEW asal \in DOMAIN isi, MasukanBarangInduk(isi, asal),
           NEW b, b = Len(barang) + 1, NEW k0, k0 = Len(kategori), NEW n, n = Len(isi)
    PROVE  BarangDimasukkan(isi, b, k0, n)
<1>t. PICK t : t = [i \in 1 .. n |-> [barang |-> b, stok |-> isi[i], original |-> i = asal, ada |-> TRUE]]
  OBVIOUS
<1>w. PICK baris : baris = [ada |-> TRUE, asal |-> k0 + asal]
  OBVIOUS
<1>1. /\ Tenang /\ UNCHANGED proses /\ barang' = Append(barang, baris) /\ kategori' = kategori \o t
      /\ varian' = varian \o UnitKategori(isi, k0)
      /\ Jalankan("buat", b, [k \in k0 + 1 .. k0 + n |-> isi[k - k0]])
  BY <1>t, <1>w DEF MasukanBarangInduk
<1>2. n \in 1 .. 2 /\ (\A i \in 1 .. n : isi[i] \in Nat) /\ k0 \in Nat /\ b \in Nat /\ asal \in Nat
  <2>1. n \in 1 .. 2 /\ (\A i \in 1 .. n : isi[i] \in Nat) /\ DOMAIN isi = 1 .. n
    BY IsiDasar
  <2>2. asal \in 1 .. n
    BY <2>1
  <2> QED BY <2>1, <2>2, Dasar
<1>3. Diisi(UnitKategori(isi, k0), isi, k0)
  BY <1>2, UnitDiisi
<1>4. t \in Seq(TipeRak) /\ Len(t) = n
      /\ \A i \in 1 .. n : t[i].ada /\ t[i].barang = b /\ t[i].stok = isi[i]
  <2>1. \A i \in 1 .. n : t[i] = [barang |-> b, stok |-> isi[i], original |-> i = asal, ada |-> TRUE]
    BY <1>t
  <2>2. ASSUME NEW i \in 1 .. n PROVE t[i] \in TipeRak /\ t[i].ada /\ t[i].barang = b /\ t[i].stok = isi[i]
    <3>1. PICK a : a = (i = asal)
      OBVIOUS
    <3>2. t[i] = [barang |-> b, stok |-> isi[i], original |-> a, ada |-> TRUE] /\ a \in BOOLEAN /\ isi[i] \in Nat
      BY <1>2, <2>1, <3>1
    <3> QED BY <1>2, <3>2 DEF TipeRak
  <2>3. t = [i \in 1 .. n |-> t[i]] /\ n \in Nat
    BY <1>t, <1>2
  <2>4. t \in [1 .. n -> TipeRak]
    BY <2>2, <2>3
  <2> QED BY <2>2, <2>3, <2>4
<1>5. /\ DOMAIN kategori' = 1 .. k0 + n
      /\ \A i \in 1 .. k0 : kategori'[i] = kategori[i]
      /\ \A i \in 1 .. n : kategori'[k0 + i] = t[i]
  <2>1. kategori \in Seq(TipeRak) /\ t \in Seq(TipeRak)
    BY <1>4 DEF TypeInv, KategoriSah
  <2>2. PICK w : w = kategori \o t
    OBVIOUS
  <2>3. DOMAIN w = 1 .. Len(kategori) + Len(t)
    BY <2>1, <2>2, SeqGabung
  <2>4. /\ \A i \in 1 .. Len(kategori) : w[i] = kategori[i]
        /\ \A i \in 1 .. Len(t) : w[Len(kategori) + i] = t[i]
    BY <2>1, <2>2, SeqGabung
  <2> QED BY <1>1, <1>4, <2>2, <2>3, <2>4, Zenon
<1>6. DOMAIN kategori = 1 .. k0 /\ DOMAIN kategori' = DOMAIN kategori \cup (k0 + 1 .. k0 + n)
  <2>1. DOMAIN kategori = 1 .. k0
    BY Dasar
  <2>2. 1 .. k0 + n = 1 .. k0 \cup (k0 + 1 .. k0 + n)
    BY <1>2
  <2> QED BY <1>5, <2>1, <2>2
<1>7. \A i \in 1 .. n : KategoriBaru(k0 + i, b, isi[i])
  BY <1>4, <1>5 DEF KategoriBaru
<1>8. /\ DOMAIN barang' = DOMAIN barang \cup {b} /\ b \notin DOMAIN barang
      /\ \A c \in DOMAIN barang : barang'[c].ada = barang[c].ada
      /\ barang'[b].ada
  <2>1. barang \in Seq(TipeBarang) /\ baris \in TipeBarang
    BY <1>2, <1>w DEF TypeInv, BarangSah, TipeBarang
  <2>2. PICK w : w = Append(barang, baris)
    OBVIOUS
  <2>3. DOMAIN w = 1 .. Len(barang) + 1
    BY <2>1, <2>2, SeqTambah
  <2>4. /\ \A i \in 1 .. Len(barang) : w[i] = barang[i]
        /\ w[Len(barang) + 1] = baris
    BY <2>1, <2>2, SeqTambah
  <2>5. DOMAIN barang = 1 .. Len(barang) /\ Len(barang) \in Nat
    BY Dasar
  <2>6. 1 .. Len(barang) + 1 = DOMAIN barang \cup {b} /\ b \notin DOMAIN barang
    BY <2>5
  <2>7. baris.ada
    BY <1>w
  <2>8. barang' = w /\ b = Len(barang) + 1
    BY <1>1, <2>2
  <2> QED BY <2>3, <2>4, <2>5, <2>6, <2>7, <2>8
<1> QED BY <1>1, <1>2, <1>3, <1>5, <1>6, <1>7, <1>8 DEF BarangDimasukkan

-----------------------------------------------------------------------------
(* What a request has read, and the stock.                                  *)

LEMMA BebasTerbacaUnit == \A r : r.tahap = "bebas" => UnitTerbaca(r)
BY DEF UnitTerbaca

LEMMA BekalMulai ==
    ASSUME TypeInv, BekalInv, SellerTertib, NEW p \in Proses, NEW r, Mulai(p, r),
           UNCHANGED <<barang, kategori, varian, latar>>, UnitTerbaca(r)
    PROVE  BekalInv'
<1>1. \A q \in Proses : proses'[q].tahap # "bebas" => proses'[q] = r
  BY TunggalMulai
<1>2. StokTidakLebih' /\ KategoriBerbarang'
  BY DEF BekalInv, StokTidakLebih, KategoriBerbarang, BarangAda, VarianBerstatus
<1>3. ASSUME NEW q \in Proses PROVE UnitTerbaca(proses[q])'
  <2>1. CASE proses'[q].tahap = "bebas"
    BY <2>1 DEF UnitTerbaca
  <2>2. CASE proses'[q] = r
    BY <2>2 DEF UnitTerbaca, VarianBerstatus, KategoriDari, BarangAda, KategoriAda
  <2> QED BY <1>1, <2>1, <2>2
<1> QED BY <1>2, <1>3 DEF BekalInv

\* Nothing that counts changes, and the only request ends or none begins.
LEMMA BekalTulis ==
    ASSUME TypeInv, VarianSah', BekalInv, \A q \in Proses : proses'[q].tahap = "bebas",
           \A k \in DOMAIN kategori' : kategori'[k].ada =>
              /\ BarangAda(kategori[k].barang)'
              /\ \/ /\ k \in DOMAIN kategori /\ kategori[k].ada /\ kategori'[k].stok = kategori[k].stok
                    /\ VarianBerstatus(k, {"Down", "Ready"}) \subseteq VarianBerstatus(k, {"Down", "Ready"})'
                 \/ kategori'[k].stok <= Cardinality(VarianBerstatus(k, {"Down", "Ready"})')
    PROVE  BekalInv'
<1>1. ASSUME NEW k \in DOMAIN kategori', kategori'[k].ada
      PROVE  kategori'[k].stok <= Cardinality(VarianBerstatus(k, {"Down", "Ready"})')
  <2>1. CASE /\ k \in DOMAIN kategori /\ kategori[k].ada /\ kategori'[k].stok = kategori[k].stok
             /\ VarianBerstatus(k, {"Down", "Ready"}) \subseteq VarianBerstatus(k, {"Down", "Ready"})'
    <3>1. kategori[k].stok \in Nat
      BY <2>1, Dasar DEF TipeRak
    <3>2. kategori[k].stok <= Cardinality(VarianBerstatus(k, {"Down", "Ready"}))
      BY <2>1 DEF BekalInv, StokTidakLebih
    <3>3. /\ Cardinality(VarianBerstatus(k, {"Down", "Ready"})) \in Nat
          /\ Cardinality(VarianBerstatus(k, {"Down", "Ready"})') \in Nat
          /\ Cardinality(VarianBerstatus(k, {"Down", "Ready"})) <= Cardinality(VarianBerstatus(k, {"Down", "Ready"})')
      BY <2>1, HinggaKelak
    <3> QED BY <2>1, <3>1, <3>2, <3>3
  <2> QED BY <1>1, <2>1
<1>2. StokTidakLebih'
  BY <1>1 DEF StokTidakLebih
<1>3. KategoriBerbarang'
  BY DEF KategoriBerbarang
<1>4. \A q \in Proses : UnitTerbaca(proses[q])'
  BY DEF UnitTerbaca
<1> QED BY <1>2, <1>3, <1>4 DEF BekalInv

\* Units change their status, but none is deleted, and nothing else changes.
LEMMA BekalStatus ==
    ASSUME TypeInv, VarianSah', BekalInv, \A q \in Proses : proses'[q].tahap = "bebas",
           BarangTertahan, KategoriTertahan, StokTertahan,
           NEW S, NEW s \in {"Down", "Ready"}, varian' = SetStatus(S, s) \/ UNCHANGED varian
    PROVE  BekalInv'
<1>1. ASSUME NEW k \in DOMAIN kategori', kategori'[k].ada
      PROVE  /\ BarangAda(kategori[k].barang)'
             /\ k \in DOMAIN kategori /\ kategori[k].ada /\ kategori'[k].stok = kategori[k].stok
             /\ VarianBerstatus(k, {"Down", "Ready"}) \subseteq VarianBerstatus(k, {"Down", "Ready"})'
  <2>1. k \in DOMAIN kategori /\ kategori[k].ada /\ kategori'[k].barang = kategori[k].barang
    BY <1>1 DEF KategoriTertahan
  <2>2. BarangAda(kategori[k].barang)'
    BY <2>1 DEF BekalInv, KategoriBerbarang, BarangAda, BarangTertahan
  <2>3. kategori'[k].stok = kategori[k].stok
    BY <2>1 DEF StokTertahan
  <2>4. VarianBerstatus(k, {"Down", "Ready"}) \subseteq VarianBerstatus(k, {"Down", "Ready"})'
    <3>1. CASE UNCHANGED varian
      BY <3>1 DEF VarianBerstatus
    <3>2. CASE varian' = SetStatus(S, s)
      <4>1. s \in StatusVarian /\ s \in {"Down", "Ready"}
        BY DEF StatusVarian
      <4> QED BY <3>2, <4>1, StatusHitung
    <3> QED BY <3>1, <3>2
  <2> QED BY <2>1, <2>2, <2>3, <2>4
<1> QED BY <1>1, BekalTulis

LEMMA BekalBaca ==
    ASSUME TypeInv, BekalInv, SellerTertib, NEW p \in Proses,
           \/ \E b \in DOMAIN barang : \/ HapusBarangInduk(p, b)
                                       \/ \E s \in StokAwal : TambahKategoriBarang(p, b, s)
                                       \/ \E k \in DOMAIN kategori : SetAsOriginKategoriBarang(p, b, k)
           \/ \E k \in DOMAIN kategori : \/ HapusKategoriBarang(p, k)
                                         \/ \E n \in StokMasukan : n # 0 /\ EditStokKategoriBarang(p, k, n)
                                         \/ \E j \in Jumlah : \/ DownKategoriBarang(p, k, j)
                                                              \/ UpKategoriBarang(p, k, j)
    PROVE  BekalInv'
<1>1. \E r : /\ Mulai(p, r) /\ UNCHANGED <<barang, kategori, varian, latar>>
             /\ UnitTerbaca(r)
  <2>1. ASSUME NEW b \in DOMAIN barang, HapusBarangInduk(p, b)
        PROVE  \E r : Mulai(p, r) /\ UNCHANGED <<barang, kategori, varian, latar>> /\ UnitTerbaca(r)
    <3>1. PICK n \in DOMAIN ambangBarang : \E K \in Limit(KategoriDari(b), ambangBarang[n].kategori) :
             Mulai(p, [ProsesBebas EXCEPT !.tahap = "hapusBarang", !.barang = b, !.pilih = K])
      BY <2>1 DEF HapusBarangInduk
    <3>2. PICK K \in Limit(KategoriDari(b), ambangBarang[n].kategori) :
             Mulai(p, [ProsesBebas EXCEPT !.tahap = "hapusBarang", !.barang = b, !.pilih = K])
      BY <3>1
    <3>3. PICK r : r = [ProsesBebas EXCEPT !.tahap = "hapusBarang", !.barang = b, !.pilih = K]
      OBVIOUS
    <3>4. r.tahap = "hapusBarang" /\ r.barang = b /\ r.pilih = K
      BY <3>3 DEF ProsesBebas
    <3>5. BarangAda(b) /\ K \subseteq KategoriDari(b) /\ UNCHANGED <<barang, kategori, varian, latar>>
      BY <2>1, LimitBagian DEF HapusBarangInduk
    <3>6. UnitTerbaca(r)
      BY <3>4, <3>5 DEF UnitTerbaca
    <3> QED BY <3>2, <3>3, <3>5, <3>6
  <2>2. ASSUME NEW b \in DOMAIN barang, NEW s \in StokAwal, TambahKategoriBarang(p, b, s)
        PROVE  \E r : Mulai(p, r) /\ UNCHANGED <<barang, kategori, varian, latar>> /\ UnitTerbaca(r)
    <3>1. PICK r : r = [ProsesBebas EXCEPT !.tahap = "tambah", !.barang = b, !.jumlah = s]
      OBVIOUS
    <3>2. r.tahap = "tambah" /\ r.barang = b
      BY <3>1 DEF ProsesBebas
    <3>3. BarangAda(b) /\ Mulai(p, r) /\ UNCHANGED <<barang, kategori, varian, latar>>
      BY <2>2, <3>1 DEF TambahKategoriBarang
    <3> QED BY <3>2, <3>3 DEF UnitTerbaca
  <2>3. ASSUME NEW b \in DOMAIN barang, NEW k \in DOMAIN kategori, SetAsOriginKategoriBarang(p, b, k)
        PROVE  \E r : Mulai(p, r) /\ UNCHANGED <<barang, kategori, varian, latar>> /\ UnitTerbaca(r)
    <3>1. PICK r : r = [ProsesBebas EXCEPT !.tahap = "asal", !.barang = b, !.kategori = k]
      OBVIOUS
    <3>2. r.tahap = "asal"
      BY <3>1 DEF ProsesBebas
    <3>3. Mulai(p, r) /\ UNCHANGED <<barang, kategori, varian, latar>>
      BY <2>3, <3>1 DEF SetAsOriginKategoriBarang
    <3> QED BY <3>2, <3>3 DEF UnitTerbaca
  <2>4. ASSUME NEW k \in DOMAIN kategori, HapusKategoriBarang(p, k)
        PROVE  \E r : Mulai(p, r) /\ UNCHANGED <<barang, kategori, varian, latar>> /\ UnitTerbaca(r)
    <3>1. PICK r : r = [ProsesBebas EXCEPT !.tahap = "hapusKategori", !.barang = kategori[k].barang,
                                           !.kategori = k, !.jumlah = kategori[k].stok]
      OBVIOUS
    <3>2. r.tahap = "hapusKategori" /\ r.barang = kategori[k].barang /\ r.kategori = k /\ r.jumlah = kategori[k].stok
      BY <3>1 DEF ProsesBebas
    <3>3. KategoriAda(k) /\ Mulai(p, r) /\ UNCHANGED <<barang, kategori, varian, latar>>
      BY <2>4, <3>1 DEF HapusKategoriBarang
    <3> QED BY <3>2, <3>3 DEF UnitTerbaca
  <2>5. ASSUME NEW k \in DOMAIN kategori, NEW n \in StokMasukan, n # 0, EditStokKategoriBarang(p, k, n)
        PROVE  \E r : Mulai(p, r) /\ UNCHANGED <<barang, kategori, varian, latar>> /\ UnitTerbaca(r)
    <3>1. PICK D \in Limit(VarianBerstatus(k, {"Down"}), IF kategori[k].stok = 0 THEN 1 ELSE kategori[k].stok) :
             Mulai(p, [ProsesBebas EXCEPT !.tahap = "stok", !.barang = kategori[k].barang,
                                          !.kategori = k, !.jumlah = n, !.pilih = D])
      BY <2>5 DEF EditStokKategoriBarang
    <3>2. PICK r : r = [ProsesBebas EXCEPT !.tahap = "stok", !.barang = kategori[k].barang,
                                           !.kategori = k, !.jumlah = n, !.pilih = D]
      OBVIOUS
    <3>3. /\ r.tahap = "stok" /\ r.barang = kategori[k].barang /\ r.kategori = k /\ r.jumlah = n /\ r.pilih = D
      BY <3>2 DEF ProsesBebas
    <3>4. D \subseteq VarianBerstatus(k, {"Down"})
      BY <3>1, LimitBagian
    <3>5. KategoriAda(k) /\ UNCHANGED <<barang, kategori, varian, latar>>
      BY <2>5 DEF EditStokKategoriBarang
    <3>6. UnitTerbaca(r)
      BY <2>5, <3>3, <3>4, <3>5 DEF UnitTerbaca
    <3> QED BY <3>1, <3>2, <3>5, <3>6
  <2>6. ASSUME NEW k \in DOMAIN kategori, NEW j \in Jumlah, DownKategoriBarang(p, k, j)
        PROVE  \E r : Mulai(p, r) /\ UNCHANGED <<barang, kategori, varian, latar>> /\ UnitTerbaca(r)
    <3>1. PICK S \in Limit(VarianBerstatus(k, {"Ready"}), Banyak(j, ambangKategori[k].ready)) :
             Mulai(p, [ProsesBebas EXCEPT !.tahap = "turun", !.kategori = k, !.pilih = S, !.semua = (j = 0)])
      BY <2>6 DEF DownKategoriBarang
    <3>2. PICK r : r = [ProsesBebas EXCEPT !.tahap = "turun", !.kategori = k, !.pilih = S, !.semua = (j = 0)]
      OBVIOUS
    <3>3. r.tahap = "turun" /\ r.kategori = k /\ r.pilih = S
      BY <3>2 DEF ProsesBebas
    <3>4. S \subseteq VarianBerstatus(k, {"Ready"})
      BY <3>1, LimitBagian
    <3>5. UNCHANGED <<barang, kategori, varian, latar>>
      BY <2>6 DEF DownKategoriBarang
    <3>6. UnitTerbaca(r)
      BY <3>3, <3>4 DEF UnitTerbaca
    <3> QED BY <3>1, <3>2, <3>5, <3>6
  <2>7. ASSUME NEW k \in DOMAIN kategori, NEW j \in Jumlah, UpKategoriBarang(p, k, j)
        PROVE  \E r : Mulai(p, r) /\ UNCHANGED <<barang, kategori, varian, latar>> /\ UnitTerbaca(r)
    <3>1. PICK S \in Limit(VarianBerstatus(k, {"Down"}), Banyak(j, ambangKategori[k].down)) :
             Mulai(p, [ProsesBebas EXCEPT !.tahap = "naik", !.kategori = k, !.pilih = S])
      BY <2>7 DEF UpKategoriBarang
    <3>2. PICK r : r = [ProsesBebas EXCEPT !.tahap = "naik", !.kategori = k, !.pilih = S]
      OBVIOUS
    <3>3. r.tahap = "naik" /\ r.kategori = k /\ r.pilih = S
      BY <3>2 DEF ProsesBebas
    <3>4. S \subseteq VarianBerstatus(k, {"Down"})
      BY <3>1, LimitBagian
    <3>5. UNCHANGED <<barang, kategori, varian, latar>>
      BY <2>7 DEF UpKategoriBarang
    <3>6. UnitTerbaca(r)
      BY <3>3, <3>4 DEF UnitTerbaca
    <3> QED BY <3>1, <3>2, <3>5, <3>6
  <2> QED BY <2>1, <2>2, <2>3, <2>4, <2>5, <2>6, <2>7, Zenon
<1>2. PICK r : /\ Mulai(p, r) /\ UNCHANGED <<barang, kategori, varian, latar>>
               /\ UnitTerbaca(r)
  BY <1>1
<1> QED BY <1>2, BekalMulai

LEMMA BekalHapus ==
    ASSUME TypeInv, VarianSah', BekalInv, NEW p \in Proses, HapusBarangTulis(p) \/ HapusKategoriTulis(p),
           \A q \in Proses : proses'[q].tahap = "bebas"
    PROVE  BekalInv'
<1>1. PICK r : r = proses[p]
  OBVIOUS
<1>2. ASSUME NEW k \in DOMAIN kategori', kategori'[k].ada
      PROVE  /\ BarangAda(kategori[k].barang)'
             /\ k \in DOMAIN kategori /\ kategori[k].ada /\ kategori'[k].stok = kategori[k].stok
             /\ VarianBerstatus(k, {"Down", "Ready"}) \subseteq VarianBerstatus(k, {"Down", "Ready"})'
  <2>1. CASE HapusBarangTulis(p)
    <3>e. BarangTerhapus(r)
      BY <1>1, <2>1, HapusBarangEfek
    <3>1. k \in DOMAIN kategori
      BY <3>e DEF BarangTerhapus
    <3>2. /\ kategori'[k].barang = kategori[k].barang /\ kategori'[k].stok = kategori[k].stok
          /\ kategori[k].ada /\ kategori[k].barang # r.barang
      BY <1>2, <3>1, <3>e DEF BarangTerhapus
    <3>3. VarianBerstatus(k, {"Down", "Ready"})' = VarianBerstatus(k, {"Down", "Ready"})
      <4>1. \A X : VarianBerstatus(k, X)' = VarianBerstatus(k, X)
        BY <3>1, <3>2, <3>e DEF BarangTerhapus
      <4> QED BY <4>1
    <3>4. kategori[k].barang \in DOMAIN barang /\ barang[kategori[k].barang].ada
      BY <3>1, <3>2 DEF BekalInv, KategoriBerbarang, BarangAda
    <3>5. kategori[k].barang \in DOMAIN barang' /\ barang'[kategori[k].barang].ada
      BY <3>2, <3>4, <3>e DEF BarangTerhapus
    <3> QED BY <3>1, <3>2, <3>3, <3>5 DEF BarangAda
  <2>2. CASE HapusKategoriTulis(p)
    <3>e. KategoriTerhapus(r)
      BY <1>1, <2>2, HapusKategoriEfek
    <3>1. k \in DOMAIN kategori
      BY <3>e DEF KategoriTerhapus
    <3>2. /\ kategori'[k].barang = kategori[k].barang /\ kategori'[k].stok = kategori[k].stok
          /\ kategori[k].ada /\ k # r.kategori
      BY <1>2, <3>1, <3>e DEF KategoriTerhapus
    <3>3. VarianBerstatus(k, {"Down", "Ready"})' = VarianBerstatus(k, {"Down", "Ready"})
      <4>1. \A X : VarianBerstatus(k, X)' = VarianBerstatus(k, X)
        BY <3>2, <3>e DEF KategoriTerhapus
      <4> QED BY <4>1
    <3>4. kategori[k].barang \in DOMAIN barang /\ barang[kategori[k].barang].ada
      BY <3>1, <3>2 DEF BekalInv, KategoriBerbarang, BarangAda
    <3>5. kategori[k].barang \in DOMAIN barang' /\ barang'[kategori[k].barang].ada
      BY <3>4, <3>e DEF KategoriTerhapus, BarangTertahan
    <3> QED BY <3>1, <3>2, <3>3, <3>5 DEF BarangAda
  <2> QED BY <2>1, <2>2
<1> QED BY <1>2, BekalTulis

LainTetap(k) == \A j, Y : j # k => VarianBerstatus(j, Y)' = VarianBerstatus(j, Y)

LEMMA UnitTetap ==
    ASSUME TypeInv, NEW u, varian' = varian \o u, NEW k, NEW s, Unit(u, k, s)
    PROVE  LainTetap(k)
<1>1. u \in Seq(TipeUnit) /\ Len(u) = s /\ s \in Nat /\ \A i \in 1 .. s : u[i].kategori = k /\ u[i].status = "Down"
  BY DEF Unit
<1>7. \A j, Y : j # k => VarianBerstatus(j, Y)' = VarianBerstatus(j, Y)
  <2>1. ASSUME NEW j, NEW Y, j # k PROVE VarianBerstatus(j, Y)' = VarianBerstatus(j, Y)
    <3>1. {i \in 1 .. Len(u) : u[i].kategori = j /\ u[i].status \in Y} = {}
      BY <1>1, <2>1
    <3>2. VarianBerstatus(j, Y)' = VarianBerstatus(j, Y) \cup Tempat(u, j, Y)
      BY <1>1, UnitHitung
    <3> QED BY <3>1, <3>2 DEF Tempat
  <2> QED BY <2>1
<1> QED BY <1>7 DEF LainTetap

\* A category with new units, as many as its stock or more.
LEMMA UnitCukup ==
    ASSUME TypeInv, VarianSah', NEW u, varian' = varian \o u, NEW k, NEW s, Unit(u, k, s), NEW X, "Down" \in X
    PROVE  /\ VarianBerstatus(k, X)' = VarianBerstatus(k, X) \cup {Len(varian) + i : i \in 1 .. s}
           /\ IsFiniteSet(VarianBerstatus(k, X)) /\ IsFiniteSet(VarianBerstatus(k, X)')
           /\ Cardinality(VarianBerstatus(k, X)') = Cardinality(VarianBerstatus(k, X)) + s
           /\ \A Y : "Down" \notin Y => VarianBerstatus(k, Y)' = VarianBerstatus(k, Y)
<1>1. u \in Seq(TipeUnit) /\ Len(u) = s /\ s \in Nat /\ \A i \in 1 .. s : u[i].kategori = k /\ u[i].status = "Down"
  BY DEF Unit
<1> DEFINE T == {Len(varian) + i : i \in 1 .. s}
<1>2. VarianBerstatus(k, X)' = VarianBerstatus(k, X) \cup T
  <2>1. {j \in 1 .. Len(u) : u[j].kategori = k /\ u[j].status \in X} = 1 .. s
    BY <1>1
  <2>2. VarianBerstatus(k, X)' = VarianBerstatus(k, X) \cup Tempat(u, k, X)
    BY <1>1, UnitHitung
  <2> QED BY <2>1, <2>2 DEF Tempat
<1>3. IsFiniteSet(T) /\ Cardinality(T) = s
  <2>1. Len(varian) \in Nat /\ 0 \in Nat /\ s \in Nat
    BY <1>1, Dasar
  <2>2. {j \in 1 .. 0 + s : j > 0} = 1 .. s
    BY <1>1
  <2>3. /\ IsFiniteSet({Len(varian) + i : i \in {j \in 1 .. 0 + s : j > 0}})
        /\ Cardinality({Len(varian) + i : i \in {j \in 1 .. 0 + s : j > 0}}) = s
    BY <2>1, GeserUkuran
  <2> QED BY <2>2, <2>3
<1>4. VarianBerstatus(k, X) \cap T = {}
  <2>1. VarianBerstatus(k, X) \subseteq 1 .. Len(varian) /\ Len(varian) \in Nat
    BY HinggaVarian, Dasar
  <2>2. \A i \in 1 .. s : Len(varian) + i \notin 1 .. Len(varian)
    BY <1>1, <2>1
  <2> QED BY <2>1, <2>2
<1>5. IsFiniteSet(VarianBerstatus(k, X)) /\ Cardinality(VarianBerstatus(k, X)) \in Nat
  BY HinggaVarian
<1>6. Cardinality(VarianBerstatus(k, X) \cup T) = Cardinality(VarianBerstatus(k, X)) + s
  <2>1. /\ IsFiniteSet(VarianBerstatus(k, X) \cup T)
        /\ Cardinality(VarianBerstatus(k, X) \cup T) =
              Cardinality(VarianBerstatus(k, X)) + Cardinality(T) - Cardinality(VarianBerstatus(k, X) \cap T)
    <3> HIDE DEF T
    <3> QED BY <1>3, <1>5, FS_Union
  <2>2. Cardinality(VarianBerstatus(k, X) \cap T) = 0
    BY <1>4, FS_EmptySet
  <2> HIDE DEF T
  <2> QED BY <1>1, <1>3, <1>5, <2>1, <2>2
<1>8. \A Y : "Down" \notin Y => VarianBerstatus(k, Y)' = VarianBerstatus(k, Y)
  <2>1. ASSUME NEW Y, "Down" \notin Y PROVE VarianBerstatus(k, Y)' = VarianBerstatus(k, Y)
    <3>1. {i \in 1 .. Len(u) : u[i].kategori = k /\ u[i].status \in Y} = {}
      BY <1>1, <2>1
    <3>2. VarianBerstatus(k, Y)' = VarianBerstatus(k, Y) \cup Tempat(u, k, Y)
      BY <1>1, UnitHitung
    <3> QED BY <3>1, <3>2 DEF Tempat
  <2> QED BY <2>1
<1> QED BY <1>2, <1>3, <1>5, <1>6, <1>8, HinggaKelak

LEMMA BekalStokKurang ==
    ASSUME TypeInv, VarianSah', BekalInv, NEW p \in Proses, StokKurang(p),
           \A q \in Proses : proses'[q].tahap = "bebas"
    PROVE  BekalInv'
<1>1. PICK r : r = proses[p]
  OBVIOUS
<1>e. StokDikurangi(r)
  BY <1>1, StokKurangEfek
<1>2. /\ r.tahap = "stok" /\ UNCHANGED barang /\ KategoriTertahan
      /\ Cardinality(r.pilih) \in Nat /\ r.jumlah \in Nat /\ r.jumlah < Cardinality(r.pilih)
  BY <1>e DEF StokDikurangi
<1>3. /\ r.jumlah # 0 /\ r.pilih \subseteq VarianBerstatus(r.kategori, {"Down"})
      /\ r.kategori \in DOMAIN kategori /\ kategori[r.kategori].ada
  BY <1>1, <1>2 DEF BekalInv, UnitTerbaca, KategoriAda
<1>4. PICK S \in SUBSET r.pilih : /\ varian' = SetStatus(S, "terhapus") /\ IsFiniteSet(S)
                                  /\ Cardinality(S) = Cardinality(r.pilih) - r.jumlah
  BY <1>e DEF StokDikurangi
<1>s. "terhapus" \in StatusVarian
  BY DEF StatusVarian
<1>5. ASSUME NEW k \in DOMAIN kategori', kategori'[k].ada
      PROVE  /\ BarangAda(kategori[k].barang)'
             /\ \/ /\ k \in DOMAIN kategori /\ kategori[k].ada /\ kategori'[k].stok = kategori[k].stok
                   /\ VarianBerstatus(k, {"Down", "Ready"}) \subseteq VarianBerstatus(k, {"Down", "Ready"})'
                \/ kategori'[k].stok <= Cardinality(VarianBerstatus(k, {"Down", "Ready"})')
  <2>1. k \in DOMAIN kategori /\ kategori[k].ada /\ kategori'[k].barang = kategori[k].barang
    BY <1>2, <1>5 DEF KategoriTertahan
  <2>2. BarangAda(kategori[k].barang)'
    BY <1>2, <2>1 DEF BekalInv, KategoriBerbarang, BarangAda
  <2>3. CASE k = r.kategori
    <3>1. kategori'[k].stok = r.jumlah
      BY <1>3, <1>e, <2>1, <2>3 DEF StokDikurangi
    <3>2. VarianBerstatus(k, {"Down", "Ready"})' = VarianBerstatus(k, {"Down", "Ready"}) \ S
      BY <1>4, <1>s, StatusHitung
    <3>3. r.pilih \ S \subseteq VarianBerstatus(k, {"Down", "Ready"})'
      BY <1>3, <2>3, <3>2 DEF VarianBerstatus
    <3>4. Cardinality(r.pilih \ S) = r.jumlah
      <4>1. IsFiniteSet(r.pilih)
        <5>1. r \in TipeProses
          BY <1>e DEF StokDikurangi
        <5> QED BY <5>1, PilihHingga
      <4>2. Cardinality(r.pilih \ S) = Cardinality(r.pilih) - Cardinality(r.pilih \cap S)
        BY <4>1, FS_Difference
      <4>3. r.pilih \cap S = S
        BY <1>4
      <4> QED BY <1>2, <1>4, <4>2, <4>3
    <3>5. Cardinality(r.pilih \ S) <= Cardinality(VarianBerstatus(k, {"Down", "Ready"})')
      BY <3>3, HinggaKelak
    <3> QED BY <2>2, <3>1, <3>4, <3>5
  <2>4. CASE k # r.kategori
    <3>1. kategori'[k].stok = kategori[k].stok
      BY <1>e, <2>1, <2>4 DEF StokDikurangi
    <3>2. \A v \in S \cap DOMAIN varian : varian[v].kategori # k
      BY <1>3, <1>4, <2>4 DEF VarianBerstatus
    <3>3. \A X : VarianBerstatus(k, X)' = VarianBerstatus(k, X)
      BY <1>4, <1>s, <3>2, StatusLain
    <3>4. VarianBerstatus(k, {"Down", "Ready"})' = VarianBerstatus(k, {"Down", "Ready"})
      BY <3>3
    <3> QED BY <2>1, <2>2, <3>1, <3>4
  <2> QED BY <2>3, <2>4
<1> QED BY <1>5, BekalTulis

LEMMA BekalStokTambah ==
    ASSUME TypeInv, VarianSah', BekalInv, NEW p \in Proses, StokTambah(p),
           \A q \in Proses : proses'[q].tahap = "bebas"
    PROVE  BekalInv'
<1>1. PICK r : r = proses[p]
  OBVIOUS
<1>e. StokDitambah(r)
  BY <1>1, StokTambahEfek
<1>2. /\ r.tahap = "stok" /\ UNCHANGED barang /\ KategoriTertahan
      /\ Cardinality(r.pilih) \in Nat /\ r.jumlah \in Nat /\ r.jumlah > Cardinality(r.pilih)
  BY <1>e DEF StokDitambah
<1>3. /\ r.jumlah # 0 /\ r.pilih \subseteq VarianBerstatus(r.kategori, {"Down"})
      /\ r.kategori \in DOMAIN kategori /\ kategori[r.kategori].ada
  BY <1>1, <1>2 DEF BekalInv, UnitTerbaca, KategoriAda
<1>4. PICK u : varian' = varian \o u /\ Unit(u, r.kategori, r.jumlah - Cardinality(r.pilih))
  BY <1>e DEF StokDitambah
<1>5. ASSUME NEW k \in DOMAIN kategori', kategori'[k].ada
      PROVE  /\ BarangAda(kategori[k].barang)'
             /\ \/ /\ k \in DOMAIN kategori /\ kategori[k].ada /\ kategori'[k].stok = kategori[k].stok
                   /\ VarianBerstatus(k, {"Down", "Ready"}) \subseteq VarianBerstatus(k, {"Down", "Ready"})'
                \/ kategori'[k].stok <= Cardinality(VarianBerstatus(k, {"Down", "Ready"})')
  <2>1. k \in DOMAIN kategori /\ kategori[k].ada /\ kategori'[k].barang = kategori[k].barang
    BY <1>2, <1>5 DEF KategoriTertahan
  <2>2. BarangAda(kategori[k].barang)'
    BY <1>2, <2>1 DEF BekalInv, KategoriBerbarang, BarangAda
  <2>3. CASE k = r.kategori
    <3>1. kategori'[k].stok = r.jumlah
      BY <1>3, <1>e, <2>1, <2>3 DEF StokDitambah
    <3>2. Cardinality(VarianBerstatus(k, {"Down", "Ready"})') =
             Cardinality(VarianBerstatus(k, {"Down", "Ready"})) + (r.jumlah - Cardinality(r.pilih))
      <4>1. PICK X : X = {"Down", "Ready"}
        OBVIOUS
      <4>2. PICK s : s = r.jumlah - Cardinality(r.pilih)
        OBVIOUS
      <4>3. Unit(u, k, s) /\ "Down" \in X
        BY <1>4, <2>3, <4>1, <4>2
      <4>4. varian' = varian \o u
        BY <1>4
      <4>5. Cardinality(VarianBerstatus(k, X)') = Cardinality(VarianBerstatus(k, X)) + s
        BY <4>3, <4>4, UnitCukup
      <4> QED BY <4>1, <4>2, <4>5
    <3>3. r.pilih \subseteq VarianBerstatus(k, {"Down", "Ready"})
      BY <1>3, <2>3 DEF VarianBerstatus
    <3>4. /\ Cardinality(r.pilih) <= Cardinality(VarianBerstatus(k, {"Down", "Ready"}))
          /\ Cardinality(VarianBerstatus(k, {"Down", "Ready"})) \in Nat
      BY <3>3, HinggaVarian, FS_Subset
    <3> QED BY <1>2, <2>2, <3>1, <3>2, <3>4
  <2>4. CASE k # r.kategori
    <3>1. kategori'[k].stok = kategori[k].stok
      BY <1>e, <2>1, <2>4 DEF StokDitambah
    <3>3. \A j, Y : j # r.kategori => VarianBerstatus(j, Y)' = VarianBerstatus(j, Y)
      <4>1. PICK s : s = r.jumlah - Cardinality(r.pilih)
        OBVIOUS
      <4>2. LainTetap(r.kategori)
        BY <1>4, <4>1, UnitTetap
      <4> QED BY <4>2 DEF LainTetap
    <3>4. VarianBerstatus(k, {"Down", "Ready"})' = VarianBerstatus(k, {"Down", "Ready"})
      BY <2>4, <3>3
    <3> QED BY <2>1, <2>2, <3>1, <3>4
  <2> QED BY <2>3, <2>4
<1> QED BY <1>5, BekalTulis

LEMMA BekalTambah ==
    ASSUME TypeInv, VarianSah', BekalInv, NEW p \in Proses, TambahTulis(p),
           \A q \in Proses : proses'[q].tahap = "bebas"
    PROVE  BekalInv'
<1>1. PICK r : r = proses[p]
  OBVIOUS
<1>c. PICK c : c = Len(kategori) + 1
  OBVIOUS
<1>e. KategoriDitambah(r, c)
  BY <1>1, <1>c, TambahEfek
<1>2. /\ r.tahap = "tambah" /\ UNCHANGED barang /\ r.jumlah \in Nat
      /\ DOMAIN kategori' = DOMAIN kategori \cup {c} /\ c \notin DOMAIN kategori
      /\ \A i \in DOMAIN kategori : kategori'[i] = kategori[i]
      /\ kategori'[c].barang = r.barang /\ kategori'[c].stok = r.jumlah
  BY <1>e DEF KategoriDitambah, KategoriBaru
<1>3. BarangAda(r.barang)
  BY <1>1, <1>2 DEF BekalInv, UnitTerbaca
<1>4. PICK u : varian' = varian \o u /\ Unit(u, c, r.jumlah)
  BY <1>e DEF KategoriDitambah
<1>5. ASSUME NEW k \in DOMAIN kategori', kategori'[k].ada
      PROVE  /\ BarangAda(kategori[k].barang)'
             /\ \/ /\ k \in DOMAIN kategori /\ kategori[k].ada /\ kategori'[k].stok = kategori[k].stok
                   /\ VarianBerstatus(k, {"Down", "Ready"}) \subseteq VarianBerstatus(k, {"Down", "Ready"})'
                \/ kategori'[k].stok <= Cardinality(VarianBerstatus(k, {"Down", "Ready"})')
  <2>3. CASE k = c
    <3>1. BarangAda(kategori[k].barang)'
      BY <1>2, <1>3, <2>3 DEF BarangAda
    <3>2. Cardinality(VarianBerstatus(k, {"Down", "Ready"})') =
             Cardinality(VarianBerstatus(k, {"Down", "Ready"})) + r.jumlah
      <4>1. PICK X : X = {"Down", "Ready"}
        OBVIOUS
      <4>2. PICK s : s = r.jumlah
        OBVIOUS
      <4>3. Unit(u, k, s) /\ "Down" \in X
        BY <1>4, <2>3, <4>1, <4>2
      <4>4. varian' = varian \o u
        BY <1>4
      <4>5. Cardinality(VarianBerstatus(k, X)') = Cardinality(VarianBerstatus(k, X)) + s
        BY <4>3, <4>4, UnitCukup
      <4> QED BY <4>1, <4>2, <4>5
    <3>3. Cardinality(VarianBerstatus(k, {"Down", "Ready"})) \in Nat
      BY HinggaVarian
    <3> QED BY <1>2, <2>3, <3>1, <3>2, <3>3
  <2>4. CASE k # c
    <3>1. k \in DOMAIN kategori /\ kategori'[k] = kategori[k]
      BY <1>2, <2>4
    <3>2. BarangAda(kategori[k].barang)'
      BY <1>2, <1>5, <3>1 DEF BekalInv, KategoriBerbarang, BarangAda
    <3>3. \A j, Y : j # c => VarianBerstatus(j, Y)' = VarianBerstatus(j, Y)
      <4>1. PICK s : s = r.jumlah
        OBVIOUS
      <4>2. LainTetap(c)
        BY <1>4, <4>1, UnitTetap
      <4> QED BY <4>2 DEF LainTetap
    <3>4. VarianBerstatus(k, {"Down", "Ready"})' = VarianBerstatus(k, {"Down", "Ready"})
      BY <2>4, <3>3
    <3> QED BY <1>5, <3>1, <3>2, <3>4
  <2> QED BY <2>3, <2>4
<1> QED BY <1>5, BekalTulis

\* The places of the units a new product comes with.
LEMMA DiisiTempat ==
    ASSUME TypeInv, NEW isi \in Isi, NEW k0 \in Nat, NEW u, Diisi(u, isi, k0), NEW X
    PROVE  /\ \A i \in 1 .. Len(isi) : "Down" \in X =>
                 /\ IsFiniteSet(Tempat(u, k0 + i, X))
                 /\ Cardinality(Tempat(u, k0 + i, X)) = isi[i]
           /\ \A k : k \notin k0 + 1 .. k0 + Len(isi) \/ "Down" \notin X => Tempat(u, k, X) = {}
<1>1. /\ Len(isi) \in 1 .. 2 /\ \A i \in 1 .. Len(isi) : isi[i] \in Nat
  BY IsiDasar
<1>2. /\ Len(u) \in Nat
      /\ \A i \in 1 .. Len(u) : u[i].status = "Down" /\ u[i].kategori \in k0 + 1 .. k0 + Len(isi)
      /\ \A i \in 1 .. Len(u) : u[i].kategori = IF i <= isi[1] THEN k0 + 1 ELSE k0 + 2
      /\ Len(u) = IF Len(isi) = 1 THEN isi[1] ELSE isi[1] + isi[2]
  BY DEF Diisi
<1>m. Len(varian) \in Nat
  BY Dasar
<1>3. ASSUME NEW i \in 1 .. Len(isi), "Down" \in X
      PROVE  IsFiniteSet(Tempat(u, k0 + i, X)) /\ Cardinality(Tempat(u, k0 + i, X)) = isi[i]
  <2>1. CASE i = 1
    <3>1. isi[1] \in Nat /\ 0 \in Nat
      BY <1>1
    <3>2. {j \in 1 .. Len(u) : u[j].kategori = k0 + i /\ u[j].status \in X} = {j \in 1 .. 0 + isi[1] : j > 0}
      <4>1. ASSUME NEW j \in 1 .. Len(u), u[j].kategori = k0 + i PROVE j \in 1 .. 0 + isi[1] /\ j > 0
        BY <1>2, <2>1, <3>1, <4>1
      <4>2. ASSUME NEW j \in 1 .. 0 + isi[1]
            PROVE  j \in 1 .. Len(u) /\ u[j].kategori = k0 + i /\ u[j].status \in X
        <5>1. j \in 1 .. Len(u) /\ j <= isi[1]
          <6>1. isi[1] <= Len(u)
            BY <1>1, <1>2
          <6> QED BY <1>2, <3>1, <6>1
        <5> QED BY <1>2, <1>3, <2>1, <5>1
      <4> QED BY <4>1, <4>2
    <3>3. Tempat(u, k0 + i, X) = {Len(varian) + h : h \in {j \in 1 .. 0 + isi[1] : j > 0}}
      BY <3>2 DEF Tempat
    <3>4. /\ IsFiniteSet({Len(varian) + h : h \in {j \in 1 .. 0 + isi[1] : j > 0}})
          /\ Cardinality({Len(varian) + h : h \in {j \in 1 .. 0 + isi[1] : j > 0}}) = isi[1]
      BY <1>m, <3>1, GeserUkuran
    <3> QED BY <2>1, <3>3, <3>4
  <2>2. CASE i = 2
    <3>1. isi[1] \in Nat /\ isi[2] \in Nat /\ Len(u) = isi[1] + isi[2]
      BY <1>1, <1>2, <2>2
    <3>2. {j \in 1 .. Len(u) : u[j].kategori = k0 + i /\ u[j].status \in X} =
          {j \in 1 .. isi[1] + isi[2] : j > isi[1]}
      <4>1. ASSUME NEW j \in 1 .. Len(u), u[j].kategori = k0 + i PROVE j > isi[1]
        BY <1>2, <2>2, <3>1, <4>1
      <4>2. ASSUME NEW j \in 1 .. isi[1] + isi[2], j > isi[1]
            PROVE  u[j].kategori = k0 + i /\ u[j].status \in X
        BY <1>2, <1>3, <2>2, <3>1, <4>2
      <4> QED BY <3>1, <4>1, <4>2
    <3>3. Tempat(u, k0 + i, X) = {Len(varian) + h : h \in {j \in 1 .. isi[1] + isi[2] : j > isi[1]}}
      BY <3>2 DEF Tempat
    <3>4. /\ IsFiniteSet({Len(varian) + h : h \in {j \in 1 .. isi[1] + isi[2] : j > isi[1]}})
          /\ Cardinality({Len(varian) + h : h \in {j \in 1 .. isi[1] + isi[2] : j > isi[1]}}) = isi[2]
      BY <1>m, <3>1, GeserUkuran
    <3> QED BY <2>2, <3>3, <3>4
  <2> QED BY <1>1, <2>1, <2>2
<1>4. ASSUME NEW k, k \notin k0 + 1 .. k0 + Len(isi) \/ "Down" \notin X
      PROVE  Tempat(u, k, X) = {}
  <2>1. {j \in 1 .. Len(u) : u[j].kategori = k /\ u[j].status \in X} = {}
    BY <1>2, <1>4
  <2> QED BY <2>1 DEF Tempat
<1> QED BY <1>3, <1>4

LEMMA BekalMasukan ==
    ASSUME TypeInv, VarianSah', BekalInv, SellerTertib, NEW isi \in Isi, NEW asal \in DOMAIN isi,
           MasukanBarangInduk(isi, asal)
    PROVE  BekalInv'
<1>b. PICK b : b = Len(barang) + 1
  OBVIOUS
<1>k. PICK k0 : k0 = Len(kategori)
  OBVIOUS
<1>n. PICK n : n = Len(isi)
  OBVIOUS
<1>e. BarangDimasukkan(isi, b, k0, n)
  BY <1>b, <1>k, <1>n, MasukanEfek
<1>1. /\ Tenang /\ UNCHANGED proses /\ n \in 1 .. 2 /\ k0 \in Nat /\ \A i \in 1 .. n : isi[i] \in Nat
      /\ DOMAIN barang' = DOMAIN barang \cup {b}
      /\ \A c \in DOMAIN barang : barang'[c].ada = barang[c].ada
      /\ barang'[b].ada
      /\ DOMAIN kategori' = DOMAIN kategori \cup (k0 + 1 .. k0 + n) /\ DOMAIN kategori = 1 .. k0
      /\ \A i \in DOMAIN kategori : kategori'[i] = kategori[i]
      /\ \A i \in 1 .. n : KategoriBaru(k0 + i, b, isi[i])
  BY <1>e DEF BarangDimasukkan
<1>2. PICK u : varian' = varian \o u /\ Diisi(u, isi, k0)
  BY <1>e DEF BarangDimasukkan
<1>3. \A q \in Proses : proses'[q].tahap = "bebas"
  BY <1>1, TenangSepi DEF Sepi
<1>u. u \in Seq(TipeUnit) /\ varian' = varian \o u
  BY <1>2 DEF Diisi
<1>X. PICK X : X = {"Down", "Ready"}
  OBVIOUS
<1>5. ASSUME NEW k \in DOMAIN kategori', kategori'[k].ada
      PROVE  /\ BarangAda(kategori[k].barang)'
             /\ \/ /\ k \in DOMAIN kategori /\ kategori[k].ada /\ kategori'[k].stok = kategori[k].stok
                   /\ VarianBerstatus(k, {"Down", "Ready"}) \subseteq VarianBerstatus(k, {"Down", "Ready"})'
                \/ kategori'[k].stok <= Cardinality(VarianBerstatus(k, {"Down", "Ready"})')
  <2>1. VarianBerstatus(k, X)' = VarianBerstatus(k, X) \cup Tempat(u, k, X)
    BY <1>u, UnitHitung
  <2>3. CASE k \in k0 + 1 .. k0 + n
    <3>1. PICK i : i = k - k0
      OBVIOUS
    <3>2. i \in 1 .. n /\ k = k0 + i
      BY <1>1, <2>3, <3>1
    <3>3. kategori'[k].barang = b /\ kategori'[k].stok = isi[i] /\ isi[i] \in Nat
      BY <1>1, <3>2 DEF KategoriBaru
    <3>4. BarangAda(kategori[k].barang)'
      BY <1>1, <3>3 DEF BarangAda
    <3>5. "Down" \in X /\ i \in 1 .. Len(isi) /\ Diisi(u, isi, k0) /\ k0 \in Nat
      BY <1>1, <1>2, <1>n, <1>X, <3>2
    <3>6. Cardinality(Tempat(u, k, X)) = isi[i]
      BY <3>2, <3>5, DiisiTempat
    <3>7. Cardinality(Tempat(u, k, X)) <= Cardinality(VarianBerstatus(k, X)')
      <4>1. Tempat(u, k, X) \in SUBSET (VarianBerstatus(k, X)')
        BY <2>1
      <4> QED BY <4>1, HinggaKelak
    <3> QED BY <1>X, <3>3, <3>4, <3>6, <3>7
  <2>4. CASE k \in DOMAIN kategori
    <3>1. kategori'[k] = kategori[k]
      BY <1>1, <2>4
    <3>2. BarangAda(kategori[k].barang)'
      BY <1>1, <1>5, <2>4, <3>1 DEF BekalInv, KategoriBerbarang, BarangAda
    <3> QED BY <1>5, <1>X, <2>1, <2>4, <3>1, <3>2
  <2> QED BY <1>1, <2>3, <2>4
<1> QED BY <1>3, <1>5, BekalTulis

LEMMA BekalBarang ==
    ASSUME TypeInv, VarianSah', BekalInv, SellerTertib, NEW b \in DOMAIN barang,
           DownStokBarangInduk(b) \/ UpBarangInduk(b)
    PROVE  BekalInv'
<1>1. Tenang /\ UNCHANGED <<barang, kategori, proses>>
      /\ \E S : varian' = SetStatus(S, "Down") \/ varian' = SetStatus(S, "Ready")
  BY DEF DownStokBarangInduk, UpBarangInduk
<1>2. PICK S, s : s \in {"Down", "Ready"} /\ varian' = SetStatus(S, s)
  BY <1>1
<1>3. \A q \in Proses : proses'[q].tahap = "bebas"
  BY <1>1, TenangSepi DEF Sepi
<1>4. BarangTertahan /\ KategoriTertahan /\ StokTertahan
  BY <1>1, TertahanDiam
<1> QED BY <1>2, <1>3, <1>4, BekalStatus

\* The request of an orderly seller that writes, or is cut off.
LEMMA BekalTulisan ==
    ASSUME TypeInv, VarianSah', BekalInv, Tunggal, NEW p \in Proses,
           \/ HapusBarangTulis(p) \/ TambahTulis(p) \/ HapusKategoriTulis(p) \/ AsalTulis(p)
           \/ StokKurang(p) \/ StokTambah(p) \/ DownKategoriTulis(p) \/ UpKategoriTulis(p) \/ Putus(p)
    PROVE  BekalInv'
<1>1. \A q \in Proses : proses'[q].tahap = "bebas"
  <2>1. proses[p].tahap # "bebas" /\ Lepas(p)
    BY DEF HapusBarangTulis, TambahTulis, HapusKategoriTulis, AsalTulis, StokKurang, StokTambah,
           DownKategoriTulis, UpKategoriTulis, Putus
  <2>2. UNCHANGED latar \/ \E jenis, b, isi : Jalankan(jenis, b, isi)
    BY DEF HapusBarangTulis, TambahTulis, HapusKategoriTulis, AsalTulis, StokKurang, StokTambah,
           DownKategoriTulis, UpKategoriTulis, Putus
  <2> QED BY <2>1, <2>2, TunggalTulis
<1>2. CASE HapusBarangTulis(p) \/ HapusKategoriTulis(p)
  BY <1>1, <1>2, BekalHapus
<1>3. CASE TambahTulis(p)
  BY <1>1, <1>3, BekalTambah
<1>4. CASE StokKurang(p)
  BY <1>1, <1>4, BekalStokKurang
<1>5. CASE StokTambah(p)
  BY <1>1, <1>5, BekalStokTambah
<1>6. CASE DownKategoriTulis(p) \/ UpKategoriTulis(p)
  <2>1. UNCHANGED <<barang, kategori>> /\ \E S : varian' = SetStatus(S, "Down") \/ varian' = SetStatus(S, "Ready")
    BY <1>6 DEF DownKategoriTulis, UpKategoriTulis
  <2>2. PICK S, s : s \in {"Down", "Ready"} /\ varian' = SetStatus(S, s)
    BY <2>1
  <2>3. BarangTertahan /\ KategoriTertahan /\ StokTertahan
    BY <2>1, TertahanDiam
  <2> QED BY <1>1, <2>2, <2>3, BekalStatus
<1>7. CASE AsalTulis(p)
  <2>1. BarangTertahan /\ KategoriTertahan /\ StokTertahan /\ UNCHANGED varian
    BY <1>7, AsalEfek
  <2>2. PICK S, s : s \in {"Down", "Ready"}
    OBVIOUS
  <2> QED BY <1>1, <2>1, <2>2, BekalStatus
<1>8. CASE Putus(p)
  <2>1. UNCHANGED <<barang, kategori, varian>>
    BY <1>8 DEF Putus
  <2>2. BarangTertahan /\ KategoriTertahan /\ StokTertahan
    BY <2>1, TertahanDiam
  <2>3. PICK S, s : s \in {"Down", "Ready"}
    OBVIOUS
  <2> QED BY <1>1, <2>1, <2>2, <2>3, BekalStatus
<1> QED BY <1>2, <1>3, <1>4, <1>5, <1>6, <1>7, <1>8

LEMMA BekalDiam ==
    ASSUME BekalInv, UNCHANGED <<barang, kategori, varian, proses>>
    PROVE  BekalInv'
BY DEF BekalInv, StokTidakLebih, KategoriBerbarang, UnitTerbaca, VarianBerstatus, KategoriDari, BarangAda, KategoriAda

\* An orderly seller leaves no room for the checkouts of this scenario.
LEMMA TanpaPembeli ==
    ASSUME TypeInv, NEW q \in Pembeli, UNCHANGED pilihan
    PROVE  ~PembeliBaca(q) /\ ~PembeliTahan(q)
<1>1. pilihan \in [Pembeli -> Nat] /\ DOMAIN varian = 1 .. Len(varian) /\ Len(varian) \in Nat
  BY Dasar DEF TypeInv, PilihanSah
<1>2. ASSUME PembeliBaca(q) PROVE FALSE
  <2>1. PICK v \in DOMAIN varian : pilihan' = [pilihan EXCEPT ![q] = v]
    BY <1>2 DEF PembeliBaca
  <2>2. pilihan[q] = 0 /\ pilihan'[q] = v /\ v # 0
    BY <1>1, <1>2, <2>1 DEF PembeliBaca
  <2> QED BY <2>2
<1>3. ASSUME PembeliTahan(q) PROVE FALSE
  <2>1. pilihan[q] # 0 /\ pilihan' = [pilihan EXCEPT ![q] = 0]
    BY <1>3 DEF PembeliTahan
  <2>2. pilihan'[q] = 0
    BY <1>1, <2>1
  <2> QED BY <2>1, <2>2
<1> QED BY <1>2, <1>3

\* A request for a stock of 0 is not made.
LEMMA StokBukanNol ==
    ASSUME TypeInv, NEW p \in Proses, NEW k \in DOMAIN kategori, NEW n \in StokMasukan,
           EditStokKategoriBarang(p, k, n),
           \A q \in Proses : proses'[q].tahap = "stok" => proses'[q].jumlah # 0
    PROVE  n # 0
<1>1. PICK D : Mulai(p, [ProsesBebas EXCEPT !.tahap = "stok", !.barang = kategori[k].barang,
                                            !.kategori = k, !.jumlah = n, !.pilih = D])
  BY DEF EditStokKategoriBarang
<1>2. PICK r : r = [ProsesBebas EXCEPT !.tahap = "stok", !.barang = kategori[k].barang,
                                       !.kategori = k, !.jumlah = n, !.pilih = D]
  OBVIOUS
<1>3. r.tahap = "stok" /\ r.jumlah = n
  BY <1>2 DEF ProsesBebas
<1>4. proses' = [proses EXCEPT ![p] = r] /\ DOMAIN proses = Proses
  BY <1>1, <1>2 DEF Mulai, TypeInv, ProsesSah
<1>5. proses'[p] = r
  BY <1>4
<1> QED BY <1>3, <1>5

LEMMA BekalLangkah ==
    ASSUME SellerTertib, TypeInv, TypeInv', Tunggal, BekalInv, NextTertib
    PROVE  BekalInv'
<1>v. VarianSah'
  BY DEF TypeInv
<1>t. UNCHANGED pilihan /\ \A q \in Proses : proses'[q].tahap = "stok" => proses'[q].jumlah # 0
  BY DEF NextTertib
<1>1. ASSUME NEW isi \in Isi, NEW asal \in DOMAIN isi, MasukanBarangInduk(isi, asal) PROVE BekalInv'
  BY <1>1, <1>v, BekalMasukan
<1>2. ~MasukanGagal
  BY DEF MasukanGagal
<1>3. ASSUME NEW b \in DOMAIN barang, DownStokBarangInduk(b) \/ UpBarangInduk(b) PROVE BekalInv'
  BY <1>3, <1>v, BekalBarang
<1>4. ASSUME NEW p \in Proses, Langkah(p) PROVE BekalInv'
  <2>1. \A k \in DOMAIN kategori : \A n \in StokMasukan : EditStokKategoriBarang(p, k, n) => n # 0
    BY <1>t, StokBukanNol
  <2>2. \/ HapusBarangTulis(p) \/ TambahTulis(p) \/ HapusKategoriTulis(p) \/ AsalTulis(p)
        \/ StokKurang(p) \/ StokTambah(p) \/ DownKategoriTulis(p) \/ UpKategoriTulis(p) \/ Putus(p)
        => BekalInv'
    BY <1>v, BekalTulisan
  <2>3. (\E b \in DOMAIN barang : \/ HapusBarangInduk(p, b)
                                  \/ \E s \in StokAwal : TambahKategoriBarang(p, b, s)
                                  \/ \E k \in DOMAIN kategori : SetAsOriginKategoriBarang(p, b, k))
        => BekalInv'
    BY BekalBaca
  <2>4. (\E k \in DOMAIN kategori : \/ HapusKategoriBarang(p, k)
                                    \/ \E n \in StokMasukan : EditStokKategoriBarang(p, k, n)
                                    \/ \E j \in Jumlah : \/ DownKategoriBarang(p, k, j)
                                                         \/ UpKategoriBarang(p, k, j))
        => BekalInv'
    BY <2>1, BekalBaca
  <2> QED BY <1>4, <2>2, <2>3, <2>4 DEF Langkah
<1>5. ASSUME NEW i \in DOMAIN latar, Latar(i) PROVE BekalInv'
  BY <1>5, LatarDiam, BekalDiam
<1>6. \A q \in Pembeli : ~PembeliBaca(q) /\ ~PembeliTahan(q)
  BY <1>t, TanpaPembeli
<1>7. Next
  BY DEF NextTertib
<1> QED BY <1>1, <1>2, <1>3, <1>4, <1>5, <1>6, <1>7 DEF Next

LEMMA BekalInit == Init => BekalInv
<1> SUFFICES ASSUME Init PROVE BekalInv
  OBVIOUS
<1>1. kategori = << >> /\ \A p \in Proses : proses[p].tahap = "bebas"
  BY BebasTahap DEF Init
<1> QED BY <1>1, BebasTerbacaUnit DEF BekalInv, StokTidakLebih, KategoriBerbarang

BekalSkenario == skenario = "tertib" => TypeInv /\ YatimInv /\ BekalInv

LEMMA BekalSkenarioAwal == InitTiga => BekalSkenario
BY TypeInvInit, YatimInit, BekalInit DEF InitTiga, BekalSkenario

LEMMA BekalSkenarioLangkah ==
    ASSUME SellerTertib, BekalSkenario, [NextTiga]_varsTiga
    PROVE  BekalSkenario'
<1> SUFFICES ASSUME skenario = "tertib" PROVE TypeInv' /\ YatimInv' /\ BekalInv'
  <2>1. UNCHANGED skenario
    BY DEF NextTiga, varsTiga
  <2> QED BY <2>1 DEF BekalSkenario
<1>1. TypeInv /\ YatimInv /\ BekalInv
  BY DEF BekalSkenario
<1>2. CASE UNCHANGED varsTiga
  <2>1. UNCHANGED vars
    BY <1>2 DEF varsTiga
  <2>2. UNCHANGED <<barang, kategori, varian, proses>>
    BY <2>1 DEF vars
  <2> QED BY <1>1, <2>1, <2>2, YatimDiamVars, BekalDiam
<1>3. CASE NextTiga
  <2>1. NextTertib /\ Next
    BY <1>3 DEF NextTiga, NextTertib
  <2>2. TypeInv' /\ YatimInv'
    BY <1>1, <2>1, TypeInvLangkah, YatimLangkah
  <2>3. Tunggal
    BY <1>1 DEF YatimInv
  <2> QED BY <1>1, <2>1, <2>2, <2>3, BekalLangkah
<1> QED BY <1>2, <1>3

\* The stock column of a category never promises more units than there are, when the seller
\* waits for each answer, sets no stock to 0 and no checkout runs: EditStokKategoriBarang
\* compares with the Down units it has read, deletes or adds the difference, and writes the
\* wanted stock.
THEOREM StokBenar == SellerTertib => (SpecTiga => []StokTertib)
<1> SUFFICES ASSUME SellerTertib PROVE SpecTiga => []StokTertib
  OBVIOUS
<1>1. BekalSkenario /\ [NextTiga]_varsTiga => BekalSkenario'
  BY BekalSkenarioLangkah
<1>2. BekalSkenario => StokTertib
  BY DEF BekalSkenario, BekalInv, StokTertib
<1> QED BY BekalSkenarioAwal, <1>1, <1>2, PTL DEF SpecTiga

-----------------------------------------------------------------------------
(* The counters of an orderly seller.  A write leaves the tables of the     *)
(* counters behind, and its goroutine catches up: the invariant says what   *)
(* the goroutine that is left will make of the tables.                      *)

Sebanyak(b) == {j \in DOMAIN kategori : kategori[j].barang = b}
Kecil(b) == Cardinality(Sebanyak(b)) <= b

\* Row t of threshold_barang_induk says what there is of product b.
BarisBenar(b, t) ==
    /\ t.barang = b /\ t.ada = barang[b].ada
    /\ barang[b].ada => /\ t.kategori = Cardinality(KategoriDari(b))
                        /\ t.varian >= Cardinality(Hidup(b))

\* Row t of threshold_kategori_barang says what there is of category k.
HitungBenar(k, t) ==
    kategori[k].ada =>
        /\ t.ada
        /\ Kecil(kategori[k].barang) =>
              /\ t.down = Cardinality(VarianBerstatus(k, {"Down"}))
              /\ t.ready = Cardinality(VarianBerstatus(k, {"Ready"}))

\* The tables tB of the products' and tK of the categories' counters say what there is.
Sesuai(tB, tK) ==
    /\ DOMAIN tB = DOMAIN barang
    /\ \A b \in DOMAIN barang : BarisBenar(b, tB[b])
    /\ \A k \in DOMAIN kategori : HitungBenar(k, tK[k])

\* The row a new product starts with.
BarisAwal(b) == [barang |-> b, kategori |-> 0, varian |-> 0, ada |-> TRUE]
Dikosongkan(K) == [k \in DOMAIN ambangKategori |-> IF k \in K THEN AmbangKosong ELSE ambangKategori[k]]

\* What goroutine j makes of the two tables.
Hasil(j, tB, tK) ==
    \/ /\ j.jenis = "buat"
       /\ LET rows == Append(ambangBarang, BarisAwal(j.barang))
          IN  tB = IF j.barang \in DOMAIN rows /\ rows[j.barang].ada
                   THEN BarisUbah(rows, j.barang, Cardinality(DOMAIN j.isi), JumlahIsi(j.isi))
                   ELSE rows
       /\ tK = BarisBaru(j.isi)
    \/ /\ j.jenis = "tambah"
       /\ tB = TambahAmbang(j.barang, 1, JumlahIsi(j.isi)) /\ tK = BarisBaru(j.isi)
    \/ /\ j.jenis = "hapusBarang"
       /\ tB = [n \in DOMAIN ambangBarang |-> IF n \in BarisAmbang(j.barang)
                                              THEN [ambangBarang[n] EXCEPT !.ada = FALSE]
                                              ELSE ambangBarang[n]]
       /\ tK = Dikosongkan(DOMAIN j.isi)
    \/ /\ j.jenis = "hapusKategori"
       /\ tB = TambahAmbang(j.barang, -1, -JumlahIsi(j.isi)) /\ tK = Dikosongkan(DOMAIN j.isi)
    \/ /\ j.jenis = "stok"
       /\ tB = TambahAmbang(j.barang, 0, JumlahIsi(j.isi)) /\ tK = Geser(DOMAIN j.isi, j.isi, Nol)
    \/ /\ j.jenis = "turunBarang" /\ tB = ambangBarang
       /\ \E K \in Limit(KategoriDari(j.barang), j.barang) : tK = Geser(K, Siap, Balik(Siap))
    \/ /\ j.jenis = "naikBarang" /\ tB = ambangBarang
       /\ tK = Geser(DOMAIN j.isi, Balik(Turun), Turun)
    \/ /\ j.jenis = "turun" /\ tB = ambangBarang /\ tK = Geser(DOMAIN j.isi, j.isi, Balik(j.isi))
    \/ /\ j.jenis = "naik" /\ tB = ambangBarang /\ tK = Geser(DOMAIN j.isi, Balik(j.isi), j.isi)

\* The counters are right once the goroutine that is left has run.
AmbangInv ==
    /\ latar = << >> => Sesuai(ambangBarang, ambangKategori)
    /\ \A i \in DOMAIN latar : \A tB, tK : Hasil(latar[i], tB, tK) => Sesuai(tB, tK)

LEMMA KartuSelisih ==
    ASSUME NEW S, IsFiniteSet(S), NEW T, T \subseteq S
    PROVE  /\ IsFiniteSet(T) /\ Cardinality(T) \in Nat /\ Cardinality(S) \in Nat
           /\ IsFiniteSet(S \ T) /\ Cardinality(S \ T) \in Nat
           /\ Cardinality(S \ T) = Cardinality(S) - Cardinality(T) /\ Cardinality(T) <= Cardinality(S)
<1>1. IsFiniteSet(T) /\ Cardinality(T) <= Cardinality(S)
  BY FS_Subset
<1>2. IsFiniteSet(S \ T) /\ Cardinality(S \ T) = Cardinality(S) - Cardinality(S \cap T)
  BY FS_Difference
<1>3. S \cap T = T
  OBVIOUS
<1>4. Cardinality(T) \in Nat /\ Cardinality(S) \in Nat /\ Cardinality(S \ T) \in Nat
  BY <1>1, <1>2, FS_CardinalityType
<1> QED BY <1>1, <1>2, <1>3, <1>4

LEMMA KartuGabung ==
    ASSUME NEW S, IsFiniteSet(S), NEW T, IsFiniteSet(T), S \cap T = {}
    PROVE  /\ Cardinality(T) \in Nat /\ Cardinality(S) \in Nat /\ IsFiniteSet(S \cup T)
           /\ Cardinality(S \cup T) = Cardinality(S) + Cardinality(T)
<1>1. Cardinality(T) \in Nat /\ Cardinality(S) \in Nat
  BY FS_CardinalityType
<1>2. /\ IsFiniteSet(S \cup T)
      /\ Cardinality(S \cup T) = Cardinality(S) + Cardinality(T) - Cardinality(S \cap T)
  BY FS_Union
<1>3. Cardinality(S \cap T) = 0
  BY FS_EmptySet
<1> QED BY <1>1, <1>2, <1>3

LEMMA HinggaBarang ==
    ASSUME TypeInv, NEW b
    PROVE  /\ IsFiniteSet(Hidup(b)) /\ Cardinality(Hidup(b)) \in Nat
           /\ KategoriDari(b) \subseteq Sebanyak(b)
           /\ IsFiniteSet(KategoriDari(b)) /\ Cardinality(KategoriDari(b)) \in Nat
           /\ IsFiniteSet(Sebanyak(b)) /\ Cardinality(Sebanyak(b)) \in Nat
           /\ Cardinality(KategoriDari(b)) <= Cardinality(Sebanyak(b))
<1>1. /\ Len(varian) \in Nat /\ DOMAIN varian = 1 .. Len(varian)
      /\ Len(kategori) \in Nat /\ DOMAIN kategori = 1 .. Len(kategori)
  BY Dasar
<1>2. IsFiniteSet(1 .. Len(varian)) /\ IsFiniteSet(1 .. Len(kategori))
  BY <1>1, FS_Interval
<1>3. /\ Hidup(b) \subseteq 1 .. Len(varian) /\ Sebanyak(b) \subseteq 1 .. Len(kategori)
      /\ KategoriDari(b) \subseteq Sebanyak(b)
  BY <1>1 DEF Hidup, VarianBarangInduk, Sebanyak, KategoriDari
<1>4. IsFiniteSet(Hidup(b)) /\ IsFiniteSet(Sebanyak(b))
  BY <1>2, <1>3, FS_Subset
<1>5. IsFiniteSet(KategoriDari(b)) /\ Cardinality(KategoriDari(b)) <= Cardinality(Sebanyak(b))
  BY <1>3, <1>4, FS_Subset
<1> QED BY <1>3, <1>4, <1>5, FS_CardinalityType

LEMMA KecilTurun ==
    ASSUME TypeInv, KategoriSah', DOMAIN kategori \subseteq DOMAIN kategori',
           \A k \in DOMAIN kategori : kategori'[k].barang = kategori[k].barang, NEW b \in Nat, Kecil(b)'
    PROVE  Kecil(b)
<1>1. Len(kategori') \in Nat /\ DOMAIN kategori' = 1 .. Len(kategori')
  BY SeqDasar DEF KategoriSah
<1>2. IsFiniteSet(1 .. Len(kategori'))
  BY <1>1, FS_Interval
<1>3. Sebanyak(b)' \subseteq 1 .. Len(kategori') /\ Sebanyak(b) \subseteq Sebanyak(b)'
  BY <1>1 DEF Sebanyak
<1>4. IsFiniteSet(Sebanyak(b)')
  BY <1>2, <1>3, FS_Subset
<1>5. Cardinality(Sebanyak(b)) <= Cardinality(Sebanyak(b)')
  BY <1>3, <1>4, FS_Subset
<1>6. Cardinality(Sebanyak(b)) \in Nat /\ Cardinality(Sebanyak(b)') \in Nat
  BY <1>4, HinggaBarang, FS_CardinalityType
<1>7. Cardinality(Sebanyak(b)') <= b
  BY DEF Kecil
<1> QED BY <1>5, <1>6, <1>7 DEF Kecil

LEMMA BarisTetap ==
    ASSUME TypeInv, NEW b, NEW t \in TipeAmbang, BarisBenar(b, t), barang'[b].ada = barang[b].ada,
           KategoriDari(b)' = KategoriDari(b), Hidup(b)' \subseteq Hidup(b)
    PROVE  BarisBenar(b, t)'
<1>1. Cardinality(Hidup(b)') <= Cardinality(Hidup(b)) /\ Cardinality(Hidup(b)') \in Nat
  BY HinggaBarang, FS_Subset, FS_CardinalityType
<1>2. Cardinality(Hidup(b)) \in Nat /\ t.varian \in Int
  BY HinggaBarang DEF TipeAmbang
<1>3. barang[b].ada => t.varian >= Cardinality(Hidup(b)')
  BY <1>1, <1>2 DEF BarisBenar
<1> QED BY <1>3 DEF BarisBenar

LEMMA HitungTetapBenar ==
    ASSUME TypeInv, KategoriSah', DOMAIN kategori \subseteq DOMAIN kategori',
           \A j \in DOMAIN kategori : kategori'[j].barang = kategori[j].barang,
           NEW k \in DOMAIN kategori, kategori'[k].ada => kategori[k].ada,
           VarianBerstatus(k, {"Down"})' = VarianBerstatus(k, {"Down"}),
           VarianBerstatus(k, {"Ready"})' = VarianBerstatus(k, {"Ready"}),
           NEW t, HitungBenar(k, t)
    PROVE  HitungBenar(k, t)'
<1>1. kategori'[k].barang = kategori[k].barang /\ kategori[k].barang \in Nat
  BY Dasar DEF TipeRak
<1>2. PICK b \in Nat : b = kategori[k].barang
  BY <1>1
<1>3. Kecil(b)' => Kecil(b)
  BY KecilTurun
<1> QED BY <1>1, <1>2, <1>3 DEF HitungBenar

LEMMA HasilTetap ==
    ASSUME UNCHANGED <<ambangBarang, ambangKategori>>, NEW j, NEW tB, NEW tK, Hasil(j, tB, tK)',
           j.jenis = "turunBarang" => KategoriDari(j.barang)' = KategoriDari(j.barang)
    PROVE  Hasil(j, tB, tK)
<1>1. /\ \A isi : BarisBaru(isi)' = BarisBaru(isi)
      /\ \A b, dk, dv : TambahAmbang(b, dk, dv)' = TambahAmbang(b, dk, dv)
      /\ \A b : BarisAmbang(b)' = BarisAmbang(b)
      /\ \A K : Dikosongkan(K)' = Dikosongkan(K)
      /\ Nol' = Nol /\ Siap' = Siap /\ Turun' = Turun
  BY DEF BarisBaru, TambahAmbang, BarisAmbang, Dikosongkan, Nol, Siap, Turun
<1>2. \A K, f, g : Geser(K, f, g)' = Geser(K, f, g)
  BY DEF Geser
<1>3. CASE j.jenis = "turunBarang"
  <2>1. tB = ambangBarang /\ \E K \in Limit(KategoriDari(j.barang), j.barang)' : tK = Geser(K, Siap, Balik(Siap))'
    BY <1>3 DEF Hasil
  <2>2. Limit(KategoriDari(j.barang), j.barang)' = Limit(KategoriDari(j.barang), j.barang)
    BY <1>3 DEF Limit
  <2>3. \A K : Geser(K, Siap, Balik(Siap))' = Geser(K, Siap, Balik(Siap))
    BY <1>1 DEF Geser, Balik
  <2> QED BY <1>3, <2>1, <2>2, <2>3 DEF Hasil
<1>4. CASE j.jenis = "naikBarang"
  <2>1. Geser(DOMAIN j.isi, Balik(Turun), Turun)' = Geser(DOMAIN j.isi, Balik(Turun), Turun)
    BY <1>1 DEF Geser, Balik
  <2> QED BY <1>4, <2>1 DEF Hasil
<1>5. CASE j.jenis = "stok"
  <2>1. Geser(DOMAIN j.isi, j.isi, Nol)' = Geser(DOMAIN j.isi, j.isi, Nol)
    BY <1>1 DEF Geser
  <2> QED BY <1>1, <1>5, <2>1 DEF Hasil
<1>6. CASE j.jenis \in {"turun", "naik"}
  BY <1>2, <1>6 DEF Hasil, Geser, Balik
<1>7. CASE j.jenis \notin {"turunBarang", "naikBarang", "stok", "turun", "naik"}
  BY <1>1, <1>7 DEF Hasil
<1> QED BY <1>3, <1>4, <1>5, <1>6, <1>7

LEMMA AmbangSatu ==
    ASSUME latar = << >>, NEW jenis, NEW b, NEW isi, Jalankan(jenis, b, isi),
           UNCHANGED <<ambangBarang, ambangKategori>>,
           NEW j, j = [jenis |-> jenis, barang |-> b, isi |-> isi],
           jenis = "turunBarang" => KategoriDari(b)' = KategoriDari(b),
           \A tB, tK : Hasil(j, tB, tK) => Sesuai(tB, tK)'
    PROVE  AmbangInv'
<1>1. Len(latar') = 1 /\ DOMAIN latar' = {1} /\ latar'[1] = j
  BY SatuLatar
<1>2. latar' # << >>
  BY <1>1
<1>3. \A tB, tK : Hasil(j, tB, tK)' => Sesuai(tB, tK)'
  <2>1. ASSUME NEW tB, NEW tK, Hasil(j, tB, tK)' PROVE Hasil(j, tB, tK)
    <3>1. j.jenis = "turunBarang" => KategoriDari(j.barang)' = KategoriDari(j.barang)
      OBVIOUS
    <3> QED BY <2>1, <3>1, HasilTetap
  <2> QED BY <2>1
<1> QED BY <1>1, <1>2, <1>3 DEF AmbangInv

LEMMA TabelDasar ==
    ASSUME TypeInv, Sesuai(ambangBarang, ambangKategori)
    PROVE  /\ DOMAIN ambangBarang = DOMAIN barang
           /\ \A b \in DOMAIN barang : ambangBarang[b] \in TipeAmbang /\ BarisBenar(b, ambangBarang[b])
           /\ \A k \in DOMAIN kategori : /\ k \in DOMAIN ambangKategori
                                         /\ ambangKategori[k] \in TipeHitung
                                         /\ HitungBenar(k, ambangKategori[k])
<1>1. DOMAIN ambangBarang = DOMAIN barang
  BY DEF Sesuai
<1>2. \A b \in DOMAIN barang : ambangBarang[b] \in TipeAmbang /\ BarisBenar(b, ambangBarang[b])
  BY <1>1, Dasar DEF Sesuai
<1>3. \A k \in DOMAIN kategori : k \in DOMAIN ambangKategori
  BY Dasar, HitungDasar
<1> QED BY <1>1, <1>2, <1>3, HitungDasar DEF Sesuai

\* S, units with status a, get status s: what a category loses and gains.
Pindah(S, a, s) ==
    \A k : /\ Cardinality(VarianBerstatus(k, {s})') =
                 Cardinality(VarianBerstatus(k, {s})) + Cardinality(S \cap VarianBerstatus(k, {a}))
           /\ Cardinality(VarianBerstatus(k, {a})') =
                 Cardinality(VarianBerstatus(k, {a})) - Cardinality(S \cap VarianBerstatus(k, {a}))

LEMMA StatusPindah ==
    ASSUME TypeInv, NEW a \in {"Down", "Ready"}, NEW s \in {"Down", "Ready"}, a # s, NEW S,
           S \subseteq DOMAIN varian, \A v \in S : varian[v].status = a, varian' = SetStatus(S, s)
    PROVE  Pindah(S, a, s)
<1>1. ASSUME NEW k
      PROVE /\ Cardinality(VarianBerstatus(k, {s})') =
                 Cardinality(VarianBerstatus(k, {s})) + Cardinality(S \cap VarianBerstatus(k, {a}))
            /\ Cardinality(VarianBerstatus(k, {a})') =
                 Cardinality(VarianBerstatus(k, {a})) - Cardinality(S \cap VarianBerstatus(k, {a}))
  <2>1. s \in StatusVarian /\ a \notin {"terhapus"} /\ s \in {s} /\ s \notin {a} /\ "terhapus" \notin {a}
    BY DEF StatusVarian
  <2>2. PICK M : M = S \cap VarianBerstatus(k, {a})
    OBVIOUS
  <2>3. M = {v \in S \cap DOMAIN varian : varian[v].kategori = k /\ varian[v].status # "terhapus"}
    BY <2>1, <2>2 DEF VarianBerstatus
  <2>4. VarianBerstatus(k, {s})' = VarianBerstatus(k, {s}) \cup M
    BY <2>1, <2>3, StatusHitung
  <2>5. VarianBerstatus(k, {a})' = VarianBerstatus(k, {a}) \ S
    <3>1. \A X : s \notin X /\ "terhapus" \notin X => VarianBerstatus(k, X)' = VarianBerstatus(k, X) \ S
      BY <2>1, StatusHitung
    <3> QED BY <2>1, <3>1
  <2>6. VarianBerstatus(k, {a}) \ S = VarianBerstatus(k, {a}) \ M
    BY <2>2
  <2>7. VarianBerstatus(k, {s}) \cap M = {}
    BY <2>2 DEF VarianBerstatus
  <2>8. M \subseteq VarianBerstatus(k, {a})
    BY <2>2
  <2>9. IsFiniteSet(VarianBerstatus(k, {s})) /\ IsFiniteSet(VarianBerstatus(k, {a}))
    BY HinggaVarian
  <2>10. IsFiniteSet(M) /\ Cardinality(VarianBerstatus(k, {a}) \ M) =
            Cardinality(VarianBerstatus(k, {a})) - Cardinality(M)
    BY <2>8, <2>9, KartuSelisih
  <2>11. Cardinality(VarianBerstatus(k, {s}) \cup M) = Cardinality(VarianBerstatus(k, {s})) + Cardinality(M)
    BY <2>7, <2>9, <2>10, KartuGabung
  <2> QED BY <2>2, <2>4, <2>5, <2>6, <2>10, <2>11
<1> QED BY <1>1 DEF Pindah

\* The goods stay what they are except for the status of units on sale or off sale.
LEMMA BarisStatus ==
    ASSUME TypeInv, BarangTertahan, KategoriTertahan, NEW S, NEW s \in {"Down", "Ready"},
           varian' = SetStatus(S, s), Sesuai(ambangBarang, ambangKategori), NEW tB, tB = ambangBarang
    PROVE  /\ DOMAIN tB = DOMAIN barang'
           /\ \A b \in DOMAIN barang' : BarisBenar(b, tB[b])'
<1>1. DOMAIN ambangBarang = DOMAIN barang /\ DOMAIN barang' = DOMAIN barang
  BY TabelDasar DEF BarangTertahan
<1>2. ASSUME NEW b \in DOMAIN barang PROVE BarisBenar(b, tB[b])'
  <2>1. PICK t \in TipeAmbang : t = ambangBarang[b] /\ BarisBenar(b, t)
    BY TabelDasar
  <2>2. barang'[b].ada = barang[b].ada
    BY DEF BarangTertahan
  <2>3. KategoriDari(b)' = KategoriDari(b)
    BY DEF KategoriTertahan, KategoriDari
  <2>4. Hidup(b)' = Hidup(b)
    <3>1. s \in StatusVarian /\ s # "terhapus"
      BY DEF StatusVarian
    <3> QED BY <3>1, StatusHidup
  <2>5. BarisBenar(b, t)'
    BY <2>1, <2>2, <2>3, <2>4, BarisTetap
  <2>6. t = tB[b]
    BY <2>1
  <2> QED BY <2>5, <2>6
<1> QED BY <1>1, <1>2

LEMMA HitungJadi ==
    ASSUME TypeInv, KategoriSah', DOMAIN kategori \subseteq DOMAIN kategori',
           \A j \in DOMAIN kategori : kategori'[j].barang = kategori[j].barang,
           NEW k \in DOMAIN kategori, kategori'[k].ada => kategori[k].ada, NEW t,
           kategori[k].ada =>
              /\ t.ada
              /\ Kecil(kategori[k].barang) =>
                    /\ t.down = Cardinality(VarianBerstatus(k, {"Down"})')
                    /\ t.ready = Cardinality(VarianBerstatus(k, {"Ready"})')
    PROVE  HitungBenar(k, t)'
<1>1. kategori'[k].barang = kategori[k].barang /\ kategori[k].barang \in Nat
  BY Dasar DEF TipeRak
<1>2. PICK b \in Nat : b = kategori[k].barang
  BY <1>1
<1>3. Kecil(b)' => Kecil(b)
  BY KecilTurun
<1> QED BY <1>1, <1>2, <1>3 DEF HitungBenar

LEMMA GeserNilai ==
    ASSUME NEW K, NEW f, NEW g, NEW k \in DOMAIN ambangKategori
    PROVE  /\ k \notin K => Geser(K, f, g)[k] = ambangKategori[k]
           /\ k \in K /\ ambangKategori[k].ada =>
                 /\ Geser(K, f, g)[k].ada
                 /\ Geser(K, f, g)[k].down = ambangKategori[k].down + f[k]
                 /\ Geser(K, f, g)[k].ready = ambangKategori[k].ready + g[k]
BY DEF Geser

\* What the counter m of a category with d units off and s on sale becomes is right for
\* the category afterwards.
LEMMA HitungLalu ==
    ASSUME TypeInv, NEW k \in DOMAIN kategori, kategori[k].ada, Sesuai(ambangBarang, ambangKategori)
    PROVE  /\ k \in DOMAIN ambangKategori /\ ambangKategori[k].ada
           /\ ambangKategori[k].down \in Int /\ ambangKategori[k].ready \in Int
           /\ Kecil(kategori[k].barang) =>
                 /\ ambangKategori[k].down = Cardinality(VarianBerstatus(k, {"Down"}))
                 /\ ambangKategori[k].ready = Cardinality(VarianBerstatus(k, {"Ready"}))
BY TabelDasar, HitungDasar DEF HitungBenar

LEMMA AmbangGeser ==
    ASSUME TypeInv, KategoriSah', UNCHANGED <<barang, kategori, ambangBarang, ambangKategori>>,
           Sesuai(ambangBarang, ambangKategori), latar = << >>,
           NEW jenis \in {"turun", "naik"}, NEW a \in {"Down", "Ready"}, NEW s \in {"Down", "Ready"}, a # s,
           jenis = "turun" <=> s = "Down",
           NEW k0, NEW S, S \subseteq VarianBerstatus(k0, {a}), varian' = SetStatus(S, s),
           Jalankan(jenis, 0, [k \in {k0} |-> Cardinality(S)])
    PROVE  AmbangInv'
<1>1. PICK isi : isi = [k \in {k0} |-> Cardinality(S)]
  OBVIOUS
<1>2. DOMAIN isi = {k0} /\ isi[k0] = Cardinality(S) /\ Balik(isi)[k0] = -Cardinality(S)
  BY <1>1 DEF Balik
<1>3. PICK j : j = [jenis |-> jenis, barang |-> 0, isi |-> isi]
  OBVIOUS
<1>4. IsFiniteSet(S) /\ Cardinality(S) \in Nat
  BY HinggaVarian, FS_Subset, FS_CardinalityType
<1>5. Pindah(S, a, s)
  <2>1. S \subseteq DOMAIN varian /\ \A v \in S : varian[v].status = a
    BY DEF VarianBerstatus
  <2> QED BY <2>1, StatusPindah
<1>6. BarangTertahan /\ KategoriTertahan
  BY TertahanDiam
<1>7. ASSUME NEW tB, NEW tK, Hasil(j, tB, tK) PROVE Sesuai(tB, tK)'
  <2>1. tB = ambangBarang /\ tK = IF s = "Down" THEN Geser({k0}, isi, Balik(isi)) ELSE Geser({k0}, Balik(isi), isi)
    BY <1>2, <1>3, <1>7 DEF Hasil
  <2>2. ASSUME NEW k \in DOMAIN kategori' PROVE HitungBenar(k, tK[k])'
    <3>1. k \in DOMAIN kategori
      OBVIOUS
    <3>2. ASSUME kategori[k].ada
          PROVE  /\ tK[k].ada
                 /\ Kecil(kategori[k].barang) =>
                       /\ tK[k].down = Cardinality(VarianBerstatus(k, {"Down"})')
                       /\ tK[k].ready = Cardinality(VarianBerstatus(k, {"Ready"})')
      <4>1. PICK d, u : d = Cardinality(VarianBerstatus(k, {"Down"})) /\ u = Cardinality(VarianBerstatus(k, {"Ready"}))
        OBVIOUS
      <4>2. d \in Nat /\ u \in Nat
        BY <4>1, HinggaVarian
      <4>3. /\ k \in DOMAIN ambangKategori /\ ambangKategori[k].ada
            /\ ambangKategori[k].down \in Int /\ ambangKategori[k].ready \in Int
            /\ Kecil(kategori[k].barang) => ambangKategori[k].down = d /\ ambangKategori[k].ready = u
        BY <3>1, <3>2, <4>1, HitungLalu
      <4>4. CASE k = k0
        <5>1. S \cap VarianBerstatus(k, {a}) = S
          BY <4>4
        <5>2. s = "Down" => /\ Cardinality(VarianBerstatus(k, {"Down"})') = d + Cardinality(S)
                            /\ Cardinality(VarianBerstatus(k, {"Ready"})') = u - Cardinality(S)
          BY <1>5, <4>1, <5>1 DEF Pindah
        <5>3. s = "Ready" => /\ Cardinality(VarianBerstatus(k, {"Ready"})') = u + Cardinality(S)
                             /\ Cardinality(VarianBerstatus(k, {"Down"})') = d - Cardinality(S)
          BY <1>5, <4>1, <5>1 DEF Pindah
        <5>4. k \in {k0}
          BY <4>4
        <5>5. CASE s = "Down"
          <6>1. tK = Geser({k0}, isi, Balik(isi))
            BY <2>1, <5>5
          <6>2. /\ tK[k].ada
                /\ tK[k].down = ambangKategori[k].down + isi[k]
                /\ tK[k].ready = ambangKategori[k].ready + Balik(isi)[k]
            BY <4>3, <5>4, <6>1, GeserNilai
          <6> QED BY <1>2, <1>4, <4>2, <4>3, <4>4, <5>2, <5>5, <6>2
        <5>6. CASE s = "Ready"
          <6>1. tK = Geser({k0}, Balik(isi), isi)
            BY <2>1, <5>6
          <6>2. /\ tK[k].ada
                /\ tK[k].down = ambangKategori[k].down + Balik(isi)[k]
                /\ tK[k].ready = ambangKategori[k].ready + isi[k]
            BY <4>3, <5>4, <6>1, GeserNilai
          <6> QED BY <1>2, <1>4, <4>2, <4>3, <4>4, <5>3, <5>6, <6>2
        <5> QED BY <5>5, <5>6
      <4>5. CASE k # k0
        <5>1. S \cap VarianBerstatus(k, {a}) = {}
          BY <4>5 DEF VarianBerstatus
        <5>2. Cardinality(S \cap VarianBerstatus(k, {a})) = 0
          BY <5>1, FS_EmptySet
        <5>3. /\ Cardinality(VarianBerstatus(k, {"Down"})') = d
              /\ Cardinality(VarianBerstatus(k, {"Ready"})') = u
          <6>1. /\ Cardinality(VarianBerstatus(k, {s})') = Cardinality(VarianBerstatus(k, {s})) + 0
                /\ Cardinality(VarianBerstatus(k, {a})') = Cardinality(VarianBerstatus(k, {a})) - 0
            BY <1>5, <5>2 DEF Pindah
          <6>2. CASE s = "Down" /\ a = "Ready"
            BY <4>1, <4>2, <6>1, <6>2
          <6>3. CASE s = "Ready" /\ a = "Down"
            BY <4>1, <4>2, <6>1, <6>3
          <6> QED BY <6>2, <6>3
        <5>4. tK[k] = ambangKategori[k]
          BY <2>1, <4>3, <4>5, GeserNilai
        <5> QED BY <4>3, <5>3, <5>4
      <4> QED BY <4>4, <4>5
    <3> QED BY <3>1, <3>2, HitungJadi
  <2>3. /\ DOMAIN tB = DOMAIN barang'
        /\ \A b \in DOMAIN barang' : BarisBenar(b, tB[b])'
    BY <1>6, <2>1, BarisStatus
  <2> QED BY <2>2, <2>3 DEF Sesuai
<1>8. Jalankan(jenis, 0, isi)
  BY <1>1
<1> QED BY <1>3, <1>7, <1>8, AmbangSatu

LEMMA AmbangUnit ==
    ASSUME TypeInv, KategoriSah', BekalInv, Sesuai(ambangBarang, ambangKategori), latar = << >>,
           NEW p \in Proses, DownKategoriTulis(p) \/ UpKategoriTulis(p)
    PROVE  AmbangInv'
<1>1. PICK r : r = proses[p]
  OBVIOUS
<1>2. UNCHANGED <<ambangBarang, ambangKategori>>
  BY DEF DownKategoriTulis, UpKategoriTulis
<1>3. UnitTerbaca(r)
  BY <1>1 DEF BekalInv
<1>4. /\ UNCHANGED <<barang, kategori>>
      /\ \/ /\ r.tahap = "turun" /\ varian' = SetStatus(r.pilih, "Down")
            /\ Jalankan("turun", 0, [k \in {r.kategori} |-> Cardinality(r.pilih)])
         \/ /\ r.tahap = "naik" /\ varian' = SetStatus(r.pilih, "Ready")
            /\ Jalankan("naik", 0, [k \in {r.kategori} |-> Cardinality(r.pilih)])
  BY <1>1, UnitEfek
<1>5. CASE /\ r.tahap = "turun" /\ varian' = SetStatus(r.pilih, "Down")
           /\ Jalankan("turun", 0, [k \in {r.kategori} |-> Cardinality(r.pilih)])
  <2>1. r.pilih \subseteq VarianBerstatus(r.kategori, {"Ready"})
    BY <1>3, <1>5 DEF UnitTerbaca
  <2> QED BY <1>2, <1>4, <1>5, <2>1, AmbangGeser
<1>6. CASE /\ r.tahap = "naik" /\ varian' = SetStatus(r.pilih, "Ready")
           /\ Jalankan("naik", 0, [k \in {r.kategori} |-> Cardinality(r.pilih)])
  <2>1. r.pilih \subseteq VarianBerstatus(r.kategori, {"Down"})
    BY <1>3, <1>6 DEF UnitTerbaca
  <2> QED BY <1>2, <1>4, <1>6, <2>1, AmbangGeser
<1> QED BY <1>4, <1>5, <1>6

\* Every category of product b, as far as it is small, has all its units with status a
\* moved to s; the counters of the categories K are moved by whole columns.
LEMMA AmbangSemua ==
    ASSUME TypeInv, KategoriSah', UNCHANGED <<barang, kategori>>, Sesuai(ambangBarang, ambangKategori),
           NEW b \in DOMAIN barang, NEW a \in {"Down", "Ready"}, NEW s \in {"Down", "Ready"}, a # s,
           varian' = SetStatus({v \in VarianBarangInduk(b) : varian[v].status = a}, s),
           NEW K, K \subseteq KategoriDari(b), Kecil(b) => K = KategoriDari(b), NEW tB, tB = ambangBarang,
           NEW tK, tK = IF s = "Down" THEN Geser(K, Siap, Balik(Siap)) ELSE Geser(K, Balik(Turun), Turun)
    PROVE  Sesuai(tB, tK)'
<1>1. PICK S : S = {v \in VarianBarangInduk(b) : varian[v].status = a}
  OBVIOUS
<1>2. S \subseteq DOMAIN varian /\ (\A v \in S : varian[v].status = a) /\ varian' = SetStatus(S, s)
  BY <1>1 DEF VarianBarangInduk
<1>3. Pindah(S, a, s)
  BY <1>2, StatusPindah
<1>4. BarangTertahan /\ KategoriTertahan
  BY TertahanDiam
<1>5. ASSUME NEW k \in DOMAIN kategori, kategori[k].ada
      PROVE  /\ tK[k].ada
             /\ Kecil(kategori[k].barang) =>
                   /\ tK[k].down = Cardinality(VarianBerstatus(k, {"Down"})')
                   /\ tK[k].ready = Cardinality(VarianBerstatus(k, {"Ready"})')
  <2>1. PICK d, u : d = Cardinality(VarianBerstatus(k, {"Down"})) /\ u = Cardinality(VarianBerstatus(k, {"Ready"}))
    OBVIOUS
  <2>2. d \in Nat /\ u \in Nat
    BY <2>1, HinggaVarian
  <2>3. /\ k \in DOMAIN ambangKategori /\ ambangKategori[k].ada
        /\ ambangKategori[k].down \in Int /\ ambangKategori[k].ready \in Int
        /\ Kecil(kategori[k].barang) => ambangKategori[k].down = d /\ ambangKategori[k].ready = u
    BY <1>5, <2>1, HitungLalu
  <2>4. CASE kategori[k].barang = b
    <3>1. S \cap VarianBerstatus(k, {a}) = VarianBerstatus(k, {a})
      BY <1>1, <2>4 DEF VarianBerstatus, VarianBarangInduk
    <3>2. Cardinality(VarianBerstatus(k, {a})) \in Nat
      BY HinggaVarian
    <3>3. /\ Cardinality(VarianBerstatus(k, {s})') =
                Cardinality(VarianBerstatus(k, {s})) + Cardinality(VarianBerstatus(k, {a}))
          /\ Cardinality(VarianBerstatus(k, {a})') = 0
      <4>1. /\ Cardinality(VarianBerstatus(k, {s})') =
                   Cardinality(VarianBerstatus(k, {s})) + Cardinality(S \cap VarianBerstatus(k, {a}))
            /\ Cardinality(VarianBerstatus(k, {a})') =
                   Cardinality(VarianBerstatus(k, {a})) - Cardinality(S \cap VarianBerstatus(k, {a}))
        BY <1>3 DEF Pindah
      <4>2. Cardinality(S \cap VarianBerstatus(k, {a})) = Cardinality(VarianBerstatus(k, {a}))
        BY <3>1
      <4> QED BY <3>2, <4>1, <4>2
    <3>4. k \in KategoriDari(b)
      BY <1>5, <2>4 DEF KategoriDari
    <3>5. /\ Siap[k] = ambangKategori[k].ready /\ Balik(Siap)[k] = -ambangKategori[k].ready
          /\ Turun[k] = ambangKategori[k].down /\ Balik(Turun)[k] = -ambangKategori[k].down
      BY <2>3 DEF Siap, Turun, Balik
    <3>6. CASE s = "Down"
      <4>1. tK = Geser(K, Siap, Balik(Siap)) /\ a = "Ready"
        BY <3>6
      <4>2. k \notin K => tK[k] = ambangKategori[k]
        BY <2>3, <4>1, GeserNilai
      <4>3. k \in K => /\ tK[k].ada
                       /\ tK[k].down = ambangKategori[k].down + Siap[k]
                       /\ tK[k].ready = ambangKategori[k].ready + Balik(Siap)[k]
        BY <2>3, <4>1, GeserNilai
      <4>4. tK[k].ada
        BY <2>3, <4>2, <4>3
      <4>5. ASSUME Kecil(kategori[k].barang)
            PROVE  tK[k].down = d + u /\ tK[k].ready = 0
        BY <2>2, <2>3, <2>4, <3>4, <3>5, <4>3, <4>5
      <4> QED BY <2>1, <3>3, <3>6, <4>1, <4>4, <4>5
    <3>7. CASE s = "Ready"
      <4>1. tK = Geser(K, Balik(Turun), Turun) /\ a = "Down"
        BY <3>7
      <4>2. k \notin K => tK[k] = ambangKategori[k]
        BY <2>3, <4>1, GeserNilai
      <4>3. k \in K => /\ tK[k].ada
                       /\ tK[k].down = ambangKategori[k].down + Balik(Turun)[k]
                       /\ tK[k].ready = ambangKategori[k].ready + Turun[k]
        BY <2>3, <4>1, GeserNilai
      <4>4. tK[k].ada
        BY <2>3, <4>2, <4>3
      <4>5. ASSUME Kecil(kategori[k].barang)
            PROVE  tK[k].down = 0 /\ tK[k].ready = u + d
        BY <2>2, <2>3, <2>4, <3>4, <3>5, <4>3, <4>5
      <4> QED BY <2>1, <3>3, <3>7, <4>1, <4>4, <4>5
    <3> QED BY <3>6, <3>7
  <2>5. CASE kategori[k].barang # b
    <3>1. S \cap VarianBerstatus(k, {a}) = {}
      BY <1>1, <2>5 DEF VarianBerstatus, VarianBarangInduk
    <3>2. Cardinality(S \cap VarianBerstatus(k, {a})) = 0
      BY <3>1, FS_EmptySet
    <3>3. /\ Cardinality(VarianBerstatus(k, {s})') = Cardinality(VarianBerstatus(k, {s})) + 0
          /\ Cardinality(VarianBerstatus(k, {a})') = Cardinality(VarianBerstatus(k, {a})) - 0
      BY <1>3, <3>2 DEF Pindah
    <3>4. /\ Cardinality(VarianBerstatus(k, {"Down"})') = d
          /\ Cardinality(VarianBerstatus(k, {"Ready"})') = u
      <4>1. CASE s = "Down" /\ a = "Ready"
        BY <2>1, <2>2, <3>3, <4>1
      <4>2. CASE s = "Ready" /\ a = "Down"
        BY <2>1, <2>2, <3>3, <4>2
      <4> QED BY <4>1, <4>2
    <3>5. k \notin K
      BY <2>5 DEF KategoriDari
    <3>6. tK[k] = ambangKategori[k]
      BY <2>3, <3>5, GeserNilai
    <3> QED BY <2>3, <3>4, <3>6
  <2> QED BY <2>4, <2>5
<1>6. ASSUME NEW k \in DOMAIN kategori' PROVE HitungBenar(k, tK[k])'
  <2>1. k \in DOMAIN kategori
    OBVIOUS
  <2>2. PICK t : t = tK[k]
    OBVIOUS
  <2>3. HitungBenar(k, t)'
    BY <1>5, <2>1, <2>2, HitungJadi
  <2> QED BY <2>2, <2>3
<1>7. /\ DOMAIN tB = DOMAIN barang'
      /\ \A c \in DOMAIN barang' : BarisBenar(c, tB[c])'
  BY <1>2, <1>4, BarisStatus
<1> QED BY <1>6, <1>7 DEF Sesuai

LEMMA AmbangTurunBarang ==
    ASSUME TypeInv, KategoriSah', SellerTertib, Sesuai(ambangBarang, ambangKategori),
           NEW b \in DOMAIN barang, DownStokBarangInduk(b)
    PROVE  AmbangInv'
<1>1. latar = << >>
  BY TenangSepi DEF DownStokBarangInduk, Sepi
<1>2. /\ varian' = SetStatus({v \in VarianBarangInduk(b) : varian[v].status = "Ready"}, "Down")
      /\ Jalankan("turunBarang", b, << >>)
      /\ UNCHANGED <<barang, kategori, ambangBarang, ambangKategori>>
  BY DEF DownStokBarangInduk
<1>3. PICK j : j = [jenis |-> "turunBarang", barang |-> b, isi |-> << >>]
  OBVIOUS
<1>4. ASSUME NEW tB, NEW tK, Hasil(j, tB, tK) PROVE Sesuai(tB, tK)'
  <2>1. tB = ambangBarang /\ \E K \in Limit(KategoriDari(b), b) : tK = Geser(K, Siap, Balik(Siap))
    BY <1>3, <1>4 DEF Hasil
  <2>2. PICK K \in Limit(KategoriDari(b), b) : tK = Geser(K, Siap, Balik(Siap))
    BY <2>1
  <2>3. b \in Nat
    BY Dasar
  <2>4. K \subseteq KategoriDari(b) /\ (Cardinality(KategoriDari(b)) <= b => K = KategoriDari(b))
    BY <2>2, <2>3, HinggaBarang, LimitUkuran
  <2>5. Kecil(b) => K = KategoriDari(b)
    BY <2>3, <2>4, HinggaBarang DEF Kecil
  <2>6. "Ready" \in {"Down", "Ready"} /\ "Down" \in {"Down", "Ready"} /\ "Ready" # "Down"
    OBVIOUS
  <2> QED BY <1>2, <2>1, <2>2, <2>4, <2>5, <2>6, AmbangSemua
<1>5. KategoriDari(b)' = KategoriDari(b)
  BY <1>2 DEF KategoriDari
<1> QED BY <1>1, <1>2, <1>3, <1>4, <1>5, AmbangSatu

LEMMA AmbangNaikBarang ==
    ASSUME TypeInv, KategoriSah', SellerTertib, Sesuai(ambangBarang, ambangKategori),
           NEW b \in DOMAIN barang, UpBarangInduk(b)
    PROVE  AmbangInv'
<1>1. latar = << >>
  BY TenangSepi DEF UpBarangInduk, Sepi
<1>2. /\ varian' = SetStatus({v \in VarianBarangInduk(b) : varian[v].status = "Down"}, "Ready")
      /\ UNCHANGED <<barang, kategori, ambangBarang, ambangKategori>> /\ BarangAda(b)
  BY DEF UpBarangInduk
<1>3. PICK n \in BarisAmbang(b) :
         \E K \in Limit(KategoriDari(b), IF ambangBarang[n].kategori < 0 THEN MaxKategori
                                         ELSE ambangBarang[n].kategori) :
            Jalankan("naikBarang", b, [k \in K |-> 0])
  BY DEF UpBarangInduk
<1>4. n = b /\ ambangBarang[n].kategori = Cardinality(KategoriDari(b))
  <2>1. n \in DOMAIN barang /\ ambangBarang[n].barang = b
    BY <1>3, TabelDasar DEF BarisAmbang
  <2>2. ambangBarang[n].barang = n
    BY <2>1, TabelDasar DEF BarisBenar
  <2>3. n = b
    BY <2>1, <2>2
  <2> QED BY <1>2, <2>3, TabelDasar DEF BarisBenar, BarangAda
<1>5. PICK m : m = Cardinality(KategoriDari(b))
  OBVIOUS
<1>6. m \in Nat
  BY <1>5, HinggaBarang
<1>7. PICK K \in Limit(KategoriDari(b), m) : Jalankan("naikBarang", b, [k \in K |-> 0])
  <2>1. (IF ambangBarang[n].kategori < 0 THEN MaxKategori ELSE ambangBarang[n].kategori) = m
    BY <1>4, <1>5, <1>6
  <2> QED BY <1>3, <2>1
<1>8. K = KategoriDari(b)
  BY <1>5, <1>6, <1>7, HinggaBarang, LimitUkuran
<1>9. PICK isi : isi = [k \in K |-> 0]
  OBVIOUS
<1>10. PICK j : j = [jenis |-> "naikBarang", barang |-> b, isi |-> isi]
  OBVIOUS
<1>11. ASSUME NEW tB, NEW tK, Hasil(j, tB, tK) PROVE Sesuai(tB, tK)'
  <2>1. tB = ambangBarang /\ tK = Geser(K, Balik(Turun), Turun)
    BY <1>9, <1>10, <1>11 DEF Hasil
  <2>2. "Ready" \in {"Down", "Ready"} /\ "Down" \in {"Down", "Ready"} /\ "Ready" # "Down"
    OBVIOUS
  <2>3. K \subseteq KategoriDari(b) /\ (Kecil(b) => K = KategoriDari(b))
    BY <1>8
  <2> QED BY <1>2, <2>1, <2>2, <2>3, AmbangSemua
<1>12. Jalankan("naikBarang", b, isi)
  BY <1>7, <1>9
<1> QED BY <1>1, <1>2, <1>10, <1>11, <1>12, AmbangSatu

LEMMA JumlahIsiSatu ==
    ASSUME NEW k, NEW n \in Int, NEW isi, isi = [j \in {k} |-> n]
    PROVE  JumlahIsi(isi) = n
<1>1. DOMAIN isi = {k} /\ isi[k] = n
  OBVIOUS
<1>2. JumlahIsi(isi) = SumFunctionOnSet(isi, DOMAIN isi)
  BY DEF JumlahIsi, SumFunction
<1>3. IsFiniteSet({k}) /\ k \in {k} /\ {k} \ {k} = {}
  BY FS_Singleton
<1>4. Bilangan(isi, {k})
  BY <1>1 DEF Bilangan
<1>5. SumFunctionOnSet(isi, {k}) = isi[k] + SumFunctionOnSet(isi, {k} \ {k})
  BY <1>3, <1>4, JumlahSatu
<1>6. SumFunctionOnSet(isi, {}) = 0
  BY JumlahKosong
<1>7. SumFunctionOnSet(isi, {k} \ {k}) = 0
  BY <1>3, <1>6
<1>8. SumFunctionOnSet(isi, {k}) = n + 0
  BY <1>1, <1>5, <1>7
<1>9. JumlahIsi(isi) = SumFunctionOnSet(isi, {k})
  BY <1>1, <1>2
<1> QED BY <1>8, <1>9

\* The goroutine adds dk categories and dv units to the row of product b0.
LEMMA BarisTambah ==
    ASSUME TypeInv, Sesuai(ambangBarang, ambangKategori), BarangTertahan,
           NEW b0 \in DOMAIN barang, barang[b0].ada, NEW dk \in Int, NEW dv \in Int,
           Cardinality(KategoriDari(b0)') = Cardinality(KategoriDari(b0)) + dk,
           Cardinality(Hidup(b0)') \in Nat, Cardinality(Hidup(b0)') <= Cardinality(Hidup(b0)) + dv,
           \A b \in DOMAIN barang : b # b0 => KategoriDari(b)' = KategoriDari(b) /\ Hidup(b)' \subseteq Hidup(b),
           NEW tB, tB = TambahAmbang(b0, dk, dv)
    PROVE  /\ DOMAIN tB = DOMAIN barang'
           /\ \A b \in DOMAIN barang' : BarisBenar(b, tB[b])'
<1>1. DOMAIN tB = DOMAIN barang /\ DOMAIN barang' = DOMAIN barang /\ DOMAIN ambangBarang = DOMAIN barang
  BY TabelDasar, TambahAmbangSah DEF BarangTertahan
<1>2. ASSUME NEW b \in DOMAIN barang, b # b0 PROVE BarisBenar(b, tB[b])'
  <2>1. PICK t \in TipeAmbang : t = ambangBarang[b] /\ BarisBenar(b, t)
    BY TabelDasar
  <2>2. tB[b] = t
    BY <1>1, <1>2, <2>1 DEF TambahAmbang
  <2>3. barang'[b].ada = barang[b].ada /\ KategoriDari(b)' = KategoriDari(b) /\ Hidup(b)' \subseteq Hidup(b)
    BY <1>2 DEF BarangTertahan
  <2>4. BarisBenar(b, t)'
    BY <2>1, <2>3, BarisTetap
  <2> QED BY <2>2, <2>4
<1>3. BarisBenar(b0, tB[b0])'
  <2>1. PICK t \in TipeAmbang : t = ambangBarang[b0] /\ BarisBenar(b0, t)
    BY TabelDasar
  <2>2. t.ada /\ t.barang = b0 /\ t.kategori = Cardinality(KategoriDari(b0)) /\ t.varian >= Cardinality(Hidup(b0))
    BY <2>1 DEF BarisBenar
  <2>3. b0 \in DOMAIN ambangBarang
    BY <1>1
  <2>4. PICK m : m = tB[b0]
    OBVIOUS
  <2>5. m.barang = b0 /\ m.ada = TRUE /\ m.kategori = t.kategori + dk /\ m.varian = t.varian + dv
    BY <2>1, <2>2, <2>3, <2>4, TambahAmbangSah
  <2>6. t.varian \in Int /\ Cardinality(Hidup(b0)) \in Nat
    BY HinggaBarang DEF TipeAmbang
  <2>7. m.varian >= Cardinality(Hidup(b0)') /\ m.kategori = Cardinality(KategoriDari(b0)')
    BY <2>2, <2>5, <2>6
  <2>8. barang'[b0].ada = TRUE
    BY DEF BarangTertahan
  <2>9. BarisBenar(b0, m)'
    BY <2>5, <2>7, <2>8 DEF BarisBenar
  <2> QED BY <2>4, <2>9
<1> QED BY <1>1, <1>2, <1>3

LEMMA AmbangHapusBarang ==
    ASSUME TypeInv, KategoriSah', BekalInv, Sesuai(ambangBarang, ambangKategori), latar = << >>,
           NEW p \in Proses, HapusBarangTulis(p)
    PROVE  AmbangInv'
<1>1. PICK r : r = proses[p]
  OBVIOUS
<1>2. BarangTerhapus(r) /\ UNCHANGED <<ambangBarang, ambangKategori>>
  BY <1>1, HapusBarangEfek DEF HapusBarangTulis
<1>3. r.pilih \subseteq KategoriDari(r.barang)
  BY <1>1, <1>2 DEF BekalInv, UnitTerbaca, BarangTerhapus
<1>4. /\ DOMAIN barang' = DOMAIN barang /\ DOMAIN kategori' = DOMAIN kategori
      /\ \A b \in DOMAIN barang : barang'[b].ada = (barang[b].ada /\ b # r.barang)
      /\ \A k \in DOMAIN kategori :
            /\ kategori'[k].barang = kategori[k].barang
            /\ kategori'[k].ada = (kategori[k].ada /\ kategori[k].barang # r.barang)
  BY <1>2 DEF BarangTerhapus
<1>5. \A k \in DOMAIN kategori : kategori[k].barang # r.barang =>
         \A X : VarianBerstatus(k, X)' = VarianBerstatus(k, X)
  BY <1>2 DEF BarangTerhapus
<1>6. \A b : b # r.barang => Hidup(b)' = Hidup(b)
  BY <1>2 DEF BarangTerhapus
<1>7. PICK isi : isi = [k \in r.pilih |-> 0]
  OBVIOUS
<1>8. PICK j : j = [jenis |-> "hapusBarang", barang |-> r.barang, isi |-> isi]
  OBVIOUS
<1>9. ASSUME NEW tB, NEW tK, Hasil(j, tB, tK) PROVE Sesuai(tB, tK)'
  <2>1. /\ tB = [n \in DOMAIN ambangBarang |-> IF n \in BarisAmbang(r.barang)
                                              THEN [ambangBarang[n] EXCEPT !.ada = FALSE]
                                              ELSE ambangBarang[n]]
        /\ tK = Dikosongkan(r.pilih)
    BY <1>7, <1>8, <1>9 DEF Hasil
  <2>2. DOMAIN tB = DOMAIN barang'
    BY <1>4, <2>1, TabelDasar
  <2>3. ASSUME NEW b \in DOMAIN barang PROVE BarisBenar(b, tB[b])'
    <3>1. PICK t \in TipeAmbang : t = ambangBarang[b] /\ BarisBenar(b, t)
      BY TabelDasar
    <3>2. b \in DOMAIN ambangBarang /\ t.barang = b /\ t.ada = barang[b].ada
      BY <3>1, TabelDasar DEF BarisBenar
    <3>3. CASE b = r.barang
      <4>1. tB[b] = IF t.ada THEN [t EXCEPT !.ada = FALSE] ELSE t
        BY <2>1, <3>1, <3>2, <3>3 DEF BarisAmbang
      <4>2. PICK m : m = tB[b]
        OBVIOUS
      <4>3. m.barang = b /\ m.ada = FALSE
        BY <3>2, <4>1, <4>2 DEF TipeAmbang
      <4>4. barang'[b].ada = FALSE
        BY <1>4, <3>3
      <4>5. BarisBenar(b, m)'
        BY <4>3, <4>4 DEF BarisBenar
      <4> QED BY <4>2, <4>5
    <3>4. CASE b # r.barang
      <4>1. tB[b] = t
        BY <2>1, <3>1, <3>2, <3>4 DEF BarisAmbang
      <4>2. barang'[b].ada = barang[b].ada
        BY <1>4, <3>4, Dasar DEF TipeBarang
      <4>3. KategoriDari(b)' = KategoriDari(b)
        BY <1>4, <3>4 DEF KategoriDari
      <4>4. BarisBenar(b, t)'
        BY <1>6, <3>1, <3>4, <4>2, <4>3, BarisTetap
      <4> QED BY <4>1, <4>4
    <3> QED BY <3>3, <3>4
  <2>4. ASSUME NEW k \in DOMAIN kategori PROVE HitungBenar(k, tK[k])'
    <3>1. CASE kategori[k].barang = r.barang
      BY <1>4, <3>1 DEF HitungBenar
    <3>2. CASE kategori[k].barang # r.barang
      <4>1. PICK t : t = ambangKategori[k] /\ HitungBenar(k, t) /\ k \in DOMAIN ambangKategori
        BY TabelDasar
      <4>2. k \notin r.pilih
        BY <1>3, <3>2 DEF KategoriDari
      <4>3. tK[k] = t
        BY <2>1, <4>1, <4>2 DEF Dikosongkan
      <4>4. kategori'[k].ada => kategori[k].ada
        BY <1>4
      <4>5. /\ VarianBerstatus(k, {"Down"})' = VarianBerstatus(k, {"Down"})
            /\ VarianBerstatus(k, {"Ready"})' = VarianBerstatus(k, {"Ready"})
        BY <1>5, <3>2
      <4>6. HitungBenar(k, t)'
        BY <1>4, <4>1, <4>4, <4>5, HitungTetapBenar
      <4> QED BY <4>3, <4>6
    <3> QED BY <3>1, <3>2
  <2> QED BY <1>4, <2>2, <2>3, <2>4 DEF Sesuai
<1>10. Jalankan("hapusBarang", r.barang, isi)
  BY <1>2, <1>7 DEF BarangTerhapus
<1> QED BY <1>2, <1>8, <1>9, <1>10, AmbangSatu

LEMMA AmbangHapusKategori ==
    ASSUME TypeInv, KategoriSah', BekalInv, Sesuai(ambangBarang, ambangKategori), latar = << >>,
           NEW p \in Proses, HapusKategoriTulis(p)
    PROVE  AmbangInv'
<1>1. PICK r : r = proses[p]
  OBVIOUS
<1>2. KategoriTerhapus(r) /\ UNCHANGED <<ambangBarang, ambangKategori>>
  BY <1>1, HapusKategoriEfek DEF HapusKategoriTulis
<1>3. UnitTerbaca(r) /\ StokTidakLebih /\ KategoriBerbarang
  BY <1>1 DEF BekalInv
<1>4. PICK k0, b0, n : k0 = r.kategori /\ b0 = r.barang /\ n = r.jumlah
  OBVIOUS
<1>5. /\ k0 \in DOMAIN kategori /\ kategori[k0].ada /\ b0 = kategori[k0].barang /\ n = kategori[k0].stok
      /\ b0 \in DOMAIN barang /\ barang[b0].ada
  BY <1>2, <1>3, <1>4 DEF UnitTerbaca, KategoriTerhapus, KategoriAda, KategoriBerbarang, BarangAda
<1>6. /\ BarangTertahan /\ DOMAIN kategori' = DOMAIN kategori
      /\ \A k \in DOMAIN kategori : /\ kategori'[k].barang = kategori[k].barang
                                    /\ kategori'[k].ada = (kategori[k].ada /\ k # k0)
  BY <1>2, <1>4 DEF KategoriTerhapus
<1>7. \A k : k # k0 => \A X : VarianBerstatus(k, X)' = VarianBerstatus(k, X)
  BY <1>2, <1>4 DEF KategoriTerhapus
<1>8. \A b : Hidup(b)' = Hidup(b) \ VarianBerstatus(k0, StatusVarian)
  BY <1>2, <1>4 DEF KategoriTerhapus
<1>9. n \in Nat
  BY <1>5, Dasar DEF TipeRak
<1>10. PICK isi : isi = [k \in {k0} |-> n]
  OBVIOUS
<1>11. DOMAIN isi = {k0} /\ JumlahIsi(isi) = n
  <2>1. n \in Int
    BY <1>9
  <2>2. JumlahIsi(isi) = n
    BY <1>10, <2>1, JumlahIsiSatu
  <2> QED BY <1>10, <2>2
<1>12. PICK j : j = [jenis |-> "hapusKategori", barang |-> b0, isi |-> isi]
  OBVIOUS
<1>13. Cardinality(KategoriDari(b0)') = Cardinality(KategoriDari(b0)) + (-1)
  <2>1. KategoriDari(b0)' = KategoriDari(b0) \ {k0}
    BY <1>6 DEF KategoriDari
  <2>2. k0 \in KategoriDari(b0)
    BY <1>5 DEF KategoriDari
  <2>3. /\ Cardinality(KategoriDari(b0) \ {k0}) = Cardinality(KategoriDari(b0)) - 1
        /\ Cardinality(KategoriDari(b0)) \in Nat
    BY <2>2, HinggaBarang, FS_RemoveElement
  <2> QED BY <2>1, <2>3
<1>14. Cardinality(Hidup(b0)') \in Nat /\ Cardinality(Hidup(b0)') <= Cardinality(Hidup(b0)) + (-n)
  <2>1. PICK B : B = VarianBerstatus(k0, {"Down", "Ready"})
    OBVIOUS
  <2>2. B \subseteq Hidup(b0)
    BY <1>5, <2>1 DEF Hidup, VarianBarangInduk, VarianBerstatus
  <2>3. PICK D : D = Hidup(b0)'
    OBVIOUS
  <2>4. D \subseteq Hidup(b0) \ B
    <3>1. B \subseteq VarianBerstatus(k0, StatusVarian)
      BY <2>1 DEF VarianBerstatus, StatusVarian
    <3> QED BY <1>8, <2>3, <3>1
  <2>5. /\ IsFiniteSet(Hidup(b0) \ B) /\ Cardinality(Hidup(b0) \ B) \in Nat
        /\ Cardinality(Hidup(b0) \ B) = Cardinality(Hidup(b0)) - Cardinality(B)
        /\ Cardinality(B) \in Nat /\ Cardinality(Hidup(b0)) \in Nat
    BY <2>2, HinggaBarang, KartuSelisih
  <2>6. Cardinality(D) \in Nat /\ Cardinality(D) <= Cardinality(Hidup(b0) \ B)
    BY <2>4, <2>5, KartuSelisih
  <2>7. n <= Cardinality(B)
    BY <1>3, <1>5, <2>1 DEF StokTidakLebih
  <2>8. Cardinality(D) <= Cardinality(Hidup(b0)) + (-n)
    BY <1>9, <2>5, <2>6, <2>7
  <2> QED BY <2>3, <2>6, <2>8
<1>15. ASSUME NEW tB, NEW tK, Hasil(j, tB, tK) PROVE Sesuai(tB, tK)'
  <2>1. tB = TambahAmbang(b0, -1, -n) /\ tK = Dikosongkan({k0})
    BY <1>11, <1>12, <1>15 DEF Hasil
  <2>2. \A b \in DOMAIN barang : b # b0 => KategoriDari(b)' = KategoriDari(b) /\ Hidup(b)' \subseteq Hidup(b)
    <3>1. ASSUME NEW b \in DOMAIN barang, b # b0 PROVE KategoriDari(b)' = KategoriDari(b)
      <4>1. \A k \in DOMAIN kategori : kategori[k].barang = b => k # k0
        BY <1>5, <3>1
      <4>2. \A k \in DOMAIN kategori : kategori[k].ada \in BOOLEAN
        BY Dasar DEF TipeRak
      <4>3. KategoriDari(b)' = {k \in DOMAIN kategori : kategori'[k].barang = b /\ kategori'[k].ada}
        BY <1>6 DEF KategoriDari
      <4> QED BY <1>6, <4>1, <4>2, <4>3 DEF KategoriDari
    <3>2. \A b : Hidup(b)' \subseteq Hidup(b)
      BY <1>8
    <3> QED BY <3>1, <3>2
  <2>3. -1 \in Int /\ -n \in Int
    BY <1>9
  <2>4. /\ DOMAIN tB = DOMAIN barang'
        /\ \A b \in DOMAIN barang' : BarisBenar(b, tB[b])'
    BY <1>5, <1>6, <1>13, <1>14, <2>1, <2>2, <2>3, BarisTambah
  <2>5. ASSUME NEW k \in DOMAIN kategori PROVE HitungBenar(k, tK[k])'
    <3>1. CASE k = k0
      BY <1>6, <3>1 DEF HitungBenar
    <3>2. CASE k # k0
      <4>1. PICK t : t = ambangKategori[k] /\ HitungBenar(k, t) /\ k \in DOMAIN ambangKategori
        BY TabelDasar
      <4>2. tK[k] = t
        BY <2>1, <3>2, <4>1 DEF Dikosongkan
      <4>3. kategori'[k].ada => kategori[k].ada
        BY <1>6
      <4>4. /\ VarianBerstatus(k, {"Down"})' = VarianBerstatus(k, {"Down"})
            /\ VarianBerstatus(k, {"Ready"})' = VarianBerstatus(k, {"Ready"})
        BY <1>7, <3>2
      <4>5. HitungBenar(k, t)'
        BY <1>6, <4>1, <4>3, <4>4, HitungTetapBenar
      <4> QED BY <4>2, <4>5
    <3> QED BY <3>1, <3>2
  <2> QED BY <1>6, <2>4, <2>5 DEF Sesuai
<1>16. Jalankan("hapusKategori", b0, isi)
  BY <1>2, <1>4, <1>10 DEF KategoriTerhapus
<1> QED BY <1>2, <1>12, <1>15, <1>16, AmbangSatu

\* The stock of a category moves by n: its units, and the living units of its product.
LEMMA AmbangStok ==
    ASSUME TypeInv, KategoriSah', Sesuai(ambangBarang, ambangKategori), latar = << >>,
           BarangTertahan, KategoriTertahan, UNCHANGED <<ambangBarang, ambangKategori>>,
           NEW k0 \in DOMAIN kategori, kategori[k0].ada, NEW b0 \in DOMAIN barang, barang[b0].ada,
           kategori[k0].barang = b0, NEW n \in Int, Jalankan("stok", b0, [k \in {k0} |-> n]),
           Cardinality(VarianBerstatus(k0, {"Down"})') = Cardinality(VarianBerstatus(k0, {"Down"})) + n,
           VarianBerstatus(k0, {"Ready"})' = VarianBerstatus(k0, {"Ready"}),
           \A k, X : k # k0 => VarianBerstatus(k, X)' = VarianBerstatus(k, X),
           Cardinality(Hidup(b0)') \in Nat, Cardinality(Hidup(b0)') <= Cardinality(Hidup(b0)) + n,
           \A b \in DOMAIN barang : b # b0 => Hidup(b)' \subseteq Hidup(b)
    PROVE  AmbangInv'
<1>1. PICK isi : isi = [k \in {k0} |-> n]
  OBVIOUS
<1>2. DOMAIN isi = {k0} /\ JumlahIsi(isi) = n /\ isi[k0] = n
  BY <1>1, JumlahIsiSatu
<1>3. PICK j : j = [jenis |-> "stok", barang |-> b0, isi |-> isi]
  OBVIOUS
<1>4. /\ DOMAIN kategori' = DOMAIN kategori
      /\ \A k \in DOMAIN kategori : /\ kategori'[k].barang = kategori[k].barang
                                    /\ kategori'[k].ada = kategori[k].ada
      /\ \A b : KategoriDari(b)' = KategoriDari(b)
  BY DEF KategoriTertahan, KategoriDari
<1>5. ASSUME NEW tB, NEW tK, Hasil(j, tB, tK) PROVE Sesuai(tB, tK)'
  <2>1. tB = TambahAmbang(b0, 0, n) /\ tK = Geser({k0}, isi, Nol)
    BY <1>2, <1>3, <1>5 DEF Hasil
  <2>2. Cardinality(KategoriDari(b0)') = Cardinality(KategoriDari(b0)) + 0
    BY <1>4, HinggaBarang
  <2>3. \A b \in DOMAIN barang : b # b0 => KategoriDari(b)' = KategoriDari(b) /\ Hidup(b)' \subseteq Hidup(b)
    BY <1>4
  <2>4. /\ DOMAIN tB = DOMAIN barang'
        /\ \A b \in DOMAIN barang' : BarisBenar(b, tB[b])'
    <3>1. 0 \in Int
      OBVIOUS
    <3> QED BY <2>1, <2>2, <2>3, <3>1, BarisTambah
  <2>5. ASSUME NEW k \in DOMAIN kategori PROVE HitungBenar(k, tK[k])'
    <3>1. ASSUME kategori[k].ada
          PROVE  /\ tK[k].ada
                 /\ Kecil(kategori[k].barang) =>
                       /\ tK[k].down = Cardinality(VarianBerstatus(k, {"Down"})')
                       /\ tK[k].ready = Cardinality(VarianBerstatus(k, {"Ready"})')
      <4>1. /\ k \in DOMAIN ambangKategori /\ ambangKategori[k].ada
            /\ ambangKategori[k].down \in Int /\ ambangKategori[k].ready \in Int
            /\ Kecil(kategori[k].barang) =>
                  /\ ambangKategori[k].down = Cardinality(VarianBerstatus(k, {"Down"}))
                  /\ ambangKategori[k].ready = Cardinality(VarianBerstatus(k, {"Ready"}))
        BY <3>1, HitungLalu
      <4>2. CASE k = k0
        <5>1. Nol[k] = 0 /\ isi[k] = n
          BY <1>2, <4>1, <4>2 DEF Nol
        <5>2. /\ tK[k].ada /\ tK[k].down = ambangKategori[k].down + isi[k]
              /\ tK[k].ready = ambangKategori[k].ready + Nol[k]
          BY <2>1, <4>1, <4>2, GeserNilai
        <5>3. tK[k].down = ambangKategori[k].down + n /\ tK[k].ready = ambangKategori[k].ready
          BY <4>1, <5>1, <5>2
        <5> QED BY <4>1, <4>2, <5>2, <5>3
      <4>3. CASE k # k0
        <5>1. tK[k] = ambangKategori[k]
          BY <2>1, <4>1, <4>3, GeserNilai
        <5> QED BY <4>1, <4>3, <5>1
      <4> QED BY <4>2, <4>3
    <3>2. PICK t : t = tK[k]
      OBVIOUS
    <3>3. HitungBenar(k, t)'
      BY <1>4, <3>1, <3>2, HitungJadi
    <3> QED BY <3>2, <3>3
  <2> QED BY <1>4, <2>4, <2>5 DEF Sesuai
<1>6. Jalankan("stok", b0, isi)
  BY <1>1
<1> QED BY <1>3, <1>5, <1>6, AmbangSatu

LEMMA AmbangStokKurang ==
    ASSUME TypeInv, KategoriSah', BekalInv, Sesuai(ambangBarang, ambangKategori), latar = << >>,
           NEW p \in Proses, StokKurang(p)
    PROVE  AmbangInv'
<1>1. PICK r : r = proses[p]
  OBVIOUS
<1>2. StokDikurangi(r) /\ UNCHANGED <<ambangBarang, ambangKategori>>
  BY <1>1, StokKurangEfek DEF StokKurang
<1>3. UnitTerbaca(r) /\ KategoriBerbarang
  BY <1>1 DEF BekalInv
<1>4. PICK k0, b0, n, P : k0 = r.kategori /\ b0 = r.barang /\ n = -(Cardinality(P) - r.jumlah) /\ P = r.pilih
  OBVIOUS
<1>5. r.tahap = "stok"
  BY <1>2 DEF StokDikurangi
<1>6. /\ k0 \in DOMAIN kategori /\ kategori[k0].ada /\ kategori[k0].barang = b0
      /\ b0 \in DOMAIN barang /\ barang[b0].ada /\ P \subseteq VarianBerstatus(k0, {"Down"})
  BY <1>3, <1>4, <1>5 DEF UnitTerbaca, KategoriAda, KategoriBerbarang, BarangAda
<1>7. Cardinality(P) \in Nat /\ r.jumlah \in Nat
  BY <1>2, <1>4 DEF StokDikurangi
<1>8. PICK S \in SUBSET P : /\ varian' = SetStatus(S, "terhapus") /\ IsFiniteSet(S)
                            /\ Cardinality(S) = Cardinality(P) - r.jumlah
  BY <1>2, <1>4 DEF StokDikurangi
<1>9. Cardinality(S) \in Nat /\ n = -Cardinality(S)
  BY <1>4, <1>8, FS_CardinalityType
<1>10. BarangTertahan /\ KategoriTertahan
  BY <1>2 DEF StokDikurangi, BarangTertahan
<1>11. "terhapus" \in StatusVarian
  BY DEF StatusVarian
<1>12. \A k, X : "terhapus" \notin X => VarianBerstatus(k, X)' = VarianBerstatus(k, X) \ S
  BY <1>8, <1>11, StatusHitung
<1>13. Cardinality(VarianBerstatus(k0, {"Down"})') = Cardinality(VarianBerstatus(k0, {"Down"})) + n
  <2>1. VarianBerstatus(k0, {"Down"})' = VarianBerstatus(k0, {"Down"}) \ S
    <3>1. "terhapus" \notin {"Down"}
      OBVIOUS
    <3> QED BY <1>12, <3>1
  <2>2. S \subseteq VarianBerstatus(k0, {"Down"})
    BY <1>6, <1>8
  <2>3. /\ Cardinality(VarianBerstatus(k0, {"Down"}) \ S) = Cardinality(VarianBerstatus(k0, {"Down"})) - Cardinality(S)
        /\ Cardinality(VarianBerstatus(k0, {"Down"})) \in Nat
    BY <2>2, HinggaVarian, KartuSelisih
  <2> QED BY <1>9, <2>1, <2>3
<1>14. VarianBerstatus(k0, {"Ready"})' = VarianBerstatus(k0, {"Ready"})
  <2>1. VarianBerstatus(k0, {"Ready"})' = VarianBerstatus(k0, {"Ready"}) \ S
    <3>1. "terhapus" \notin {"Ready"}
      OBVIOUS
    <3> QED BY <1>12, <3>1
  <2>2. S \cap VarianBerstatus(k0, {"Ready"}) = {}
    BY <1>6, <1>8 DEF VarianBerstatus
  <2> QED BY <2>1, <2>2
<1>15. \A k, X : k # k0 => VarianBerstatus(k, X)' = VarianBerstatus(k, X)
  <2>1. ASSUME NEW k, k # k0 PROVE \A X : VarianBerstatus(k, X)' = VarianBerstatus(k, X)
    <3>1. \A v \in S \cap DOMAIN varian : varian[v].kategori # k
      BY <1>6, <1>8, <2>1 DEF VarianBerstatus
    <3> QED BY <1>8, <1>11, <3>1, StatusLain
  <2> QED BY <2>1
<1>16. \A b : Hidup(b)' = Hidup(b) \ S
  BY <1>8, <1>10, <1>11, StatusHidup
<1>17. Cardinality(Hidup(b0)') \in Nat /\ Cardinality(Hidup(b0)') <= Cardinality(Hidup(b0)) + n
  <2>1. S \subseteq Hidup(b0)
    BY <1>6, <1>8 DEF Hidup, VarianBarangInduk, VarianBerstatus
  <2>2. /\ Cardinality(Hidup(b0) \ S) = Cardinality(Hidup(b0)) - Cardinality(S)
        /\ Cardinality(Hidup(b0)) \in Nat /\ Cardinality(Hidup(b0) \ S) \in Nat
    BY <2>1, HinggaBarang, KartuSelisih
  <2>3. PICK D : D = Hidup(b0)'
    OBVIOUS
  <2>4. D = Hidup(b0) \ S
    BY <1>16, <2>3
  <2>5. Cardinality(D) \in Nat /\ Cardinality(D) <= Cardinality(Hidup(b0)) + n
    BY <1>9, <2>2, <2>4
  <2> QED BY <2>3, <2>5
<1>18. \A b \in DOMAIN barang : b # b0 => Hidup(b)' \subseteq Hidup(b)
  BY <1>16
<1>19. Jalankan("stok", b0, [k \in {k0} |-> n]) /\ n \in Int
  <2>1. Jalankan("stok", b0, [k \in {k0} |-> n])
    BY <1>2, <1>4 DEF StokDikurangi
  <2> QED BY <1>9, <2>1
<1> QED BY <1>2, <1>6, <1>10, <1>13, <1>14, <1>15, <1>17, <1>18, <1>19, AmbangStok

LEMMA TempatUkuran ==
    ASSUME TypeInv, NEW u, NEW k, NEW s, Unit(u, k, s), varian' = varian \o u,
           \A j \in DOMAIN kategori : kategori'[j].barang = kategori[j].barang, NEW b
    PROVE  /\ kategori'[k].barang = b => /\ Cardinality(Hidup(b)') \in Nat
                                         /\ Cardinality(Hidup(b)') = Cardinality(Hidup(b)) + s
           /\ kategori'[k].barang # b => Hidup(b)' = Hidup(b)
<1>1. u \in Seq(TipeUnit) /\ Len(u) = s /\ s \in Nat /\ \A i \in 1 .. s : u[i].kategori = k /\ u[i].status = "Down"
  BY DEF Unit
<1>2. Hidup(b)' = Hidup(b) \cup TempatBarang(u, b)
  BY <1>1, UnitHidup
<1>3. CASE kategori'[k].barang = b
  <2>1. {j \in 1 .. Len(u) : kategori'[u[j].kategori].barang = b} = {j \in 1 .. 0 + s : j > 0}
    BY <1>1, <1>3
  <2>2. Len(varian) \in Nat /\ 0 \in Nat
    BY Dasar
  <2>3. IsFiniteSet(TempatBarang(u, b)) /\ Cardinality(TempatBarang(u, b)) = s
    <3>1. PICK m \in Nat : m = Len(varian)
      BY <2>2
    <3>2. TempatBarang(u, b) = {m + i : i \in {j \in 1 .. 0 + s : j > 0}}
      BY <2>1, <3>1 DEF TempatBarang
    <3>3. /\ IsFiniteSet({m + i : i \in {j \in 1 .. 0 + s : j > 0}})
          /\ Cardinality({m + i : i \in {j \in 1 .. 0 + s : j > 0}}) = s
      BY <1>1, <2>2, GeserUkuran
    <3> QED BY <3>2, <3>3
  <2>4. Hidup(b) \cap TempatBarang(u, b) = {}
    <3>1. Hidup(b) \subseteq 1 .. Len(varian)
      BY Dasar DEF Hidup, VarianBarangInduk
    <3>2. \A i \in 1 .. Len(u) : Len(varian) + i \notin 1 .. Len(varian)
      BY <1>1, <2>2
    <3> QED BY <3>1, <3>2 DEF TempatBarang
  <2>5. Cardinality(Hidup(b) \cup TempatBarang(u, b)) = Cardinality(Hidup(b)) + s /\ Cardinality(Hidup(b)) \in Nat
    BY <2>3, <2>4, HinggaBarang, KartuGabung
  <2> QED BY <1>1, <1>2, <1>3, <2>5
<1>4. CASE kategori'[k].barang # b
  <2>1. {j \in 1 .. Len(u) : kategori'[u[j].kategori].barang = b} = {}
    BY <1>1, <1>4
  <2>2. TempatBarang(u, b) = {}
    BY <2>1 DEF TempatBarang
  <2> QED BY <1>2, <1>4, <2>2
<1> QED BY <1>3, <1>4

LEMMA AmbangStokTambah ==
    ASSUME TypeInv, KategoriSah', VarianSah', BekalInv, Sesuai(ambangBarang, ambangKategori), latar = << >>,
           NEW p \in Proses, StokTambah(p)
    PROVE  AmbangInv'
<1>1. PICK r : r = proses[p]
  OBVIOUS
<1>2. StokDitambah(r) /\ UNCHANGED <<ambangBarang, ambangKategori>>
  BY <1>1, StokTambahEfek DEF StokTambah
<1>3. UnitTerbaca(r) /\ KategoriBerbarang
  BY <1>1 DEF BekalInv
<1>4. PICK k0, b0, n : k0 = r.kategori /\ b0 = r.barang /\ n = r.jumlah - Cardinality(r.pilih)
  OBVIOUS
<1>5. r.tahap = "stok"
  BY <1>2 DEF StokDitambah
<1>6. /\ k0 \in DOMAIN kategori /\ kategori[k0].ada /\ kategori[k0].barang = b0
      /\ b0 \in DOMAIN barang /\ barang[b0].ada
  BY <1>3, <1>4, <1>5 DEF UnitTerbaca, KategoriAda, KategoriBerbarang, BarangAda
<1>7. PICK u : varian' = varian \o u /\ Unit(u, k0, n)
  BY <1>2, <1>4 DEF StokDitambah
<1>8. n \in Int
  BY <1>7 DEF Unit
<1>9. BarangTertahan /\ KategoriTertahan
  BY <1>2 DEF StokDitambah, BarangTertahan
<1>10. "Down" \in {"Down"} /\ "Down" \notin {"Ready"}
  OBVIOUS
<1>11. /\ Cardinality(VarianBerstatus(k0, {"Down"})') = Cardinality(VarianBerstatus(k0, {"Down"})) + n
       /\ \A Y : "Down" \notin Y => VarianBerstatus(k0, Y)' = VarianBerstatus(k0, Y)
  BY <1>7, <1>10, UnitCukup
<1>12. VarianBerstatus(k0, {"Ready"})' = VarianBerstatus(k0, {"Ready"})
  BY <1>10, <1>11
<1>13. \A k, X : k # k0 => VarianBerstatus(k, X)' = VarianBerstatus(k, X)
  <2>1. LainTetap(k0)
    BY <1>7, UnitTetap
  <2> QED BY <2>1 DEF LainTetap
<1>14. \A j \in DOMAIN kategori : kategori'[j].barang = kategori[j].barang
  BY <1>9 DEF KategoriTertahan
<1>15. Cardinality(Hidup(b0)') \in Nat /\ Cardinality(Hidup(b0)') <= Cardinality(Hidup(b0)) + n
  <2>1. kategori'[k0].barang = b0
    BY <1>6, <1>14
  <2>2. Cardinality(Hidup(b0)') \in Nat /\ Cardinality(Hidup(b0)') = Cardinality(Hidup(b0)) + n
    BY <1>7, <1>14, <2>1, TempatUkuran
  <2> QED BY <2>2
<1>16. \A b \in DOMAIN barang : b # b0 => Hidup(b)' \subseteq Hidup(b)
  <2>1. ASSUME NEW b \in DOMAIN barang, b # b0 PROVE Hidup(b)' = Hidup(b)
    <3>1. kategori'[k0].barang # b
      BY <1>6, <1>14, <2>1
    <3> QED BY <1>7, <1>14, <3>1, TempatUkuran
  <2> QED BY <2>1
<1>17. Jalankan("stok", b0, [k \in {k0} |-> n])
  BY <1>2, <1>4 DEF StokDitambah
<1> QED BY <1>2, <1>6, <1>8, <1>9, <1>11, <1>12, <1>13, <1>15, <1>16, <1>17, AmbangStok

LEMMA BarisBaruNilai ==
    ASSUME NEW isi, NEW k \in DOMAIN ambangKategori
    PROVE  /\ k \notin DOMAIN isi => BarisBaru(isi)[k] = ambangKategori[k]
           /\ k \in DOMAIN isi => BarisBaru(isi)[k] = [ada |-> TRUE, down |-> isi[k], ready |-> 0]
BY DEF BarisBaru

LEMMA TanpaUnit ==
    ASSUME TypeInv, NEW k, k \notin DOMAIN kategori
    PROVE  \A X : VarianBerstatus(k, X) = {}
BY UnitMilik DEF VarianBerstatus

\* A new category k starts with n units off sale.
LEMMA HitungAwal ==
    ASSUME NEW k, NEW n, Cardinality(VarianBerstatus(k, {"Down"})') = n,
           VarianBerstatus(k, {"Ready"})' = {}, NEW t, t = [ada |-> TRUE, down |-> n, ready |-> 0]
    PROVE  HitungBenar(k, t)'
<1>1. Cardinality(VarianBerstatus(k, {"Ready"})') = 0
  BY FS_EmptySet
<1>2. t.ada /\ t.down = n /\ t.ready = 0
  OBVIOUS
<1> QED BY <1>1, <1>2 DEF HitungBenar

LEMMA AmbangTambah ==
    ASSUME TypeInv, KategoriSah', VarianSah', BekalInv, Sesuai(ambangBarang, ambangKategori), latar = << >>,
           NEW p \in Proses, TambahTulis(p)
    PROVE  AmbangInv'
<1>1. PICK r, k0 : r = proses[p] /\ k0 = Len(kategori) + 1
  OBVIOUS
<1>2. KategoriDitambah(r, k0) /\ UNCHANGED <<ambangBarang, ambangKategori>>
  BY <1>1, TambahEfek DEF TambahTulis
<1>3. UnitTerbaca(r)
  BY <1>1 DEF BekalInv
<1>4. PICK b0, n : b0 = r.barang /\ n = r.jumlah
  OBVIOUS
<1>5. b0 \in DOMAIN barang /\ barang[b0].ada /\ n \in Nat /\ n \in Int
  <2>1. r.tahap = "tambah" /\ n \in Nat
    BY <1>2, <1>4 DEF KategoriDitambah
  <2> QED BY <1>3, <1>4, <2>1 DEF UnitTerbaca, BarangAda
<1>6. /\ k0 \in Nat /\ DOMAIN kategori' = DOMAIN kategori \cup {k0} /\ k0 \notin DOMAIN kategori
      /\ \A i \in DOMAIN kategori : kategori'[i] = kategori[i]
      /\ kategori'[k0].barang = b0 /\ kategori'[k0].ada
  BY <1>2, <1>4 DEF KategoriDitambah, KategoriBaru
<1>7. PICK u : varian' = varian \o u /\ Unit(u, k0, n)
  BY <1>2, <1>4 DEF KategoriDitambah
<1>8. BarangTertahan
  BY <1>2 DEF KategoriDitambah, BarangTertahan
<1>9. \A j \in DOMAIN kategori : kategori'[j].barang = kategori[j].barang
  BY <1>6
<1>10. k0 \in DOMAIN ambangKategori
  <2>1. DOMAIN kategori' = 1 .. Len(kategori') /\ Len(kategori') \in Nat /\ Len(kategori') <= MaxKategori
    BY SeqDasar DEF KategoriSah
  <2>2. MaxKategori \in Nat /\ DOMAIN ambangKategori = 1 .. MaxKategori
    BY Dasar, HitungDasar
  <2> QED BY <1>6, <2>1, <2>2
<1>11. PICK isi : isi = [j \in {k0} |-> n]
  OBVIOUS
<1>12. JumlahIsi(isi) = n
  BY <1>5, <1>11, JumlahIsiSatu
<1>13. DOMAIN isi = {k0} /\ isi[k0] = n
  BY <1>11
<1>14. PICK j : j = [jenis |-> "tambah", barang |-> b0, isi |-> isi]
  OBVIOUS
<1>15. \A k \in DOMAIN kategori : kategori[k].ada \in BOOLEAN
  BY Dasar DEF TipeRak
<1>16. Cardinality(KategoriDari(b0)') = Cardinality(KategoriDari(b0)) + 1
  <2>1. KategoriDari(b0)' = KategoriDari(b0) \cup {k0}
    BY <1>6 DEF KategoriDari
  <2>2. k0 \notin KategoriDari(b0)
    BY <1>6 DEF KategoriDari
  <2>3. Cardinality(KategoriDari(b0) \cup {k0}) = Cardinality(KategoriDari(b0)) + 1
    BY <2>2, HinggaBarang, FS_AddElement
  <2> QED BY <2>1, <2>3
<1>17. Cardinality(Hidup(b0)') \in Nat /\ Cardinality(Hidup(b0)') <= Cardinality(Hidup(b0)) + n
  <2>1. Cardinality(Hidup(b0)') \in Nat /\ Cardinality(Hidup(b0)') = Cardinality(Hidup(b0)) + n
    BY <1>6, <1>7, <1>9, TempatUkuran
  <2> QED BY <2>1
<1>18. \A b \in DOMAIN barang : b # b0 => KategoriDari(b)' = KategoriDari(b) /\ Hidup(b)' \subseteq Hidup(b)
  <2>1. ASSUME NEW b \in DOMAIN barang, b # b0 PROVE KategoriDari(b)' = KategoriDari(b)
    <3>1. KategoriDari(b)' = {k \in DOMAIN kategori \cup {k0} : kategori'[k].barang = b /\ kategori'[k].ada}
      BY <1>6 DEF KategoriDari
    <3> QED BY <1>6, <2>1, <3>1 DEF KategoriDari
  <2>2. ASSUME NEW b \in DOMAIN barang, b # b0 PROVE Hidup(b)' = Hidup(b)
    <3>1. kategori'[k0].barang # b
      BY <1>6, <2>2
    <3> QED BY <1>7, <1>9, <3>1, TempatUkuran
  <2> QED BY <2>1, <2>2
<1>19. ASSUME NEW tB, NEW tK, Hasil(j, tB, tK) PROVE Sesuai(tB, tK)'
  <2>1. tB = TambahAmbang(b0, 1, n) /\ tK = BarisBaru(isi)
    BY <1>12, <1>14, <1>19 DEF Hasil
  <2>2. /\ DOMAIN tB = DOMAIN barang'
        /\ \A b \in DOMAIN barang' : BarisBenar(b, tB[b])'
    <3>1. 1 \in Int
      OBVIOUS
    <3> QED BY <1>5, <1>8, <1>16, <1>17, <1>18, <2>1, <3>1, BarisTambah
  <2>3. ASSUME NEW k \in DOMAIN kategori PROVE HitungBenar(k, tK[k])'
    <3>1. PICK t : t = ambangKategori[k] /\ HitungBenar(k, t) /\ k \in DOMAIN ambangKategori
      BY TabelDasar
    <3>2. k # k0
      BY <1>6
    <3>3. tK[k] = t
      BY <1>13, <2>1, <3>1, <3>2, BarisBaruNilai
    <3>4. /\ VarianBerstatus(k, {"Down"})' = VarianBerstatus(k, {"Down"})
          /\ VarianBerstatus(k, {"Ready"})' = VarianBerstatus(k, {"Ready"})
      <4>1. LainTetap(k0)
        BY <1>7, UnitTetap
      <4> QED BY <3>2, <4>1 DEF LainTetap
    <3>5. DOMAIN kategori \subseteq DOMAIN kategori' /\ (kategori'[k].ada => kategori[k].ada)
      BY <1>6
    <3>6. HitungBenar(k, t)'
      BY <1>9, <3>1, <3>4, <3>5, HitungTetapBenar
    <3> QED BY <3>3, <3>6
  <2>4. HitungBenar(k0, tK[k0])'
    <3>1. tK[k0] = [ada |-> TRUE, down |-> n, ready |-> 0]
      BY <1>10, <1>13, <2>1, BarisBaruNilai
    <3>2. "Down" \in {"Down"} /\ "Down" \notin {"Ready"}
      OBVIOUS
    <3>3. /\ Cardinality(VarianBerstatus(k0, {"Down"})') = Cardinality(VarianBerstatus(k0, {"Down"})) + n
          /\ \A Y : "Down" \notin Y => VarianBerstatus(k0, Y)' = VarianBerstatus(k0, Y)
      BY <1>7, <3>2, UnitCukup
    <3>4. VarianBerstatus(k0, {"Down"}) = {} /\ VarianBerstatus(k0, {"Ready"}) = {}
      BY <1>6, TanpaUnit
    <3>5. VarianBerstatus(k0, {"Ready"})' = {}
      BY <3>2, <3>3, <3>4
    <3>6. Cardinality(VarianBerstatus(k0, {"Down"})) = 0
      BY <3>4, FS_EmptySet
    <3>7. Cardinality(VarianBerstatus(k0, {"Down"})') = n
      BY <1>5, <3>3, <3>6
    <3>8. PICK t : t = tK[k0]
      OBVIOUS
    <3>9. HitungBenar(k0, t)'
      BY <3>1, <3>5, <3>7, <3>8, HitungAwal
    <3> QED BY <3>8, <3>9
  <2> QED BY <1>6, <2>2, <2>3, <2>4 DEF Sesuai
<1>20. Jalankan("tambah", b0, isi)
  BY <1>2, <1>4, <1>11 DEF KategoriDitambah
<1> QED BY <1>2, <1>14, <1>19, <1>20, AmbangSatu

\* The stocks isi of n new categories, by their ids from k0 on, and their sum.
IsiBaru(isi, k0, n) == [k \in k0 + 1 .. k0 + n |-> isi[k - k0]]
StokBaru(isi, n) == IF n = 1 THEN isi[1] ELSE isi[1] + isi[2]

LEMMA JumlahIsiBaru ==
    ASSUME NEW n \in 1 .. 2, NEW k0 \in Nat, NEW isi, \A i \in 1 .. n : isi[i] \in Nat,
           NEW f, f = IsiBaru(isi, k0, n)
    PROVE  /\ DOMAIN f = k0 + 1 .. k0 + n /\ \A i \in 1 .. n : f[k0 + i] = isi[i]
           /\ Cardinality(DOMAIN f) = n
           /\ JumlahIsi(f) = StokBaru(isi, n)
<1>f. f = [k \in k0 + 1 .. k0 + n |-> isi[k - k0]]
  BY DEF IsiBaru
<1>1. DOMAIN f = k0 + 1 .. k0 + n
  BY <1>f
<1>2. \A i \in 1 .. n : f[k0 + i] = isi[i]
  <2>1. ASSUME NEW i \in 1 .. n PROVE f[k0 + i] = isi[i]
    <3>1. k0 + i \in k0 + 1 .. k0 + n /\ (k0 + i) - k0 = i
      OBVIOUS
    <3> QED BY <1>f, <3>1
  <2> QED BY <2>1
<1>3. JumlahIsi(f) = SumFunctionOnSet(f, k0 + 1 .. k0 + n)
  BY <1>1 DEF JumlahIsi, SumFunction
<1>4. IsFiniteSet({k0 + 1}) /\ Cardinality({k0 + 1}) = 1
  BY FS_Singleton
<1>5. isi[1] \in Nat /\ f[k0 + 1] = isi[1]
  BY <1>2
<1>6. SumFunctionOnSet(f, {k0 + 1}) = isi[1]
  <2>1. Bilangan(f, {k0 + 1}) /\ k0 + 1 \in {k0 + 1} /\ {k0 + 1} \ {k0 + 1} = {}
    BY <1>5 DEF Bilangan
  <2>2. SumFunctionOnSet(f, {k0 + 1}) = f[k0 + 1] + SumFunctionOnSet(f, {k0 + 1} \ {k0 + 1})
    BY <1>4, <2>1, JumlahSatu
  <2>3. SumFunctionOnSet(f, {k0 + 1} \ {k0 + 1}) = 0
    BY <2>1, JumlahKosong
  <2> QED BY <1>5, <2>2, <2>3
<1>7. CASE n = 1
  <2>1. k0 + 1 .. k0 + n = {k0 + 1}
    BY <1>7
  <2>2. JumlahIsi(f) = isi[1]
    BY <1>3, <1>6, <2>1
  <2>3. StokBaru(isi, n) = isi[1]
    BY <1>7 DEF StokBaru
  <2>4. Cardinality(DOMAIN f) = n
    BY <1>1, <1>4, <1>7, <2>1
  <2> QED BY <1>1, <1>2, <2>2, <2>3, <2>4
<1>8. CASE n = 2
  <2>1. k0 + 1 .. k0 + n = {k0 + 1} \cup {k0 + 2} /\ k0 + 2 \notin {k0 + 1}
    BY <1>8
  <2>2. isi[2] \in Nat /\ f[k0 + 2] = isi[2]
    BY <1>2, <1>8
  <2>3. Bilangan(f, {k0 + 1} \cup {k0 + 2})
    BY <1>5, <2>2 DEF Bilangan
  <2>4. SumFunctionOnSet(f, {k0 + 1} \cup {k0 + 2}) = f[k0 + 2] + SumFunctionOnSet(f, {k0 + 1})
    BY <1>4, <2>1, <2>3, JumlahTambah
  <2>5. Cardinality({k0 + 1} \cup {k0 + 2}) = 2
    <3>1. Cardinality({k0 + 1} \cup {k0 + 2}) = Cardinality({k0 + 1}) + 1
      BY <1>4, <2>1, FS_AddElement
    <3> QED BY <1>4, <3>1
  <2>6. JumlahIsi(f) = isi[1] + isi[2]
    <3>1. JumlahIsi(f) = SumFunctionOnSet(f, {k0 + 1} \cup {k0 + 2})
      BY <1>3, <2>1
    <3>2. PICK x \in Nat : x = isi[1]
      BY <1>5
    <3>3. PICK y \in Nat : y = isi[2]
      BY <2>2
    <3>4. PICK z : z = SumFunctionOnSet(f, {k0 + 1} \cup {k0 + 2})
      OBVIOUS
    <3>5. PICK w : w = SumFunctionOnSet(f, {k0 + 1})
      OBVIOUS
    <3>6. z = f[k0 + 2] + w
      BY <2>4, <3>4, <3>5
    <3>7. w = x
      BY <1>6, <3>2, <3>5
    <3>8. f[k0 + 2] = y
      BY <2>2, <3>3
    <3>9. z = x + y
      BY <3>2, <3>3, <3>6, <3>7, <3>8
    <3> QED BY <3>1, <3>2, <3>3, <3>4, <3>9
  <2>7. Cardinality(DOMAIN f) = 2
    BY <1>1, <2>1, <2>5
  <2>8. StokBaru(isi, n) = isi[1] + isi[2]
    BY <1>8 DEF StokBaru
  <2>9. Cardinality(DOMAIN f) = n
    BY <1>8, <2>7
  <2> QED BY <1>1, <1>2, <2>6, <2>8, <2>9
<1> QED BY <1>7, <1>8

\* The rows after LatarBuat for product b with n categories and m units.
BarisDitulis(tB, b, n, m) ==
    LET rows == Append(ambangBarang, BarisAwal(b))
    IN  tB = IF b \in DOMAIN rows /\ rows[b].ada THEN BarisUbah(rows, b, n, m) ELSE rows
BarisDibuat(tB, b, n, m) ==
    /\ DOMAIN tB = DOMAIN barang \cup {b}
    /\ \A c \in DOMAIN barang : tB[c] = ambangBarang[c]
    /\ tB[b].barang = b /\ tB[b].ada /\ tB[b].kategori = n /\ tB[b].varian = m

LEMMA BarisBuat ==
    ASSUME TypeInv, Sesuai(ambangBarang, ambangKategori), NEW b, b = Len(barang) + 1, NEW n \in Nat, NEW m \in Nat,
           NEW tB, BarisDitulis(tB, b, n, m)
    PROVE  BarisDibuat(tB, b, n, m)
<1>r. PICK rows : rows = Append(ambangBarang, BarisAwal(b))
  OBVIOUS
<1>1. /\ ambangBarang \in Seq(TipeAmbang) /\ Len(barang) \in Nat
      /\ DOMAIN barang = 1 .. Len(barang) /\ DOMAIN ambangBarang = DOMAIN barang
  BY Dasar, TabelDasar DEF TypeInv, AmbangSah
<1>2. Len(ambangBarang) = Len(barang) /\ Len(ambangBarang) \in Nat /\ DOMAIN ambangBarang = 1 .. Len(ambangBarang)
  <2>1. Len(ambangBarang) \in Nat /\ DOMAIN ambangBarang = 1 .. Len(ambangBarang)
    BY Dasar
  <2> QED BY <1>1, <2>1
<1>3. b \in Nat
  BY <1>1
<1>4. PICK e : e = BarisAwal(b)
  OBVIOUS
<1>5. e \in TipeAmbang /\ e.barang = b /\ e.ada = TRUE /\ e.kategori = 0 /\ e.varian = 0
  BY <1>3, <1>4 DEF BarisAwal, TipeAmbang
<1>6. /\ rows \in Seq(TipeAmbang) /\ DOMAIN rows = 1 .. b
      /\ \A c \in DOMAIN barang : rows[c] = ambangBarang[c]
      /\ rows[b] = e
  BY <1>1, <1>2, <1>4, <1>5, <1>r, SeqTambah
<1>7. b \in DOMAIN rows
  BY <1>1, <1>6
<1>8. tB = BarisUbah(rows, b, n, m)
  BY <1>5, <1>6, <1>7, <1>r DEF BarisDitulis
<1>9. n \in Int /\ m \in Int
  OBVIOUS
<1>10. /\ DOMAIN tB = DOMAIN rows
       /\ \A c \in DOMAIN rows : c # b => tB[c] = rows[c]
       /\ tB[b].barang = rows[b].barang /\ tB[b].ada = rows[b].ada
       /\ tB[b].kategori = rows[b].kategori + n /\ tB[b].varian = rows[b].varian + m
  <2>1. PICK h : h = BarisUbah(rows, b, n, m)
    OBVIOUS
  <2>2. PICK g : g = rows
    OBVIOUS
  <2>3. g \in Seq(TipeAmbang) /\ b \in DOMAIN g
    BY <1>6, <1>7, <2>2
  <2>4. h = BarisUbah(g, b, n, m)
    BY <2>1, <2>2
  <2>5. /\ DOMAIN h = DOMAIN g
        /\ \A c \in DOMAIN g : c # b => h[c] = g[c]
        /\ h[b].barang = g[b].barang /\ h[b].ada = g[b].ada
        /\ h[b].kategori = g[b].kategori + n /\ h[b].varian = g[b].varian + m
    BY <1>9, <2>3, <2>4, BarisUbahSah
  <2>6. h = tB
    BY <1>8, <2>1
  <2> QED BY <2>2, <2>5, <2>6
<1>11. DOMAIN rows = DOMAIN barang \cup {b} /\ b \notin DOMAIN barang
  BY <1>1, <1>6
<1> QED BY <1>5, <1>6, <1>10, <1>11 DEF BarisDibuat

\* What a new product b has, and that the others keep what they had.
LEMMA MasukanUkuran ==
    ASSUME TypeInv, NEW isi \in Isi, NEW b, NEW k0, NEW n, BarangDimasukkan(isi, b, k0, n), n = Len(isi),
           NEW u, varian' = varian \o u, Diisi(u, isi, k0)
    PROVE  /\ KategoriDari(b)' = k0 + 1 .. k0 + n /\ Cardinality(KategoriDari(b)') = n
           /\ Cardinality(Hidup(b)') = IF n = 1 THEN isi[1] ELSE isi[1] + isi[2]
           /\ \A c \in DOMAIN barang : KategoriDari(c)' = KategoriDari(c) /\ Hidup(c)' = Hidup(c)
<1>1. /\ n \in 1 .. 2 /\ k0 \in Nat /\ \A i \in 1 .. n : isi[i] \in Nat
      /\ b \notin DOMAIN barang
      /\ DOMAIN kategori' = DOMAIN kategori \cup (k0 + 1 .. k0 + n) /\ DOMAIN kategori = 1 .. k0
      /\ \A i \in DOMAIN kategori : kategori'[i] = kategori[i]
      /\ \A i \in 1 .. n : KategoriBaru(k0 + i, b, isi[i])
  BY DEF BarangDimasukkan
<1>2. \A k \in k0 + 1 .. k0 + n : kategori'[k].barang = b /\ kategori'[k].ada
  <2>1. ASSUME NEW k \in k0 + 1 .. k0 + n PROVE kategori'[k].barang = b /\ kategori'[k].ada
    <3>1. PICK i : i = k - k0
      OBVIOUS
    <3>2. i \in 1 .. n /\ k = k0 + i
      BY <1>1, <3>1
    <3> QED BY <1>1, <3>2 DEF KategoriBaru
  <2> QED BY <2>1
<1>3. \A k \in DOMAIN kategori : kategori[k].barang \in DOMAIN barang
  BY Dasar DEF TypeInv, KategoriSah
<1>4. \A k \in DOMAIN kategori : kategori'[k].barang # b
  BY <1>1, <1>3
<1>5. KategoriDari(b)' = k0 + 1 .. k0 + n
  BY <1>1, <1>2, <1>4 DEF KategoriDari
<1>6. Cardinality(k0 + 1 .. k0 + n) = n
  <2>1. PICK x : x = k0 + 1
    OBVIOUS
  <2>2. PICK y : y = k0 + n
    OBVIOUS
  <2>3. x \in Int /\ y \in Int /\ x <= y /\ y - x + 1 = n
    BY <1>1, <2>1, <2>2
  <2>4. Cardinality(x .. y) = IF x > y THEN 0 ELSE y - x + 1
    BY <2>3, FS_Interval
  <2> QED BY <2>1, <2>2, <2>3, <2>4
<1>7. /\ u \in Seq(TipeUnit) /\ Len(u) \in Nat
      /\ \A i \in 1 .. Len(u) : u[i].status = "Down" /\ u[i].kategori \in k0 + 1 .. k0 + n
      /\ Len(u) = IF n = 1 THEN isi[1] ELSE isi[1] + isi[2]
  BY DEF Diisi
<1>8. \A j \in DOMAIN kategori : kategori'[j].barang = kategori[j].barang
  BY <1>1
<1>9. \A c : Hidup(c)' = Hidup(c) \cup TempatBarang(u, c)
  BY <1>7, <1>8, UnitHidup
<1>10. Hidup(b) = {}
  BY <1>1, UnitMilik DEF Hidup, VarianBarangInduk
<1>11. Cardinality(TempatBarang(u, b)) = Len(u)
  <2>1. PICK s \in Nat : s = Len(u)
    BY <1>7
  <2>2. {j \in 1 .. s : kategori'[u[j].kategori].barang = b} = {j \in 1 .. 0 + s : j > 0}
    <3>1. \A j \in 1 .. s : kategori'[u[j].kategori].barang = b
      BY <1>2, <1>7, <2>1
    <3>2. 1 .. s = 1 .. 0 + s /\ \A j \in 1 .. s : j > 0
      OBVIOUS
    <3> QED BY <3>1, <3>2
  <2>3. PICK m \in Nat : m = Len(varian)
    BY Dasar
  <2>4. TempatBarang(u, b) = {m + i : i \in {j \in 1 .. 0 + s : j > 0}}
    BY <2>1, <2>2, <2>3 DEF TempatBarang
  <2>5. Cardinality({m + i : i \in {j \in 1 .. 0 + s : j > 0}}) = s
    <3>1. 0 \in Nat
      OBVIOUS
    <3> QED BY <3>1, GeserUkuran
  <2> QED BY <2>1, <2>4, <2>5
<1>12. Cardinality(Hidup(b)') = IF n = 1 THEN isi[1] ELSE isi[1] + isi[2]
  <2>1. Hidup(b)' = TempatBarang(u, b)
    BY <1>9, <1>10
  <2> QED BY <1>7, <1>11, <2>1
<1>13. ASSUME NEW c \in DOMAIN barang PROVE KategoriDari(c)' = KategoriDari(c) /\ Hidup(c)' = Hidup(c)
  <2>1. c # b
    BY <1>1
  <2>2. KategoriDari(c)' = KategoriDari(c)
    BY <1>1, <1>2, <2>1 DEF KategoriDari
  <2>3. {j \in 1 .. Len(u) : kategori'[u[j].kategori].barang = c} = {}
    BY <1>2, <1>7, <2>1
  <2>4. TempatBarang(u, c) = {}
    BY <2>3 DEF TempatBarang
  <2> QED BY <1>9, <2>2, <2>4
<1> QED BY <1>5, <1>6, <1>12, <1>13

LEMMA AmbangMasukan ==
    ASSUME TypeInv, KategoriSah', VarianSah', Sesuai(ambangBarang, ambangKategori), latar = << >>,
           NEW isi \in Isi, NEW asal \in DOMAIN isi, MasukanBarangInduk(isi, asal)
    PROVE  AmbangInv'
<1>b. PICK b : b = Len(barang) + 1
  OBVIOUS
<1>k. PICK k0 : k0 = Len(kategori)
  OBVIOUS
<1>n. PICK n : n = Len(isi)
  OBVIOUS
<1>e. BarangDimasukkan(isi, b, k0, n)
  BY <1>b, <1>k, <1>n, MasukanEfek
<1>1. /\ n \in 1 .. 2 /\ k0 \in Nat /\ \A i \in 1 .. n : isi[i] \in Nat
      /\ DOMAIN barang' = DOMAIN barang \cup {b} /\ b \notin DOMAIN barang
      /\ \A c \in DOMAIN barang : barang'[c].ada = barang[c].ada
      /\ barang'[b].ada
      /\ DOMAIN kategori' = DOMAIN kategori \cup (k0 + 1 .. k0 + n) /\ DOMAIN kategori = 1 .. k0
      /\ \A i \in DOMAIN kategori : kategori'[i] = kategori[i]
      /\ Jalankan("buat", b, [k \in k0 + 1 .. k0 + n |-> isi[k - k0]])
  BY <1>e DEF BarangDimasukkan
<1>2. PICK u : varian' = varian \o u /\ Diisi(u, isi, k0)
  BY <1>e DEF BarangDimasukkan
<1>3. UNCHANGED <<ambangBarang, ambangKategori>>
  BY DEF MasukanBarangInduk
<1>4. /\ KategoriDari(b)' = k0 + 1 .. k0 + n /\ Cardinality(KategoriDari(b)') = n
      /\ Cardinality(Hidup(b)') = IF n = 1 THEN isi[1] ELSE isi[1] + isi[2]
      /\ \A c \in DOMAIN barang : KategoriDari(c)' = KategoriDari(c) /\ Hidup(c)' = Hidup(c)
  BY <1>2, <1>e, <1>n, MasukanUkuran
<1>5. PICK f : f = IsiBaru(isi, k0, n)
  OBVIOUS
<1>6. PICK m : m = StokBaru(isi, n)
  OBVIOUS
<1>7. m \in Nat /\ n \in Nat
  BY <1>1, <1>6 DEF StokBaru
<1>8. /\ DOMAIN f = k0 + 1 .. k0 + n /\ \A i \in 1 .. n : f[k0 + i] = isi[i]
      /\ Cardinality(DOMAIN f) = n /\ JumlahIsi(f) = m
  <2>1. n \in 1 .. 2 /\ k0 \in Nat
    BY <1>1
  <2>2. \A i \in 1 .. n : isi[i] \in Nat
    BY <1>1
  <2>3. DOMAIN f = k0 + 1 .. k0 + n /\ \A i \in 1 .. n : f[k0 + i] = isi[i]
    <3>1. f = [k \in k0 + 1 .. k0 + n |-> isi[k - k0]]
      BY <1>5 DEF IsiBaru
    <3>2. ASSUME NEW i \in 1 .. n PROVE f[k0 + i] = isi[i]
      <4>1. k0 + i \in k0 + 1 .. k0 + n /\ (k0 + i) - k0 = i
        BY <2>1
      <4> QED BY <3>1, <4>1
    <3> QED BY <3>1, <3>2
  <2>4. Cardinality(DOMAIN f) = n
    BY <1>5, <2>1, <2>2, JumlahIsiBaru
  <2>5. JumlahIsi(f) = StokBaru(isi, n)
    BY <1>5, <2>1, <2>2, JumlahIsiBaru
  <2> QED BY <1>6, <2>1, <2>3, <2>4, <2>5
<1>9. PICK j : j = [jenis |-> "buat", barang |-> b, isi |-> f]
  OBVIOUS
<1>10. \A i \in DOMAIN kategori : kategori'[i].barang = kategori[i].barang
  BY <1>1
<1>11. \A k \in k0 + 1 .. k0 + n : k \in DOMAIN ambangKategori
  <2>1. DOMAIN kategori' = 1 .. Len(kategori') /\ Len(kategori') \in Nat /\ Len(kategori') <= MaxKategori
    BY SeqDasar DEF KategoriSah
  <2>2. MaxKategori \in Nat /\ DOMAIN ambangKategori = 1 .. MaxKategori
    BY Dasar, HitungDasar
  <2>3. ASSUME NEW k \in k0 + 1 .. k0 + n PROVE k \in DOMAIN ambangKategori
    <3>1. k \in DOMAIN kategori'
      BY <1>1
    <3>2. PICK l \in Nat : l = Len(kategori')
      BY <2>1
    <3>3. k \in 1 .. l /\ l <= MaxKategori
      BY <2>1, <3>1, <3>2
    <3> QED BY <2>2, <3>3
  <2> QED BY <2>3
<1>u. u \in Seq(TipeUnit)
  BY <1>2 DEF Diisi
<1>12. ASSUME NEW tB, NEW tK, Hasil(j, tB, tK) PROVE Sesuai(tB, tK)'
  <2>1. BarisDitulis(tB, b, n, m) /\ tK = BarisBaru(f)
    BY <1>8, <1>9, <1>12 DEF Hasil, BarisDitulis
  <2>b. BarisDibuat(tB, b, n, m)
    BY <1>7, <1>b, <2>1, BarisBuat
  <2>2. /\ DOMAIN tB = DOMAIN barang \cup {b}
        /\ \A c \in DOMAIN barang : tB[c] = ambangBarang[c]
        /\ tB[b].barang = b /\ tB[b].ada /\ tB[b].kategori = n /\ tB[b].varian = m
    BY <2>b DEF BarisDibuat
  <2>3. ASSUME NEW c \in DOMAIN barang PROVE BarisBenar(c, tB[c])'
    <3>1. PICK t : t = ambangBarang[c]
      OBVIOUS
    <3>2. t \in TipeAmbang /\ BarisBenar(c, t)
      BY <3>1, TabelDasar
    <3>3. BarisBenar(c, t)'
      BY <1>1, <1>4, <3>2, BarisTetap
    <3>4. tB[c] = t
      BY <2>2, <3>1
    <3> QED BY <3>3, <3>4
  <2>4. BarisBenar(b, tB[b])'
    <3>1. PICK t : t = tB[b]
      OBVIOUS
    <3>2. t.barang = b /\ t.ada /\ t.kategori = n /\ t.varian = m
      BY <2>2, <3>1
    <3>3. t.kategori = Cardinality(KategoriDari(b)') /\ t.varian >= Cardinality(Hidup(b)')
      BY <1>4, <1>6, <1>7, <3>2 DEF StokBaru
    <3>t. (t.ada = barang[b].ada)'
      <4>1. t.ada \in BOOLEAN
        <5>1. PICK e : e = tB[b].ada
          OBVIOUS
        <5> QED BY <2>2, <3>1
      <4> QED BY <1>1, <3>2, <4>1
    <3>4. BarisBenar(b, t)'
      BY <1>1, <3>2, <3>3, <3>t DEF BarisBenar
    <3> QED BY <3>1, <3>4
  <2>5. ASSUME NEW k \in DOMAIN kategori PROVE HitungBenar(k, tK[k])'
    <3>1. PICK t : t = ambangKategori[k] /\ HitungBenar(k, t) /\ k \in DOMAIN ambangKategori
      BY TabelDasar
    <3>2. k \notin k0 + 1 .. k0 + n
      BY <1>1
    <3>3. tK[k] = t
      BY <1>8, <2>1, <3>1, <3>2, BarisBaruNilai
    <3>4. \A X : VarianBerstatus(k, X)' = VarianBerstatus(k, X)
      <4>1. ASSUME NEW X PROVE VarianBerstatus(k, X)' = VarianBerstatus(k, X)
        <5>1. VarianBerstatus(k, X)' = VarianBerstatus(k, X) \cup Tempat(u, k, X)
          BY <1>2, <1>u, UnitHitung
        <5>2. k \notin k0 + 1 .. k0 + Len(isi)
          BY <1>n, <3>2
        <5>3. Tempat(u, k, X) = {}
          BY <1>1, <1>2, <5>2, DiisiTempat
        <5> QED BY <5>1, <5>3
      <4> QED BY <4>1
    <3>5. DOMAIN kategori \subseteq DOMAIN kategori' /\ (kategori'[k].ada => kategori[k].ada)
      BY <1>1
    <3>6. HitungBenar(k, t)'
      BY <1>10, <3>1, <3>4, <3>5, HitungTetapBenar
    <3> QED BY <3>3, <3>6
  <2>6. ASSUME NEW k \in k0 + 1 .. k0 + n PROVE HitungBenar(k, tK[k])'
    <3>1. PICK i : i = k - k0
      OBVIOUS
    <3>2. i \in 1 .. n /\ k = k0 + i
      BY <1>1, <3>1
    <3>3. tK[k] = [ada |-> TRUE, down |-> isi[i], ready |-> 0]
      <4>1. k \in DOMAIN f /\ f[k] = isi[i] /\ k \in DOMAIN ambangKategori
        BY <1>8, <1>11, <3>2
      <4>2. BarisBaru(f)[k] = [ada |-> TRUE, down |-> f[k], ready |-> 0]
        BY <4>1, BarisBaruNilai
      <4> QED BY <2>1, <4>1, <4>2
    <3>4. k \notin DOMAIN kategori
      BY <1>1
    <3>5. \A X : VarianBerstatus(k, X)' = Tempat(u, k, X)
      <4>1. ASSUME NEW X PROVE VarianBerstatus(k, X)' = Tempat(u, k, X)
        <5>1. VarianBerstatus(k, X)' = VarianBerstatus(k, X) \cup Tempat(u, k, X)
          BY <1>2, <1>u, UnitHitung
        <5>2. VarianBerstatus(k, X) = {}
          BY <3>4, TanpaUnit
        <5> QED BY <5>1, <5>2
      <4> QED BY <4>1
    <3>6. Cardinality(VarianBerstatus(k, {"Down"})') = isi[i]
      <4>1. PICK X : X = {"Down"}
        OBVIOUS
      <4>2. "Down" \in X /\ i \in 1 .. Len(isi)
        BY <1>n, <3>2, <4>1
      <4>3. Cardinality(Tempat(u, k0 + i, X)) = isi[i]
        BY <1>1, <1>2, <4>2, DiisiTempat
      <4>4. VarianBerstatus(k, X)' = Tempat(u, k0 + i, X)
        BY <3>2, <3>5
      <4> QED BY <4>1, <4>3, <4>4
    <3>7. VarianBerstatus(k, {"Ready"})' = {}
      <4>1. PICK X : X = {"Ready"}
        OBVIOUS
      <4>2. "Down" \notin X
        BY <4>1
      <4>3. Tempat(u, k, X) = {}
        BY <1>1, <1>2, <4>2, DiisiTempat
      <4> QED BY <3>5, <4>1, <4>3
    <3>8. PICK t : t = tK[k]
      OBVIOUS
    <3>9. HitungBenar(k, t)'
      BY <3>3, <3>6, <3>7, <3>8, HitungAwal
    <3> QED BY <3>8, <3>9
  <2>7. DOMAIN tB = DOMAIN barang'
    BY <1>1, <2>2
  <2> QED BY <1>1, <2>3, <2>4, <2>5, <2>6, <2>7 DEF Sesuai
<1>13. Jalankan("buat", b, f)
  BY <1>1, <1>5 DEF IsiBaru
<1> QED BY <1>3, <1>9, <1>12, <1>13, AmbangSatu

-----------------------------------------------------------------------------
(* The other steps: reads, the change of the original category, a           *)
(* connection that breaks, and the goroutines.                              *)

LEMMA SesuaiTetap ==
    ASSUME UNCHANGED <<barang, kategori, varian>>, NEW tB, NEW tK, Sesuai(tB, tK)
    PROVE  Sesuai(tB, tK)'
<1>1. /\ \A b : KategoriDari(b)' = KategoriDari(b) /\ Hidup(b)' = Hidup(b) /\ Kecil(b)' = Kecil(b)
      /\ \A k, X : VarianBerstatus(k, X)' = VarianBerstatus(k, X)
  BY DEF KategoriDari, Hidup, VarianBarangInduk, Kecil, Sebanyak, VarianBerstatus
<1>2. \A b \in DOMAIN barang : BarisBenar(b, tB[b])'
  <2>1. ASSUME NEW b \in DOMAIN barang PROVE BarisBenar(b, tB[b])'
    <3>1. PICK t : t = tB[b]
      OBVIOUS
    <3>2. BarisBenar(b, t)
      BY <3>1 DEF Sesuai
    <3>3. BarisBenar(b, t)'
      BY <1>1, <3>2 DEF BarisBenar
    <3> QED BY <3>1, <3>3
  <2> QED BY <2>1
<1>3. \A k \in DOMAIN kategori : HitungBenar(k, tK[k])'
  <2>1. ASSUME NEW k \in DOMAIN kategori PROVE HitungBenar(k, tK[k])'
    <3>1. PICK t : t = tK[k]
      OBVIOUS
    <3>2. HitungBenar(k, t)
      BY <3>1 DEF Sesuai
    <3>3. HitungBenar(k, t)'
      BY <1>1, <3>2 DEF HitungBenar
    <3> QED BY <3>1, <3>3
  <2> QED BY <2>1
<1>4. DOMAIN tB = DOMAIN barang'
  BY DEF Sesuai
<1> QED BY <1>2, <1>3, <1>4 DEF Sesuai

LEMMA AmbangDiam ==
    ASSUME AmbangInv, UNCHANGED <<barang, kategori, varian, ambangBarang, ambangKategori, latar>>
    PROVE  AmbangInv'
<1>1. latar' = << >> => Sesuai(ambangBarang, ambangKategori)'
  <2> SUFFICES ASSUME latar' = << >> PROVE Sesuai(ambangBarang, ambangKategori)'
    OBVIOUS
  <2>1. PICK tB, tK : tB = ambangBarang /\ tK = ambangKategori
    OBVIOUS
  <2>2. Sesuai(tB, tK)
    BY <2>1 DEF AmbangInv
  <2>3. Sesuai(tB, tK)'
    BY <2>2, SesuaiTetap
  <2>4. tB = ambangBarang' /\ tK = ambangKategori'
    BY <2>1
  <2> QED BY <2>3, <2>4
<1>2. ASSUME NEW i \in DOMAIN latar', NEW tB, NEW tK, Hasil(latar[i], tB, tK)'
      PROVE  Sesuai(tB, tK)'
  <2>1. PICK j : j = latar[i]
    OBVIOUS
  <2>2. Hasil(j, tB, tK)'
    <3>1. j = latar'[i]
      BY <2>1
    <3> QED BY <1>2, <3>1
  <2>3. KategoriDari(j.barang)' = KategoriDari(j.barang)
    BY DEF KategoriDari
  <2>4. Hasil(j, tB, tK)
    BY <2>2, <2>3, HasilTetap
  <2>5. i \in DOMAIN latar
    OBVIOUS
  <2>6. Sesuai(tB, tK)
    BY <2>1, <2>4, <2>5 DEF AmbangInv
  <2> QED BY <2>6, SesuaiTetap
<1> QED BY <1>1, <1>2 DEF AmbangInv

LEMMA AmbangAsal ==
    ASSUME TypeInv, KategoriSah', Sesuai(ambangBarang, ambangKategori), latar = << >>,
           NEW p \in Proses, AsalTulis(p)
    PROVE  AmbangInv'
<1>1. BarangTertahan /\ KategoriTertahan /\ UNCHANGED <<varian, latar>>
  BY AsalEfek
<1>2. UNCHANGED <<ambangBarang, ambangKategori>>
  BY DEF AsalTulis
<1>3. PICK tB, tK : tB = ambangBarang /\ tK = ambangKategori
  OBVIOUS
<1>4. /\ DOMAIN barang' = DOMAIN barang /\ \A b \in DOMAIN barang : barang'[b].ada = barang[b].ada
      /\ DOMAIN kategori' = DOMAIN kategori
      /\ \A k \in DOMAIN kategori : kategori'[k].barang = kategori[k].barang /\ kategori'[k].ada = kategori[k].ada
  BY <1>1 DEF BarangTertahan, KategoriTertahan
<1>5. \A v \in DOMAIN varian : varian[v].kategori \in DOMAIN kategori
  BY UnitMilik
<1>6. \A b : KategoriDari(b)' = KategoriDari(b) /\ Hidup(b)' = Hidup(b)
  BY <1>1, <1>4, <1>5 DEF KategoriDari, Hidup, VarianBarangInduk
<1>7. \A k, X : VarianBerstatus(k, X)' = VarianBerstatus(k, X)
  BY <1>1 DEF VarianBerstatus
<1>8. ASSUME NEW b \in DOMAIN barang PROVE BarisBenar(b, tB[b])'
  <2>1. PICK t : t = ambangBarang[b]
    OBVIOUS
  <2>2. t \in TipeAmbang /\ BarisBenar(b, t)
    BY <2>1, TabelDasar
  <2>3. BarisBenar(b, t)'
    BY <1>4, <1>6, <2>2, BarisTetap
  <2> QED BY <1>3, <2>1, <2>3
<1>9. ASSUME NEW k \in DOMAIN kategori PROVE HitungBenar(k, tK[k])'
  <2>1. PICK t : t = ambangKategori[k]
    OBVIOUS
  <2>2. HitungBenar(k, t)
    BY <2>1, TabelDasar
  <2>3. DOMAIN kategori \subseteq DOMAIN kategori' /\ (kategori'[k].ada => kategori[k].ada)
    BY <1>4
  <2>4. HitungBenar(k, t)'
    BY <1>4, <1>7, <2>2, <2>3, HitungTetapBenar
  <2> QED BY <1>3, <2>1, <2>4
<1>10. Sesuai(tB, tK)'
  <2>1. DOMAIN tB = DOMAIN barang'
    BY <1>3, <1>4, TabelDasar
  <2> QED BY <1>4, <1>8, <1>9, <2>1 DEF Sesuai
<1>11. Sesuai(ambangBarang, ambangKategori)'
  <2>1. tB = ambangBarang' /\ tK = ambangKategori'
    BY <1>2, <1>3
  <2> QED BY <1>10, <2>1
<1>12. latar' = << >> /\ DOMAIN latar' = {}
  BY <1>1
<1> QED BY <1>11, <1>12 DEF AmbangInv

LEMMA AmbangLatar ==
    ASSUME TypeInv, SellerTertib, Tunggal, AmbangInv, NEW i \in DOMAIN latar, Latar(i)
    PROVE  AmbangInv'
<1>1. UNCHANGED <<barang, kategori, varian>> /\ latar' = << >>
  BY LatarDiam, TunggalLatar
<1>2. PICK tB, tK : tB = ambangBarang' /\ tK = ambangKategori'
  OBVIOUS
<1>3. PICK j : j = latar[i]
  OBVIOUS
<1>4. Hasil(j, tB, tK)
  <2>1. CASE LatarBuat(i)
    BY <1>2, <1>3, <2>1 DEF LatarBuat, Ambil, Hasil, BarisAwal, BarisUbah
  <2>2. CASE LatarTambah(i)
    BY <1>2, <1>3, <2>2 DEF LatarTambah, Ambil, Hasil
  <2>3. CASE LatarHapusBarang(i)
    BY <1>2, <1>3, <2>3 DEF LatarHapusBarang, Ambil, Hasil, Dikosongkan
  <2>4. CASE LatarHapusKategori(i)
    BY <1>2, <1>3, <2>4 DEF LatarHapusKategori, Ambil, Hasil, Dikosongkan
  <2>5. CASE LatarStok(i)
    BY <1>2, <1>3, <2>5 DEF LatarStok, Ambil, Hasil
  <2>6. CASE LatarTurunBarang(i)
    BY <1>2, <1>3, <2>6 DEF LatarTurunBarang, Ambil, Hasil
  <2>7. CASE LatarNaikBarang(i)
    BY <1>2, <1>3, <2>7 DEF LatarNaikBarang, Ambil, Hasil
  <2>8. CASE LatarTurun(i)
    BY <1>2, <1>3, <2>8 DEF LatarTurun, Ambil, Hasil
  <2>9. CASE LatarNaik(i)
    BY <1>2, <1>3, <2>9 DEF LatarNaik, Ambil, Hasil
  <2>10. ~LatarGagal(i)
    BY DEF LatarGagal
  <2> QED BY <2>1, <2>2, <2>3, <2>4, <2>5, <2>6, <2>7, <2>8, <2>9, <2>10 DEF Latar
<1>5. Sesuai(tB, tK)
  BY <1>3, <1>4 DEF AmbangInv
<1>6. Sesuai(tB, tK)'
  BY <1>1, <1>5, SesuaiTetap
<1>7. Sesuai(ambangBarang, ambangKategori)'
  BY <1>2, <1>6
<1>8. DOMAIN latar' = {}
  BY <1>1
<1> QED BY <1>7, <1>8 DEF AmbangInv

LEMMA AmbangTulisan ==
    ASSUME TypeInv, TypeInv', BekalInv, AmbangInv, Tunggal, NEW p \in Proses,
           \/ HapusBarangTulis(p) \/ TambahTulis(p) \/ HapusKategoriTulis(p) \/ AsalTulis(p)
           \/ StokKurang(p) \/ StokTambah(p) \/ DownKategoriTulis(p) \/ UpKategoriTulis(p) \/ Putus(p)
    PROVE  AmbangInv'
<1>1. KategoriSah' /\ VarianSah'
  BY DEF TypeInv
<1>2. latar = << >>
  <2>1. proses[p].tahap # "bebas"
    BY DEF HapusBarangTulis, TambahTulis, HapusKategoriTulis, AsalTulis, StokKurang, StokTambah,
           DownKategoriTulis, UpKategoriTulis, Putus
  <2> QED BY <2>1, TunggalSendiri DEF Sendiri
<1>3. Sesuai(ambangBarang, ambangKategori)
  BY <1>2 DEF AmbangInv
<1>4. CASE HapusBarangTulis(p)
  BY <1>1, <1>2, <1>3, <1>4, AmbangHapusBarang
<1>5. CASE TambahTulis(p)
  BY <1>1, <1>2, <1>3, <1>5, AmbangTambah
<1>6. CASE HapusKategoriTulis(p)
  BY <1>1, <1>2, <1>3, <1>6, AmbangHapusKategori
<1>7. CASE AsalTulis(p)
  BY <1>1, <1>2, <1>3, <1>7, AmbangAsal
<1>8. CASE StokKurang(p)
  BY <1>1, <1>2, <1>3, <1>8, AmbangStokKurang
<1>9. CASE StokTambah(p)
  BY <1>1, <1>2, <1>3, <1>9, AmbangStokTambah
<1>10. CASE DownKategoriTulis(p) \/ UpKategoriTulis(p)
  BY <1>1, <1>2, <1>3, <1>10, AmbangUnit
<1>11. CASE Putus(p)
  BY <1>11, AmbangDiam DEF Putus
<1> QED BY <1>4, <1>5, <1>6, <1>7, <1>8, <1>9, <1>10, <1>11

LEMMA AmbangLangkah ==
    ASSUME SellerTertib, TypeInv, TypeInv', Tunggal, BekalInv, AmbangInv, NextTertib
    PROVE  AmbangInv'
<1>k. KategoriSah' /\ VarianSah'
  BY DEF TypeInv
<1>1. ASSUME NEW isi \in Isi, NEW asal \in DOMAIN isi, MasukanBarangInduk(isi, asal) PROVE AmbangInv'
  <2>1. latar = << >>
    BY <1>1, TenangSepi DEF MasukanBarangInduk, Sepi
  <2>2. Sesuai(ambangBarang, ambangKategori)
    BY <2>1 DEF AmbangInv
  <2> QED BY <1>1, <1>k, <2>1, <2>2, AmbangMasukan
<1>2. ~MasukanGagal
  BY DEF MasukanGagal
<1>3. ASSUME NEW b \in DOMAIN barang, DownStokBarangInduk(b) \/ UpBarangInduk(b) PROVE AmbangInv'
  <2>1. latar = << >>
    BY <1>3, TenangSepi DEF DownStokBarangInduk, UpBarangInduk, Sepi
  <2>2. Sesuai(ambangBarang, ambangKategori)
    BY <2>1 DEF AmbangInv
  <2> QED BY <1>3, <1>k, <2>2, AmbangTurunBarang, AmbangNaikBarang
<1>4. ASSUME NEW p \in Proses, Langkah(p) PROVE AmbangInv'
  <2>1. \/ HapusBarangTulis(p) \/ TambahTulis(p) \/ HapusKategoriTulis(p) \/ AsalTulis(p)
        \/ StokKurang(p) \/ StokTambah(p) \/ DownKategoriTulis(p) \/ UpKategoriTulis(p) \/ Putus(p)
        => AmbangInv'
    BY AmbangTulisan
  <2>2. (\E b \in DOMAIN barang : \/ HapusBarangInduk(p, b)
                                  \/ \E s \in StokAwal : TambahKategoriBarang(p, b, s)
                                  \/ \E k \in DOMAIN kategori : SetAsOriginKategoriBarang(p, b, k))
        => AmbangInv'
    BY AmbangDiam DEF HapusBarangInduk, TambahKategoriBarang, SetAsOriginKategoriBarang
  <2>3. (\E k \in DOMAIN kategori : \/ HapusKategoriBarang(p, k)
                                    \/ \E n \in StokMasukan : EditStokKategoriBarang(p, k, n)
                                    \/ \E j \in Jumlah : \/ DownKategoriBarang(p, k, j)
                                                         \/ UpKategoriBarang(p, k, j))
        => AmbangInv'
    BY AmbangDiam DEF HapusKategoriBarang, EditStokKategoriBarang, DownKategoriBarang, UpKategoriBarang
  <2> QED BY <1>4, <2>1, <2>2, <2>3 DEF Langkah
<1>5. ASSUME NEW i \in DOMAIN latar, Latar(i) PROVE AmbangInv'
  BY <1>5, AmbangLatar
<1>6. \A q \in Pembeli : ~PembeliBaca(q) /\ ~PembeliTahan(q)
  BY TanpaPembeli DEF NextTertib
<1>7. Next
  BY DEF NextTertib
<1> QED BY <1>1, <1>2, <1>3, <1>4, <1>5, <1>6, <1>7 DEF Next

LEMMA AmbangInit == Init => AmbangInv
<1> SUFFICES ASSUME Init PROVE AmbangInv
  OBVIOUS
<1>1. /\ barang = << >> /\ kategori = << >> /\ ambangBarang = << >> /\ latar = << >>
  BY DEF Init
<1>2. DOMAIN barang = {} /\ DOMAIN kategori = {} /\ DOMAIN ambangBarang = {} /\ DOMAIN latar = {}
  BY <1>1
<1> QED BY <1>2 DEF AmbangInv, Sesuai

AmbangSkenario == skenario = "tertib" => TypeInv /\ YatimInv /\ BekalInv /\ AmbangInv

LEMMA AmbangSkenarioAwal == InitTiga => AmbangSkenario
BY TypeInvInit, YatimInit, BekalInit, AmbangInit DEF InitTiga, AmbangSkenario

LEMMA AmbangSkenarioLangkah ==
    ASSUME SellerTertib, AmbangSkenario, [NextTiga]_varsTiga
    PROVE  AmbangSkenario'
<1> SUFFICES ASSUME skenario = "tertib" PROVE TypeInv' /\ YatimInv' /\ BekalInv' /\ AmbangInv'
  <2>1. UNCHANGED skenario
    BY DEF NextTiga, varsTiga
  <2> QED BY <2>1 DEF AmbangSkenario
<1>1. TypeInv /\ YatimInv /\ BekalInv /\ AmbangInv
  BY DEF AmbangSkenario
<1>2. TypeInv' /\ YatimInv' /\ BekalInv'
  <2>1. BekalSkenario
    BY <1>1 DEF BekalSkenario
  <2>2. BekalSkenario'
    BY <2>1, BekalSkenarioLangkah
  <2>3. skenario' = "tertib"
    BY DEF NextTiga, varsTiga
  <2> QED BY <2>2, <2>3 DEF BekalSkenario
<1>3. CASE UNCHANGED varsTiga
  <2>1. UNCHANGED <<barang, kategori, varian, ambangBarang, ambangKategori, latar>>
    BY <1>3 DEF varsTiga, vars
  <2> QED BY <1>1, <1>2, <2>1, AmbangDiam
<1>4. CASE NextTiga
  <2>1. NextTertib
    BY <1>4 DEF NextTiga
  <2>2. Tunggal
    BY <1>1 DEF YatimInv
  <2> QED BY <1>1, <1>2, <2>1, <2>2, AmbangLangkah
<1> QED BY <1>3, <1>4

LEMMA AmbangCukup ==
    ASSUME TypeInv, AmbangInv
    PROVE  AmbangSesuaiUnit /\ AmbangBarangSesuai
<1> SUFFICES ASSUME latar = << >>
             PROVE  /\ \A k \in DOMAIN kategori :
                          (kategori[k].ada /\ Kecil(kategori[k].barang)) =>
                             /\ ambangKategori[k].down = Cardinality(VarianBerstatus(k, {"Down"}))
                             /\ ambangKategori[k].ready = Cardinality(VarianBerstatus(k, {"Ready"}))
                    /\ \A b \in DOMAIN barang : barang[b].ada =>
                          \E n \in BarisAmbang(b) :
                             /\ ambangBarang[n].kategori = Cardinality(KategoriDari(b))
                             /\ ambangBarang[n].varian >= Cardinality(Hidup(b))
  BY DEF AmbangSesuaiUnit, AmbangBarangSesuai, Kecil, Sebanyak, Hidup
<1>1. Sesuai(ambangBarang, ambangKategori)
  BY DEF AmbangInv
<1>2. ASSUME NEW k \in DOMAIN kategori, kategori[k].ada, Kecil(kategori[k].barang)
      PROVE  /\ ambangKategori[k].down = Cardinality(VarianBerstatus(k, {"Down"}))
             /\ ambangKategori[k].ready = Cardinality(VarianBerstatus(k, {"Ready"}))
  BY <1>1, <1>2, TabelDasar DEF HitungBenar
<1>3. ASSUME NEW b \in DOMAIN barang, barang[b].ada
      PROVE  \E n \in BarisAmbang(b) : /\ ambangBarang[n].kategori = Cardinality(KategoriDari(b))
                                       /\ ambangBarang[n].varian >= Cardinality(Hidup(b))
  <2>1. BarisBenar(b, ambangBarang[b]) /\ b \in DOMAIN ambangBarang
    BY <1>1, TabelDasar
  <2>2. b \in BarisAmbang(b)
    BY <1>3, <2>1 DEF BarisBenar, BarisAmbang
  <2>3. /\ ambangBarang[b].kategori = Cardinality(KategoriDari(b))
        /\ ambangBarang[b].varian >= Cardinality(Hidup(b))
    BY <1>3, <2>1 DEF BarisBenar
  <2> QED BY <2>2, <2>3
<1> QED BY <1>2, <1>3

\* With an orderly seller and no checkouts, the counters are right whenever no goroutine is
\* left: those of a category say how many of its units are Down and Ready, as long as its
\* product never had more categories than its id, and those of a product count its
\* categories and no fewer units than it has.  Each handler of engagement_barang.go changes
\* the goods, and the goroutine it leaves behind catches up with them.
THEOREM AmbangBenar == SellerTertib => (SpecTiga => []AmbangTertib)
<1> SUFFICES ASSUME SellerTertib PROVE SpecTiga => []AmbangTertib
  OBVIOUS
<1>1. AmbangSkenario /\ [NextTiga]_varsTiga => AmbangSkenario'
  BY AmbangSkenarioLangkah
<1>2. AmbangSkenario => AmbangTertib
  BY AmbangCukup DEF AmbangSkenario, AmbangTertib
<1> QED BY AmbangSkenarioAwal, <1>1, <1>2, PTL DEF SpecTiga
=============================================================================
