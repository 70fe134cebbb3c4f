----------------------------- MODULE MediaProofs -----------------------------
(***************************************************************************)
(* Proofs about MediaLayanan, for any tables, owners, concurrent requests   *)
(* and bounds.                                                              *)
(***************************************************************************)
EXTENDS MediaLayanan, TLAPS, FiniteSetTheorems, SequenceTheorems

TipeBaris(k) == [jenis : Jenis, pemilik : Pemilik, kunci : 1 .. k, ada : BOOLEAN]
TipeLatar(n) == [jenis : {"buat", "ubah", "hapus"}, baris : SUBSET (1 .. n)]
TipeProses(n, k) ==
    [tahap : Tahap, jenis : Jenis \cup {""}, pemilik : Pemilik \cup {0}, id : 0 .. n, jumlah : Nat,
     pilih : SUBSET (1 .. n), lama : SUBSET (Jenis \X (1 .. k))]

\* A request that will write a row knows its table and its owner.
Berpemilik(r) ==
    r.tahap \in {"ganti", "buangGanti", "tambah"} => r.jenis \in Jenis /\ r.pemilik \in Pemilik

TypeInv ==
    /\ baris \in Seq(TipeBaris(kunci))
    /\ kunci \in Nat
    /\ url \cup objek \cup dibuang \subseteq Jenis \X (1 .. kunci)
    /\ hitung \in [Jenis \X Pemilik -> Int]
    /\ salinan \subseteq (1 .. Len(baris)) \X (1 .. kunci)
    /\ latar \in Seq(TipeLatar(Len(baris)))
    /\ proses \in [Proses -> TipeProses(Len(baris), kunci)]
    /\ \A p \in Proses : Berpemilik(proses[p])

\* A deleted row stays deleted.
Tetap == \A i \in DOMAIN baris : ~baris[i].ada => ~baris'[i].ada

\* No two rows ever made have the same key.
KunciUnik == \A i, k \in DOMAIN baris : baris[i].kunci = baris[k].kunci => i = k

\* A row whose file a request is about to remove is one the request is working on; a
\* request that removes files and then refuses works on no document.
Pegang(b, r) ==
    \A i \in DOMAIN b :
        <<b[i].jenis, b[i].kunci>> \in r.lama => /\ r.tahap = "buangGanti" => r.id = i
                                                 /\ r.tahap = "buangHapus" => i \in r.pilih
                                                 /\ r.tahap = "buangTolak" => b[i].jenis \notin Dokumen

Inv == TypeInv /\ KunciUnik /\ \A p \in Proses : Pegang(baris, proses[p])

\* The tables whose handlers remove the files of the rows they replace or delete.
Bersih == Dokumen \cup {"toko_fisik"}

\* The number of rows an owner may have in a table other than the photos of the shop.
Paling(j) == IF j \in {"foto_barang", "review_foto"} THEN Batas ELSE 1

\* The rows of an owner in the table b, and the file row i of it names.
Milik(b, j, o) == {i \in DOMAIN b : b[i].ada /\ b[i].jenis = j /\ b[i].pemilik = o}
Nama(b, i) == <<b[i].jenis, b[i].kunci>>

\* What a request has read is true of the rows b.
Segar(b, r) ==
    /\ r.tahap = "ganti" =>
           IF r.id = 0 THEN Milik(b, r.jenis, r.pemilik) = {} /\ Paling(r.jenis) = 1
                       ELSE r.id \in Milik(b, r.jenis, r.pemilik)
    /\ r.tahap = "buangGanti" =>
           /\ r.id # 0 /\ r.id \in Milik(b, r.jenis, r.pemilik)
           /\ r.lama = {Nama(b, r.id)}
    /\ r.tahap = "tambah" /\ r.jenis # "toko_fisik" =>
           Cardinality(Milik(b, r.jenis, r.pemilik)) + r.jumlah <= Paling(r.jenis)
    /\ r.tahap \in {"hapus", "buangHapus"} =>
           \A i \in r.pilih : i \in DOMAIN b /\ b[i].ada /\ b[i].jenis = r.jenis
    /\ r.tahap = "buangHapus" => r.lama = {Nama(b, i) : i \in r.pilih}

\* What a request holds when it has read.
AwalBersih(r) == r.tahap = "hapus" \/ (r.tahap = "ganti" /\ r.id # 0) => r.jenis \notin Bersih
Awal(r) == /\ r \in TipeProses(Len(baris), kunci) /\ Berpemilik(r) /\ Pegang(baris, r)
           /\ Segar(baris, r) /\ AwalBersih(r)
Minta(p) == \E r \in TipeProses(Len(baris), kunci) : Awal(r) /\ Mulai(p, r)

-----------------------------------------------------------------------------
(* Data.                                                                    *)

LEMMA BarisDomain == TypeInv => DOMAIN baris = 1 .. Len(baris) /\ Len(baris) \in Nat
BY DEF TypeInv

LEMMA InvTipe == TypeInv => TypeOK
<1> SUFFICES ASSUME TypeInv PROVE TypeOK
  OBVIOUS
<1>1. DOMAIN baris = 1 .. Len(baris)
  BY BarisDomain
<1>2. \A i \in DOMAIN latar : latar[i] \in TipeLatar(Len(baris))
  BY DEF TypeInv
<1>3. \A p \in Proses : proses[p] \in TipeProses(Len(baris), kunci)
  BY DEF TypeInv
<1>4. \A i \in DOMAIN latar : /\ latar[i].jenis \in {"buat", "ubah", "hapus"}
                              /\ latar[i].baris \subseteq DOMAIN baris
  BY <1>1, <1>2 DEF TipeLatar
<1>5. \A p \in Proses : /\ proses[p].tahap \in Tahap
                        /\ proses[p].id \in 0 .. Len(baris)
                        /\ proses[p].pilih \subseteq DOMAIN baris
                        /\ proses[p].lama \subseteq Jenis \X (1 .. kunci)
  BY <1>1, <1>3 DEF TipeProses
<1> QED BY <1>1, <1>4, <1>5 DEF TypeInv, TypeOK, MediaTypeOK, TipeBaris

\* The types grow with the number of rows and of keys.
LEMMA TipeTumbuh ==
    ASSUME NEW n \in Nat, NEW m \in Nat, NEW k \in Nat, NEW l \in Nat, n <= m, k <= l
    PROVE  /\ TipeBaris(k) \subseteq TipeBaris(l)
           /\ TipeLatar(n) \subseteq TipeLatar(m)
           /\ TipeProses(n, k) \subseteq TipeProses(m, l)
           /\ Jenis \X (1 .. k) \subseteq Jenis \X (1 .. l)
           /\ (1 .. n) \X (1 .. k) \subseteq (1 .. m) \X (1 .. l)
<1>1. 1 .. n \subseteq 1 .. m /\ 1 .. k \subseteq 1 .. l /\ 0 .. n \subseteq 0 .. m
  OBVIOUS
<1>2. TipeBaris(k) \subseteq TipeBaris(l)
  BY <1>1 DEF TipeBaris
<1>3. TipeLatar(n) \subseteq TipeLatar(m)
  BY <1>1 DEF TipeLatar
<1>4. Jenis \X (1 .. k) \subseteq Jenis \X (1 .. l)
  BY <1>1
<1>5. TipeProses(n, k) \subseteq TipeProses(m, l)
  BY <1>1, <1>4 DEF TipeProses
<1> QED BY <1>1, <1>2, <1>3, <1>4, <1>5

LEMMA SeqTumbuh ==
    ASSUME NEW S, NEW T, S \subseteq T, NEW s \in Seq(S)
    PROVE  s \in Seq(T)
OBVIOUS

LEMMA BebasTipe == \A n, k \in Nat : /\ ProsesBebas \in TipeProses(n, k)
                                     /\ Berpemilik(ProsesBebas)
                                     /\ ProsesBebas.tahap = "bebas"
BY DEF ProsesBebas, TipeProses, Tahap, Berpemilik

\* One request becomes another well-formed one.
LEMMA ProsesBaru ==
    ASSUME TypeInv, NEW p \in Proses, NEW n \in Nat, NEW k \in Nat, Len(baris) <= n, kunci <= k,
           NEW r \in TipeProses(n, k), Berpemilik(r), proses' = [proses EXCEPT ![p] = r]
    PROVE  /\ proses' \in [Proses -> TipeProses(n, k)]
           /\ \A q \in Proses : Berpemilik(proses'[q])
<1>1. Len(baris) \in Nat /\ kunci \in Nat
  BY BarisDomain DEF TypeInv
<1>2. TipeProses(Len(baris), kunci) \subseteq TipeProses(n, k)
  BY <1>1, TipeTumbuh
<1>3. proses \in [Proses -> TipeProses(n, k)] /\ \A q \in Proses : Berpemilik(proses[q])
  BY <1>2 DEF TypeInv
<1>4. \A q \in Proses : proses'[q] = IF q = p THEN r ELSE proses[q]
  BY <1>3
<1>5. proses' \in [Proses -> TipeProses(n, k)]
  BY <1>3
<1> QED BY <1>3, <1>4, <1>5

LEMMA LepasBaru ==
    ASSUME TypeInv, NEW p \in Proses, NEW n \in Nat, NEW k \in Nat, Len(baris) <= n, kunci <= k, Lepas(p)
    PROVE  /\ proses' \in [Proses -> TipeProses(n, k)]
           /\ \A q \in Proses : Berpemilik(proses'[q])
BY BebasTipe, ProsesBaru DEF Lepas

\* A new goroutine.
LEMMA JalankanBaru ==
    ASSUME TypeInv, NEW n \in Nat, Len(baris) <= n, NEW S \in SUBSET (1 .. n),
           NEW jenis \in {"buat", "ubah", "hapus"}, Jalankan(jenis, S)
    PROVE  latar' \in Seq(TipeLatar(n))
<1>1. Len(baris) \in Nat
  BY BarisDomain
<1>2. TipeLatar(Len(baris)) \subseteq TipeLatar(n)
  BY <1>1, TipeTumbuh
<1>3. latar \in Seq(TipeLatar(n))
  BY <1>2, SeqTumbuh DEF TypeInv
<1>4. [jenis |-> jenis, baris |-> S] \in TipeLatar(n)
  BY DEF TipeLatar
<1> QED BY <1>3, <1>4 DEF Jalankan

\* A goroutine ends.
LEMMA SisaTipe ==
    ASSUME TypeInv, NEW i \in DOMAIN latar
    PROVE  Sisa(i) \in Seq(TipeLatar(Len(baris)))
<1> DEFINE T == TipeLatar(Len(baris))
<1>1. latar \in Seq(T) /\ Len(latar) \in Nat /\ i \in 1 .. Len(latar)
  BY DEF TypeInv
<1> HIDE DEF T
<1>2. SubSeq(latar, 1, i - 1) \in Seq(T)
  BY <1>1
<1>3. SubSeq(latar, i + 1, Len(latar)) \in Seq(T)
  BY <1>1
<1>4. Sisa(i) \in Seq(T)
  BY <1>2, <1>3 DEF Sisa
<1> QED BY <1>4 DEF T

\* New rows at the end.
LEMMA BarisTambah ==
    ASSUME TypeInv, NEW j \in Jenis, NEW o \in Pemilik, NEW n \in Nat, NEW k \in Nat, kunci + n <= k,
           baris' = baris \o BarisBaru(j, o, n)
    PROVE  /\ baris' \in Seq(TipeBaris(k))
           /\ Len(baris') = Len(baris) + n
           /\ DOMAIN baris' = 1 .. Len(baris) + n
           /\ \A i \in DOMAIN baris : baris'[i] = baris[i]
           /\ \A i \in (DOMAIN baris') \ (DOMAIN baris) :
                 baris'[i] = [jenis |-> j, pemilik |-> o, kunci |-> kunci + (i - Len(baris)), ada |-> TRUE]
<1> DEFINE b == BarisBaru(j, o, n)
<1>1. Len(baris) \in Nat /\ kunci \in Nat /\ DOMAIN baris = 1 .. Len(baris)
  BY BarisDomain DEF TypeInv
<1>2. \A i \in 1 .. n : [jenis |-> j, pemilik |-> o, kunci |-> kunci + i, ada |-> TRUE] \in TipeBaris(k)
  BY <1>1 DEF TipeBaris
<1>3. b \in Seq(TipeBaris(k)) /\ Len(b) = n
  BY <1>2 DEF BarisBaru
<1>4. TipeBaris(kunci) \subseteq TipeBaris(k)
  BY <1>1, TipeTumbuh
<1>5. baris \in Seq(TipeBaris(k))
  BY <1>4, SeqTumbuh DEF TypeInv
<1>6. \A i \in 1 .. n : b[i] = [jenis |-> j, pemilik |-> o, kunci |-> kunci + i, ada |-> TRUE]
  BY DEF BarisBaru
<1> HIDE DEF b
<1>7. baris' = baris \o b
  BY DEF b
<1>8. /\ baris' \in Seq(TipeBaris(k))
      /\ Len(baris') = Len(baris) + n
      /\ \A i \in 1 .. Len(baris) + n :
            baris'[i] = IF i <= Len(baris) THEN baris[i] ELSE b[i - Len(baris)]
  <2> DEFINE T == TipeBaris(k)
  <2>1. baris \in Seq(T) /\ b \in Seq(T) /\ Len(b) = n
    BY <1>3, <1>5 DEF b
  <2> HIDE DEF T
  <2>2. /\ baris \o b \in Seq(T)
        /\ Len(baris \o b) = Len(baris) + Len(b)
        /\ \A i \in 1 .. Len(baris) + Len(b) :
              (baris \o b)[i] = IF i <= Len(baris) THEN baris[i] ELSE b[i - Len(baris)]
    BY <2>1, ConcatProperties
  <2> QED BY <2>1, <2>2, <1>7 DEF T
<1>9. DOMAIN baris' = 1 .. Len(baris) + n
  BY <1>8
<1>10. \A i \in DOMAIN baris : baris'[i] = baris[i]
  BY <1>1, <1>8
<1>11. ASSUME NEW i \in (DOMAIN baris') \ (DOMAIN baris)
       PROVE  baris'[i] = [jenis |-> j, pemilik |-> o, kunci |-> kunci + (i - Len(baris)), ada |-> TRUE]
  <2>1. i - Len(baris) \in 1 .. n /\ ~(i <= Len(baris)) /\ i \in 1 .. Len(baris) + n
    BY <1>1, <1>9, <1>11
  <2> QED BY <1>6, <1>8, <2>1
<1> QED BY <1>8, <1>9, <1>10, <1>11

-----------------------------------------------------------------------------
(* Requests: each form of a handler begins with a well-formed request.      *)

\* A row that is there has a type, and its file is the file of no other row.
LEMMA BarisTipe ==
    ASSUME Inv, NEW i \in DOMAIN baris
    PROVE  /\ i \in 1 .. Len(baris) /\ baris[i] \in TipeBaris(kunci)
           /\ Berkas(i) \in Jenis \X (1 .. kunci)
           /\ \A k \in DOMAIN baris : Berkas(k) = Berkas(i) => k = i
<1>1. i \in 1 .. Len(baris) /\ baris[i] \in TipeBaris(kunci)
  BY DEF Inv, TypeInv
<1>2. Berkas(i) \in Jenis \X (1 .. kunci)
  BY <1>1 DEF Berkas, TipeBaris
<1>3. \A k \in DOMAIN baris : Berkas(k) = Berkas(i) => k = i
  BY DEF Inv, KunciUnik, Berkas
<1> QED BY <1>1, <1>2, <1>3

LEMMA GantiBacaAwal ==
    ASSUME Inv, NEW p \in Proses, NEW j, NEW o \in Pemilik, GantiBaca(p, j, o),
           j \notin Bersih, Paling(j) = 1
    PROVE  Minta(p)
<1>1. PICK i \in IF BarisMilik(j, o) = {} THEN {0} ELSE BarisMilik(j, o) :
          Mulai(p, [ProsesBebas EXCEPT !.tahap = "ganti", !.jenis = j, !.pemilik = o, !.id = i])
  BY DEF GantiBaca
<1> DEFINE r == [ProsesBebas EXCEPT !.tahap = "ganti", !.jenis = j, !.pemilik = o, !.id = i]
<1>2. /\ r.tahap = "ganti" /\ r.jenis = j /\ r.pemilik = o /\ r.id = i /\ r.jumlah = 0
      /\ r.pilih = {} /\ r.lama = {}
  BY DEF ProsesBebas
<1>3. j \in Jenis
  BY <1>1, <1>2 DEF Mulai
<1>4. i \in 0 .. Len(baris)
  BY BarisDomain DEF BarisMilik, Inv
<1>5. r \in TipeProses(Len(baris), kunci)
  BY BebasTipe, <1>2, <1>3, <1>4, BarisDomain DEF TipeProses, Tahap, Inv, TypeInv
<1>s. Segar(baris, r) /\ AwalBersih(r)
  <2>1. i = 0 => BarisMilik(j, o) = {}
    BY <1>4, BarisDomain DEF BarisMilik, Inv
  <2>2. i # 0 => i \in BarisMilik(j, o)
    OBVIOUS
  <2> QED BY <1>2, <2>1, <2>2 DEF Segar, AwalBersih, BarisMilik, Milik, BarisAda, Berkas, Nama
<1>6. Awal(r)
  BY <1>2, <1>3, <1>5, <1>s DEF Awal, Berpemilik, Pegang
<1> QED BY <1>1, <1>5, <1>6 DEF Minta

LEMMA GantiBuangBacaAwal ==
    ASSUME Inv, NEW p \in Proses, NEW j, NEW o \in Pemilik, GantiBuangBaca(p, j, o), Paling(j) = 1
    PROVE  Minta(p)
<1>1. PICK i \in IF BarisMilik(j, o) = {} THEN {0} ELSE BarisMilik(j, o) :
          Mulai(p, [ProsesBebas EXCEPT !.tahap = IF i = 0 THEN "ganti" ELSE "buangGanti",
                                       !.jenis = j, !.pemilik = o, !.id = i,
                                       !.lama = IF i = 0 THEN {} ELSE {Berkas(i)}])
  BY DEF GantiBuangBaca
<1> DEFINE r == [ProsesBebas EXCEPT !.tahap = IF i = 0 THEN "ganti" ELSE "buangGanti",
                                    !.jenis = j, !.pemilik = o, !.id = i,
                                    !.lama = IF i = 0 THEN {} ELSE {Berkas(i)}]
<1>2. /\ r.tahap = (IF i = 0 THEN "ganti" ELSE "buangGanti") /\ r.jenis = j
      /\ r.pemilik = o /\ r.id = i /\ r.jumlah = 0 /\ r.pilih = {}
      /\ r.lama = (IF i = 0 THEN {} ELSE {Berkas(i)})
  BY DEF ProsesBebas
<1>3. j \in Jenis
  BY <1>1, <1>2 DEF Mulai
<1>4. i \in 0 .. Len(baris) /\ (i # 0 => i \in DOMAIN baris)
  BY BarisDomain DEF BarisMilik, Inv
<1>5. i # 0 => /\ Berkas(i) \in Jenis \X (1 .. kunci)
               /\ \A k \in DOMAIN baris : Berkas(k) = Berkas(i) => k = i
  BY <1>4, BarisTipe
<1>6. r \in TipeProses(Len(baris), kunci)
  BY BebasTipe, <1>2, <1>3, <1>4, <1>5, BarisDomain DEF TipeProses, Tahap, Inv, TypeInv
<1>s. Segar(baris, r) /\ AwalBersih(r)
  <2>1. i = 0 => BarisMilik(j, o) = {}
    BY <1>4, BarisDomain DEF BarisMilik, Inv
  <2>2. i # 0 => i \in BarisMilik(j, o)
    OBVIOUS
  <2> QED BY <1>2, <2>1, <2>2 DEF Segar, AwalBersih, BarisMilik, Milik, BarisAda, Berkas, Nama
<1>7. Awal(r)
  BY <1>2, <1>3, <1>5, <1>6, <1>s DEF Awal, Berpemilik, Pegang, Berkas
<1> QED BY <1>1, <1>6, <1>7 DEF Minta

LEMMA TambahBacaAwal ==
    ASSUME Inv, NEW p \in Proses, NEW j, NEW o \in Pemilik, NEW n \in Nat, TambahBaca(p, j, o, n),
           j # "toko_fisik" => Cardinality(BarisMilik(j, o)) + n <= Paling(j)
    PROVE  Minta(p)
<1> DEFINE r == [ProsesBebas EXCEPT !.tahap = "tambah", !.jenis = j, !.pemilik = o, !.jumlah = n]
<1>1. /\ r.tahap = "tambah" /\ r.jenis = j /\ r.pemilik = o /\ r.id = 0 /\ r.jumlah = n
      /\ r.pilih = {} /\ r.lama = {}
  BY DEF ProsesBebas
<1>2. Mulai(p, r)
  BY DEF TambahBaca
<1>3. j \in Jenis
  BY <1>1, <1>2 DEF Mulai
<1>4. r \in TipeProses(Len(baris), kunci)
  BY BebasTipe, <1>1, <1>3, BarisDomain DEF TipeProses, Tahap, Inv, TypeInv
<1>s. Segar(baris, r) /\ AwalBersih(r)
  BY <1>1 DEF Segar, AwalBersih, BarisMilik, Milik, BarisAda, Berkas, Nama
<1>5. Awal(r)
  BY <1>1, <1>3, <1>4, <1>s DEF Awal, Berpemilik, Pegang
<1> QED BY <1>2, <1>4, <1>5 DEF Minta

LEMMA SekaliBacaAwal ==
    ASSUME Inv, NEW p \in Proses, NEW j, NEW o \in Pemilik, NEW n \in Nat, SekaliBaca(p, j, o, n),
           n <= Paling(j)
    PROVE  Minta(p)
<1>1. Cardinality(BarisMilik(j, o)) = 0
  BY FS_EmptySet DEF SekaliBaca
<1> QED BY <1>1, TambahBacaAwal DEF SekaliBaca

\* The rows of an owner are finitely many.
LEMMA MilikHingga ==
    ASSUME Inv, NEW j, NEW o
    PROVE  IsFiniteSet(BarisMilik(j, o)) /\ Cardinality(BarisMilik(j, o)) \in Nat
<1>1. DOMAIN baris = 1 .. Len(baris) /\ Len(baris) \in Nat
  BY BarisDomain DEF Inv
<1>2. IsFiniteSet(1 .. Len(baris))
  BY <1>1, FS_Interval
<1>3. BarisMilik(j, o) \subseteq 1 .. Len(baris)
  BY <1>1 DEF BarisMilik
<1>4. IsFiniteSet(BarisMilik(j, o))
  BY <1>2, <1>3, FS_Subset
<1> QED BY <1>4, FS_CardinalityType

LEMMA TambahSampaiBacaAwal ==
    ASSUME Inv, NEW p \in Proses, NEW j, NEW o \in Pemilik, NEW n \in Nat, NEW paling \in Nat,
           TambahSampaiBaca(p, j, o, n, paling), paling = Paling(j)
    PROVE  Minta(p)
<1> DEFINE sisa == paling - Cardinality(BarisMilik(j, o))
           m == IF n > sisa THEN sisa ELSE n
<1>1. sisa > 0 /\ TambahBaca(p, j, o, m)
  BY DEF TambahSampaiBaca
<1>2. m \in Nat /\ Cardinality(BarisMilik(j, o)) + m <= paling
  BY <1>1, MilikHingga
<1> HIDE DEF m
<1> QED BY <1>1, <1>2, TambahBacaAwal

LEMMA HapusBacaAwal ==
    ASSUME Inv, NEW p \in Proses, NEW j, NEW i \in DOMAIN baris, HapusBaca(p, j, i),
           j \notin Bersih
    PROVE  Minta(p)
<1> DEFINE r == [ProsesBebas EXCEPT !.tahap = "hapus", !.jenis = j, !.pilih = {i}]
<1>1. /\ r.tahap = "hapus" /\ r.jenis = j /\ r.pemilik = 0 /\ r.id = 0 /\ r.jumlah = 0
      /\ r.pilih = {i} /\ r.lama = {}
  BY DEF ProsesBebas
<1>2. Mulai(p, r)
  BY DEF HapusBaca
<1>3. j \in Jenis
  BY <1>1, <1>2 DEF Mulai
<1>4. r \in TipeProses(Len(baris), kunci)
  BY BebasTipe, <1>1, <1>3, BarisDomain DEF TipeProses, Tahap, Inv, TypeInv
<1>s. Segar(baris, r) /\ AwalBersih(r)
  BY <1>1 DEF Segar, AwalBersih, BarisMilik, Milik, BarisAda, Berkas, Nama, HapusBaca
<1>5. Awal(r)
  BY <1>1, <1>4, <1>s DEF Awal, Berpemilik, Pegang
<1> QED BY <1>2, <1>4, <1>5 DEF Minta

LEMMA HapusBuangBacaAwal ==
    ASSUME Inv, NEW p \in Proses, NEW j, NEW i \in DOMAIN baris, HapusBuangBaca(p, j, i)
    PROVE  Minta(p)
<1> DEFINE r == [ProsesBebas EXCEPT !.tahap = "buangHapus", !.jenis = j, !.pilih = {i},
                                    !.lama = {Berkas(i)}]
<1>1. /\ r.tahap = "buangHapus" /\ r.jenis = j /\ r.pemilik = 0 /\ r.id = 0 /\ r.jumlah = 0
      /\ r.pilih = {i} /\ r.lama = {Berkas(i)}
  BY DEF ProsesBebas
<1>2. Mulai(p, r)
  BY DEF HapusBuangBaca
<1>3. j \in Jenis
  BY <1>1, <1>2 DEF Mulai
<1>4. i \in 1 .. Len(baris) /\ {Berkas(i)} \subseteq Jenis \X (1 .. kunci)
  BY BarisTipe
<1>5. r \in TipeProses(Len(baris), kunci)
  BY BebasTipe, <1>3, <1>4, BarisDomain DEF TipeProses, Tahap, Inv, TypeInv
<1>s. Segar(baris, r) /\ AwalBersih(r)
  BY <1>1 DEF Segar, AwalBersih, BarisMilik, Milik, BarisAda, Berkas, Nama, HapusBuangBaca
<1>6. Awal(r)
  BY <1>1, <1>5, <1>s, BarisTipe DEF Awal, Berpemilik, Pegang, Berkas
<1> QED BY <1>2, <1>5, <1>6 DEF Minta

LEMMA HapusDaftarBacaAwal ==
    ASSUME Inv, NEW p \in Proses, NEW j, NEW o, NEW S, HapusDaftarBaca(p, j, o, S),
           j \notin Bersih
    PROVE  Minta(p)
<1> DEFINE ada == S \cap BarisMilik(j, o)
           r == [ProsesBebas EXCEPT !.tahap = "hapus", !.jenis = j, !.pilih = ada]
<1>1. /\ r.tahap = "hapus" /\ r.jenis = j /\ r.pemilik = 0 /\ r.id = 0 /\ r.jumlah = 0
      /\ r.pilih = ada /\ r.lama = {}
  BY DEF ProsesBebas
<1>2. Mulai(p, r)
  BY DEF HapusDaftarBaca
<1>3. j \in Jenis
  BY <1>1, <1>2 DEF Mulai
<1>4. /\ ada \subseteq 1 .. Len(baris) /\ Len(baris) \in Nat
      /\ \A i \in ada : BarisAda(i) /\ baris[i].jenis = j
  BY BarisDomain DEF BarisMilik, BarisAda, Inv
<1> HIDE DEF ada
<1>s. Segar(baris, r) /\ AwalBersih(r)
  BY <1>1, <1>4 DEF Segar, AwalBersih, BarisMilik, Milik, BarisAda, Berkas, Nama
<1>5. r \in TipeProses(Len(baris), kunci)
  BY BebasTipe, <1>1, <1>3, <1>4, BarisDomain DEF TipeProses, Tahap, Inv, TypeInv
<1>6. Awal(r)
  BY <1>1, <1>5, <1>s DEF Awal, Berpemilik, Pegang
<1> QED BY <1>2, <1>5, <1>6 DEF Minta

LEMMA HapusBuangDaftarBacaAwal ==
    ASSUME Inv, NEW p \in Proses, NEW j, j \notin Dokumen, NEW o, NEW S,
           HapusBuangDaftarBaca(p, j, o, S)
    PROVE  Minta(p)
<1> DEFINE ada == S \cap BarisMilik(j, o)
           lama == {Berkas(i) : i \in ada}
           tahap == IF ada = S THEN "buangHapus" ELSE "buangTolak"
           r == [ProsesBebas EXCEPT !.tahap = tahap, !.jenis = j, !.pilih = ada, !.lama = lama]
<1>1. /\ r.tahap = tahap /\ r.jenis = j /\ r.pemilik = 0 /\ r.id = 0 /\ r.jumlah = 0
      /\ r.pilih = ada /\ r.lama = lama
  BY DEF ProsesBebas
<1>2. Mulai(p, r)
  BY DEF HapusBuangDaftarBaca
<1>3. j \in Jenis
  BY <1>1, <1>2 DEF Mulai
<1>4. /\ ada \subseteq DOMAIN baris /\ DOMAIN baris = 1 .. Len(baris) /\ Len(baris) \in Nat
      /\ \A i \in ada : BarisAda(i) /\ baris[i].jenis = j
  BY BarisDomain DEF BarisMilik, BarisAda, Inv
<1>5. lama \subseteq Jenis \X (1 .. kunci)
  BY <1>4, BarisTipe
<1>6. \A i \in DOMAIN baris : Berkas(i) \in lama => i \in ada
  BY <1>4, BarisTipe
<1>7. tahap \in {"buangHapus", "buangTolak"}
  OBVIOUS
<1>s. Segar(baris, r) /\ AwalBersih(r)
  <2> HIDE DEF ada, tahap
  <2> QED BY <1>1, <1>4, <1>7 DEF Segar, AwalBersih, BarisMilik, Milik, BarisAda, Berkas, Nama
<1> HIDE DEF ada, lama, tahap
<1>8. r \in TipeProses(Len(baris), kunci)
  BY BebasTipe, <1>1, <1>3, <1>4, <1>5, <1>7, BarisDomain DEF TipeProses, Tahap, Inv, TypeInv
<1>9. Pegang(baris, r)
  BY <1>1, <1>4, <1>6, <1>7 DEF Pegang, Berkas
<1>10. Awal(r)
  BY <1>1, <1>7, <1>8, <1>9, <1>s DEF Awal, Berpemilik
<1> QED BY <1>2, <1>8, <1>10 DEF Minta

LEMMA MintaSeller ==
    ASSUME Inv, NEW p \in Proses, PermintaanSeller(p)
    PROVE  Minta(p)
<1>1. ASSUME UbahFotoProfilSeller(p) \/ UbahFotoBannerSeller(p) \/ UbahFotoEtalaseSeller(p) \/
             UbahBarangIndukVideo(p) \/ UbahKategoriBarangFoto(p)
      PROVE  Minta(p)
  BY <1>1, GantiBacaAwal DEF UbahFotoProfilSeller, UbahFotoBannerSeller, UbahFotoEtalaseSeller,
     UbahBarangIndukVideo, UbahKategoriBarangFoto, Paling, Bersih, Dokumen, Distributor, Brand
<1>2. ASSUME HapusFotoProfilSeller(p) \/ HapusFotoBannerSeller(p) \/ HapusFotoEtalaseSeller(p) \/
             HapusBarangIndukVideo(p) \/ HapusKategoriBarangFoto(p)
      PROVE  Minta(p)
  BY <1>2, HapusBacaAwal DEF HapusFotoProfilSeller, HapusFotoBannerSeller, HapusFotoEtalaseSeller,
     HapusBarangIndukVideo, HapusKategoriBarangFoto, Bersih, Dokumen, Distributor, Brand
<1>3. ASSUME TambahkanFotoTokoFisikSeller(p)
      PROVE  Minta(p)
  BY <1>3, TambahBacaAwal DEF TambahkanFotoTokoFisikSeller
<1>4. ASSUME HapusFotoTokoFisikSeller(p)
      PROVE  Minta(p)
  BY <1>4, HapusBuangDaftarBacaAwal DEF HapusFotoTokoFisikSeller, Dokumen, Distributor, Brand
<1>5. ASSUME TambahkanMediaBarangIndukFoto(p)
      PROVE  Minta(p)
  BY <1>5, TambahSampaiBacaAwal, MediaAssumption DEF TambahkanMediaBarangIndukFoto, Paling
<1>6. ASSUME HapusMediaBarangIndukFoto(p)
      PROVE  Minta(p)
  BY <1>6, HapusDaftarBacaAwal DEF HapusMediaBarangIndukFoto, Bersih, Dokumen, Distributor, Brand
<1>7. ASSUME TambahDistributorDataDokumen(p) \/ TambahMediaDistributorDataNPWPFoto(p) \/
             TambahDistributorDataNIBFoto(p) \/ TambahDistributorDataSuratKerjasamaDokumen(p) \/
             TambahBrandDataPerwakilanDokumen(p) \/ TambahMediaBrandDataSertifikatFoto(p) \/
             TambahMediaBrandDataNIBFoto(p) \/ TambahMediaBrandNPWPFoto(p) \/ TambahMediaBrandDataLogoFoto(p)
             \/ TambahBrandDataSuratKerjasamaDokumen(p)
      PROVE  Minta(p)
  BY <1>7, GantiBuangBacaAwal DEF TambahDistributorDataDokumen, TambahMediaDistributorDataNPWPFoto,
     TambahDistributorDataNIBFoto, TambahDistributorDataSuratKerjasamaDokumen,
     TambahBrandDataPerwakilanDokumen, TambahMediaBrandDataSertifikatFoto,
     TambahMediaBrandDataNIBFoto, TambahMediaBrandNPWPFoto, TambahMediaBrandDataLogoFoto,
     TambahBrandDataSuratKerjasamaDokumen, Paling
<1>8. ASSUME HapusMediaDistributorDataDokumen(p) \/ HapusMediaDistributorDataNPWPFoto(p) \/
             HapusDistributorDataNIBFoto(p) \/ HapusDistributorDataSuratKerjasamaDataDokumen(p) \/
             HapusMediaBrandDataPerwakilanDokumen(p) \/ HapusMediaBrandDataSertifikatFoto(p) \/
             HapusMediaBrandDataNIBFoto(p) \/ HapusMediaBrandNPWPFoto(p) \/ HapusMediaBrandDataLogo(p) \/
             HapusBrandDataSuratKerjasamaDokumen(p)
      PROVE  Minta(p)
  BY <1>8, HapusBuangBacaAwal DEF HapusMediaDistributorDataDokumen,
     HapusMediaDistributorDataNPWPFoto, HapusDistributorDataNIBFoto,
     HapusDistributorDataSuratKerjasamaDataDokumen, HapusMediaBrandDataPerwakilanDokumen,
     HapusMediaBrandDataSertifikatFoto, HapusMediaBrandDataNIBFoto, HapusMediaBrandNPWPFoto,
     HapusMediaBrandDataLogo, HapusBrandDataSuratKerjasamaDokumen
<1>9. ASSUME TambahMediaTransaksiApprovedFoto(p) \/ TambahTransaksiApprovedVideo(p)
      PROVE  Minta(p)
  BY <1>9, SekaliBacaAwal DEF TambahMediaTransaksiApprovedFoto, TambahTransaksiApprovedVideo, Paling
<1> QED BY <1>1, <1>2, <1>3, <1>4, <1>5, <1>6, <1>7, <1>8, <1>9 DEF PermintaanSeller

LEMMA MintaKurir ==
    ASSUME Inv, NEW p \in Proses, PermintaanKurir(p)
    PROVE  Minta(p)
<1>1. ASSUME UbahKurirProfilFoto(p) \/ TambahMediaInformasiKendaraanKurirKendaraanFoto(p) \/
             TambahInformasiKendaraanKurirBPKBFoto(p) \/ TambahInformasiKendaraanKurirSTNKFoto(p) \/
             TambahMediaInformasiKurirKTPFoto(p)
      PROVE  Minta(p)
  BY <1>1, GantiBacaAwal DEF UbahKurirProfilFoto, TambahMediaInformasiKendaraanKurirKendaraanFoto,
     TambahInformasiKendaraanKurirBPKBFoto, TambahInformasiKendaraanKurirSTNKFoto,
     TambahMediaInformasiKurirKTPFoto, Paling, Bersih, Dokumen, Distributor, Brand
<1>2. ASSUME HapusKurirProfilFoto(p)
      PROVE  Minta(p)
  BY <1>2, HapusBacaAwal DEF HapusKurirProfilFoto, Bersih, Dokumen, Distributor, Brand
<1>3. ASSUME HapusMediaInformasiKendaraanKurirKendaraanFoto(p) \/
             HapusInformasiKendaraanKurirBPKBFoto(p) \/ HapusInformasiKendaraanKurirSTNKFoto(p) \/
             HapusMediaInformasiKurirKTPFoto(p)
      PROVE  Minta(p)
  BY <1>3, HapusBuangBacaAwal DEF HapusMediaInformasiKendaraanKurirKendaraanFoto,
     HapusInformasiKendaraanKurirBPKBFoto, HapusInformasiKendaraanKurirSTNKFoto,
     HapusMediaInformasiKurirKTPFoto
<1>4. ASSUME TambahMediaPengirimanPickedUpFoto(p) \/ TambahMediaPengirimanSampaiFoto(p) \/
             TambahMediaPengirimanEkspedisiPickedUpFoto(p) \/ TambahMediaPengirimanEkspedisiSampaiAgentFoto(p)
      PROVE  Minta(p)
  BY <1>4, SekaliBacaAwal DEF TambahMediaPengirimanPickedUpFoto, TambahMediaPengirimanSampaiFoto,
     TambahMediaPengirimanEkspedisiPickedUpFoto, TambahMediaPengirimanEkspedisiSampaiAgentFoto, Paling
<1> QED BY <1>1, <1>2, <1>3, <1>4 DEF PermintaanKurir

LEMMA MintaPengguna ==
    ASSUME Inv, NEW p \in Proses, PermintaanPengguna(p)
    PROVE  Minta(p)
<1>1. ASSUME UbahFotoProfilPengguna(p)
      PROVE  Minta(p)
  BY <1>1, GantiBacaAwal DEF UbahFotoProfilPengguna, Paling, Bersih, Dokumen, Distributor, Brand
<1>2. ASSUME HapusFotoProfilPengguna(p)
      PROVE  Minta(p)
  BY <1>2, HapusBacaAwal DEF HapusFotoProfilPengguna, Bersih, Dokumen, Distributor, Brand
<1>3. ASSUME TambahMediaReviewFoto(p) \/ TambahMediaReviewVideo(p)
      PROVE  Minta(p)
  BY <1>3, SekaliBacaAwal, MediaAssumption DEF TambahMediaReviewFoto, TambahMediaReviewVideo, Paling
<1> QED BY <1>1, <1>2, <1>3 DEF PermintaanPengguna

-----------------------------------------------------------------------------
(* Steps.                                                                   *)

\* A step leaves a row with its key, or gives it, or makes it with, a key of its own.
Perbarui ==
    /\ kunci' \in Nat /\ kunci <= kunci'
    /\ baris' \in Seq(TipeBaris(kunci')) /\ Len(baris) <= Len(baris')
    /\ \A i \in DOMAIN baris' :
          \/ /\ i \in DOMAIN baris
             /\ baris'[i].jenis = baris[i].jenis /\ baris'[i].kunci = baris[i].kunci
          \/ baris'[i].kunci > kunci

LEMMA PerbaruiTetap == Inv /\ UNCHANGED <<baris, kunci>> => Perbarui
<1> SUFFICES ASSUME Inv, UNCHANGED <<baris, kunci>> PROVE Perbarui
  OBVIOUS
<1>1. baris \in Seq(TipeBaris(kunci)) /\ kunci \in Nat /\ Len(baris) \in Nat
  BY BarisDomain DEF Inv, TypeInv
<1>2. baris' \in Seq(TipeBaris(kunci')) /\ kunci' \in Nat
  BY <1>1
<1> QED BY <1>1, <1>2 DEF Perbarui

\* Then what another request holds remains true.
LEMMA PegangTetap ==
    ASSUME Inv, Perbarui, NEW r \in TipeProses(Len(baris), kunci), Pegang(baris, r)
    PROVE  Pegang(baris', r)
<1> SUFFICES ASSUME NEW i \in DOMAIN baris', <<baris'[i].jenis, baris'[i].kunci>> \in r.lama
             PROVE  /\ r.tahap = "buangGanti" => r.id = i
                    /\ r.tahap = "buangHapus" => i \in r.pilih
                    /\ r.tahap = "buangTolak" => baris'[i].jenis \notin Dokumen
  BY DEF Pegang
<1>1. kunci \in Nat /\ kunci' \in Nat
  BY DEF Inv, TypeInv, Perbarui
<1>2. baris'[i] \in TipeBaris(kunci')
  BY DEF Perbarui
<1>3. r.lama \subseteq Jenis \X (1 .. kunci)
  BY DEF TipeProses
<1>4. baris'[i].kunci \in 1 .. kunci
  BY <1>3
<1>5. ~(baris'[i].kunci > kunci)
  BY <1>1, <1>4
<1>6. i \in DOMAIN baris /\ baris'[i].jenis = baris[i].jenis /\ baris'[i].kunci = baris[i].kunci
  BY <1>5 DEF Perbarui
<1> QED BY <1>6 DEF Pegang

\* One request moves on.
LEMMA ProsesMaju ==
    ASSUME Inv, Perbarui, NEW p \in Proses, NEW r \in TipeProses(Len(baris'), kunci'),
           Berpemilik(r), Pegang(baris', r), proses' = [proses EXCEPT ![p] = r]
    PROVE  /\ proses' \in [Proses -> TipeProses(Len(baris'), kunci')]
           /\ \A q \in Proses : Berpemilik(proses'[q]) /\ Pegang(baris', proses'[q])
<1>1. Len(baris') \in Nat /\ kunci' \in Nat
  BY DEF Perbarui
<1>2. /\ proses' \in [Proses -> TipeProses(Len(baris'), kunci')]
      /\ \A q \in Proses : Berpemilik(proses'[q])
  BY <1>1, ProsesBaru DEF Inv, Perbarui
<1>3. \A q \in Proses : proses[q] \in TipeProses(Len(baris), kunci) /\ Pegang(baris, proses[q])
  BY DEF Inv, TypeInv
<1>4. \A q \in Proses : Pegang(baris', proses[q])
  BY <1>3, PegangTetap
<1>5. \A q \in Proses : proses'[q] = IF q = p THEN r ELSE proses[q]
  BY DEF Inv, TypeInv
<1> QED BY <1>2, <1>4, <1>5

LEMMA ProsesLepas ==
    ASSUME Inv, Perbarui, NEW p \in Proses, Lepas(p)
    PROVE  /\ proses' \in [Proses -> TipeProses(Len(baris'), kunci')]
           /\ \A q \in Proses : Berpemilik(proses'[q]) /\ Pegang(baris', proses'[q])
<1>1. Len(baris') \in Nat /\ kunci' \in Nat
  BY DEF Perbarui
<1>2. Pegang(baris', ProsesBebas)
  BY DEF Pegang, ProsesBebas
<1> QED BY <1>1, <1>2, BebasTipe, ProsesMaju DEF Lepas

LEMMA ProsesDiam ==
    ASSUME Inv, Perbarui, UNCHANGED proses
    PROVE  /\ proses' \in [Proses -> TipeProses(Len(baris'), kunci')]
           /\ \A q \in Proses : Berpemilik(proses'[q]) /\ Pegang(baris', proses'[q])
<1>1. Len(baris) \in Nat /\ kunci \in Nat /\ Len(baris') \in Nat /\ kunci' \in Nat
      /\ Len(baris) <= Len(baris') /\ kunci <= kunci'
  BY BarisDomain DEF Inv, TypeInv, Perbarui
<1>2. TipeProses(Len(baris), kunci) \subseteq TipeProses(Len(baris'), kunci')
  BY <1>1, TipeTumbuh
<1>3. \A q \in Proses : /\ proses[q] \in TipeProses(Len(baris), kunci) /\ Pegang(baris, proses[q])
                        /\ Berpemilik(proses[q])
  BY DEF Inv, TypeInv
<1>4. \A q \in Proses : Pegang(baris', proses[q])
  BY <1>3, PegangTetap
<1>5. proses \in [Proses -> TipeProses(Len(baris'), kunci')]
  BY <1>2 DEF Inv, TypeInv
<1> QED BY <1>3, <1>4, <1>5

LEMMA MintaInv ==
    ASSUME Inv, NEW p \in Proses, Minta(p)
    PROVE  Inv' /\ UNCHANGED <<baris, dibuang>>
<1>1. PICK r \in TipeProses(Len(baris), kunci) : Awal(r) /\ Mulai(p, r)
  BY DEF Minta
<1>2. UNCHANGED <<baris, kunci, url, objek, dibuang, hitung, salinan, latar>>
      /\ proses' = [proses EXCEPT ![p] = r]
  BY <1>1 DEF Mulai
<1>3. Perbarui
  BY <1>2, PerbaruiTetap
<1>4. r \in TipeProses(Len(baris'), kunci') /\ Berpemilik(r) /\ Pegang(baris', r)
  BY <1>1, <1>2 DEF Awal
<1>5. /\ proses' \in [Proses -> TipeProses(Len(baris'), kunci')]
      /\ \A q \in Proses : Berpemilik(proses'[q]) /\ Pegang(baris', proses'[q])
  BY <1>2, <1>3, <1>4, ProsesMaju
<1> QED BY <1>2, <1>5 DEF Inv, TypeInv, KunciUnik

LEMMA BuangInv ==
    ASSUME Inv, NEW p \in Proses, Buang(p)
    PROVE  Inv' /\ UNCHANGED baris
<1>1. UNCHANGED <<baris, kunci, url, hitung, salinan, latar>>
      /\ objek' = objek \ proses[p].lama /\ dibuang' = dibuang \cup proses[p].lama
  BY DEF Buang
<1>2. Perbarui
  BY <1>1, PerbaruiTetap
<1>3. proses[p] \in TipeProses(Len(baris), kunci) /\ Berpemilik(proses[p]) /\ Pegang(baris, proses[p])
  BY DEF Inv, TypeInv
<1>4. dibuang' \subseteq Jenis \X (1 .. kunci)
  BY <1>1, <1>3 DEF Inv, TypeInv, TipeProses
<1>5. ASSUME NEW t \in {"ganti", "hapus"}, proses' = [proses EXCEPT ![p].tahap = t],
             t = "ganti" => proses[p].tahap = "buangGanti"
      PROVE  /\ proses' \in [Proses -> TipeProses(Len(baris'), kunci')]
             /\ \A q \in Proses : Berpemilik(proses'[q]) /\ Pegang(baris', proses'[q])
  <2> DEFINE r == [proses[p] EXCEPT !.tahap = t]
  <2>1. r \in TipeProses(Len(baris), kunci)
    BY <1>3 DEF TipeProses, Tahap
  <2>2. r.tahap = t /\ r.jenis = proses[p].jenis /\ r.pemilik = proses[p].pemilik
    BY <1>3 DEF TipeProses
  <2>3. Berpemilik(r) /\ Pegang(baris, r)
    BY <1>3, <1>5, <2>2 DEF Berpemilik, Pegang
  <2>4. proses' = [proses EXCEPT ![p] = r]
    BY <1>5
  <2> HIDE DEF r
  <2> QED BY <1>1, <1>2, <2>1, <2>3, <2>4, ProsesMaju
<1>6. /\ proses' \in [Proses -> TipeProses(Len(baris'), kunci')]
      /\ \A q \in Proses : Berpemilik(proses'[q]) /\ Pegang(baris', proses'[q])
  BY <1>2, <1>5, ProsesLepas DEF Buang
<1> QED BY <1>1, <1>4, <1>6 DEF Inv, TypeInv, KunciUnik

\* A step that writes a row and leaves a goroutine.
LEMMA TulisInv ==
    ASSUME Inv, Perbarui, KunciUnik', NEW p \in Proses, Lepas(p),
           NEW jenis \in {"buat", "ubah", "hapus"}, NEW S \in SUBSET (1 .. Len(baris')),
           Jalankan(jenis, S), url' \subseteq Jenis \X (1 .. kunci'),
           UNCHANGED <<objek, dibuang, hitung, salinan>>
    PROVE  Inv'
<1>1. Len(baris) \in Nat /\ kunci \in Nat /\ Len(baris') \in Nat /\ kunci' \in Nat
      /\ Len(baris) <= Len(baris') /\ kunci <= kunci'
  BY BarisDomain DEF Inv, TypeInv, Perbarui
<1>2. latar' \in Seq(TipeLatar(Len(baris')))
  BY <1>1, JalankanBaru DEF Inv
<1>3. /\ proses' \in [Proses -> TipeProses(Len(baris'), kunci')]
      /\ \A q \in Proses : Berpemilik(proses'[q]) /\ Pegang(baris', proses'[q])
  BY ProsesLepas
<1>4. /\ Jenis \X (1 .. kunci) \subseteq Jenis \X (1 .. kunci')
      /\ (1 .. Len(baris)) \X (1 .. kunci) \subseteq (1 .. Len(baris')) \X (1 .. kunci')
  BY <1>1, TipeTumbuh
<1>5. /\ url' \cup objek' \cup dibuang' \subseteq Jenis \X (1 .. kunci')
      /\ salinan' \subseteq (1 .. Len(baris')) \X (1 .. kunci')
      /\ hitung' \in [Jenis \X Pemilik -> Int]
  BY <1>4 DEF Inv, TypeInv
<1> QED BY <1>1, <1>2, <1>3, <1>5 DEF Inv, TypeInv, Perbarui

\* New rows have new keys.
LEMMA TambahPerbarui ==
    ASSUME Inv, NEW j \in Jenis, NEW o \in Pemilik, NEW n \in Nat, kunci' = kunci + n,
           baris' = baris \o BarisBaru(j, o, n)
    PROVE  /\ Perbarui /\ KunciUnik' /\ Tetap
           /\ Len(baris') = Len(baris) + n
           /\ \A i \in DOMAIN baris : baris'[i] = baris[i]
           /\ \A i \in (DOMAIN baris') \ (DOMAIN baris) : baris'[i].kunci > kunci
<1>1. Len(baris) \in Nat /\ kunci \in Nat /\ DOMAIN baris = 1 .. Len(baris)
      /\ kunci' \in Nat /\ kunci <= kunci' /\ kunci + n <= kunci'
  BY BarisDomain DEF Inv, TypeInv
<1>2. /\ baris' \in Seq(TipeBaris(kunci'))
      /\ Len(baris') = Len(baris) + n
      /\ DOMAIN baris' = 1 .. Len(baris) + n
      /\ \A i \in DOMAIN baris : baris'[i] = baris[i]
      /\ \A i \in (DOMAIN baris') \ (DOMAIN baris) :
            baris'[i] = [jenis |-> j, pemilik |-> o, kunci |-> kunci + (i - Len(baris)), ada |-> TRUE]
  <2> DEFINE k == kunci'
  <2>1. k \in Nat /\ kunci + n <= k
    BY <1>1
  <2> HIDE DEF k
  <2>2. /\ baris' \in Seq(TipeBaris(k))
        /\ Len(baris') = Len(baris) + n
        /\ DOMAIN baris' = 1 .. Len(baris) + n
        /\ \A i \in DOMAIN baris : baris'[i] = baris[i]
        /\ \A i \in (DOMAIN baris') \ (DOMAIN baris) :
              baris'[i] = [jenis |-> j, pemilik |-> o, kunci |-> kunci + (i - Len(baris)), ada |-> TRUE]
    BY <2>1, BarisTambah DEF Inv
  <2> QED BY <2>2 DEF k
<1>3. ASSUME NEW i \in (DOMAIN baris') \ (DOMAIN baris)
      PROVE  baris'[i].kunci = kunci + (i - Len(baris))
  <2>1. baris'[i] = [jenis |-> j, pemilik |-> o, kunci |-> kunci + (i - Len(baris)), ada |-> TRUE]
    BY <1>2, <1>3
  <2> QED BY <2>1
<1>4. \A i \in (DOMAIN baris') \ (DOMAIN baris) : baris'[i].kunci > kunci
  BY <1>1, <1>2, <1>3
<1>5. \A i \in DOMAIN baris : baris'[i].kunci = baris[i].kunci /\ baris[i].kunci \in 1 .. kunci
  BY <1>2, BarisTipe DEF TipeBaris
<1>6. Perbarui
  BY <1>1, <1>2, <1>4 DEF Perbarui
<1>7. KunciUnik'
  <2> SUFFICES ASSUME NEW i \in DOMAIN baris', NEW k \in DOMAIN baris',
                      baris'[i].kunci = baris'[k].kunci
               PROVE  i = k
    BY DEF KunciUnik
  <2>1. CASE i \in DOMAIN baris /\ k \in DOMAIN baris
    BY <2>1, <1>5 DEF Inv, KunciUnik
  <2>2. CASE i \notin DOMAIN baris /\ k \notin DOMAIN baris
    BY <2>2, <1>1, <1>2, <1>3
  <2>3. CASE i \in DOMAIN baris /\ k \notin DOMAIN baris
    BY <2>3, <1>1, <1>4, <1>5
  <2>4. CASE i \notin DOMAIN baris /\ k \in DOMAIN baris
    BY <2>4, <1>1, <1>4, <1>5
  <2> QED BY <2>1, <2>2, <2>3, <2>4
<1>8. Tetap
  BY <1>2 DEF Tetap
<1> QED BY <1>2, <1>4, <1>6, <1>7, <1>8

\* One row gets a new key.
LEMMA KunciBaru ==
    ASSUME Inv, NEW n \in DOMAIN baris, kunci' = kunci + 1,
           baris' = [baris EXCEPT ![n].kunci = kunci']
    PROVE  /\ Perbarui /\ KunciUnik' /\ Tetap /\ Len(baris') = Len(baris)
           /\ DOMAIN baris' = DOMAIN baris
           /\ \A i \in DOMAIN baris : i # n => baris'[i] = baris[i]
           /\ baris'[n].kunci > kunci
<1>1. Len(baris) \in Nat /\ kunci \in Nat /\ DOMAIN baris = 1 .. Len(baris)
      /\ kunci' \in Nat /\ kunci <= kunci' /\ baris \in Seq(TipeBaris(kunci))
  BY BarisDomain DEF Inv, TypeInv
<1>2. TipeBaris(kunci) \subseteq TipeBaris(kunci')
  BY <1>1, TipeTumbuh
<1> DEFINE b == [baris[n] EXCEPT !.kunci = kunci']
<1>3. baris[n] \in TipeBaris(kunci)
  BY BarisTipe
<1>4. b \in TipeBaris(kunci') /\ b.kunci = kunci' /\ b.ada = baris[n].ada /\ b.jenis = baris[n].jenis
  <2>1. kunci' \in 1 .. kunci' /\ baris[n] \in TipeBaris(kunci')
    BY <1>1, <1>2, <1>3
  <2> QED BY <2>1 DEF TipeBaris
<1>5. baris' = [baris EXCEPT ![n] = b]
  OBVIOUS
<1> HIDE DEF b
<1>6. baris' \in Seq(TipeBaris(kunci')) /\ Len(baris') = Len(baris)
  <2>1. baris \in Seq(TipeBaris(kunci'))
    BY <1>1, <1>2, SeqTumbuh
  <2> QED BY <1>4, <1>5, <2>1, <1>1, ExceptSeq
<1>7. DOMAIN baris' = DOMAIN baris /\ \A i \in DOMAIN baris : baris'[i] = IF i = n THEN b ELSE baris[i]
  BY <1>5
<1>8. baris'[n].kunci > kunci
  BY <1>1, <1>4, <1>7
<1>9. Perbarui
  BY <1>1, <1>6, <1>7, <1>8 DEF Perbarui
<1>10. KunciUnik'
  <2>1. \A i \in DOMAIN baris : baris[i].kunci \in 1 .. kunci
    BY BarisTipe DEF TipeBaris
  <2> QED BY <1>1, <1>4, <1>7, <2>1 DEF Inv, KunciUnik
<1>11. Tetap
  BY <1>4, <1>7 DEF Tetap
<1> QED BY <1>6, <1>7, <1>8, <1>9, <1>10, <1>11

LEMMA GantiTulisInv ==
    ASSUME Inv, NEW p \in Proses, GantiTulis(p)
    PROVE  /\ Inv' /\ Tetap /\ UNCHANGED dibuang
           /\ DOMAIN baris \subseteq DOMAIN baris'
           /\ \A i \in DOMAIN baris' :
                 \/ i \in DOMAIN baris /\ baris'[i] = baris[i] /\ (baris[i].ada => i # proses[p].id)
                 \/ baris'[i].kunci > kunci
<1> DEFINE r == proses[p]
<1>1. /\ r.tahap = "ganti" /\ kunci' = kunci + 1 /\ url' = url \cup {<<r.jenis, kunci'>>}
      /\ Lepas(p) /\ UNCHANGED <<objek, dibuang, hitung, salinan>>
  BY DEF GantiTulis
<1>2. r.jenis \in Jenis /\ r.pemilik \in Pemilik /\ r.id \in 0 .. Len(baris)
  BY <1>1 DEF Inv, TypeInv, Berpemilik, TipeProses
<1>3. kunci \in Nat /\ kunci' \in Nat /\ Len(baris) \in Nat /\ DOMAIN baris = 1 .. Len(baris)
  BY <1>1, BarisDomain DEF Inv, TypeInv
<1>4. url' \subseteq Jenis \X (1 .. kunci')
  <2>1. Jenis \X (1 .. kunci) \subseteq Jenis \X (1 .. kunci')
    BY <1>1, <1>3, TipeTumbuh
  <2>2. url \subseteq Jenis \X (1 .. kunci)
    BY DEF Inv, TypeInv
  <2> QED BY <1>1, <1>2, <1>3, <2>1, <2>2
<1>5. CASE /\ r.id = 0 /\ baris' = baris \o BarisBaru(r.jenis, r.pemilik, 1)
           /\ Jalankan("buat", {Len(baris')})
  <2>1. /\ Perbarui /\ KunciUnik' /\ Tetap /\ Len(baris') = Len(baris) + 1
        /\ \A i \in DOMAIN baris : baris'[i] = baris[i]
        /\ \A i \in (DOMAIN baris') \ (DOMAIN baris) : baris'[i].kunci > kunci
    BY <1>1, <1>2, <1>5, TambahPerbarui
  <2>2. {Len(baris')} \in SUBSET (1 .. Len(baris'))
    BY <1>3, <2>1
  <2>3. Inv'
    BY <1>1, <1>4, <1>5, <2>1, <2>2, TulisInv
  <2>4. DOMAIN baris' = 1 .. Len(baris')
    BY <2>1 DEF Perbarui
  <2> QED BY <1>1, <1>3, <1>5, <2>1, <2>3, <2>4
<1>6. CASE /\ r.id # 0 /\ BarisAda(r.id) /\ baris' = [baris EXCEPT ![r.id].kunci = kunci']
           /\ Jalankan("ubah", {r.id})
  <2>1. r.id \in DOMAIN baris
    BY <1>6 DEF BarisAda
  <2>2. /\ Perbarui /\ KunciUnik' /\ Tetap /\ Len(baris') = Len(baris) /\ DOMAIN baris' = DOMAIN baris
        /\ \A i \in DOMAIN baris : i # r.id => baris'[i] = baris[i]
        /\ baris'[r.id].kunci > kunci
    BY <1>1, <1>6, <2>1, KunciBaru
  <2>3. {r.id} \in SUBSET (1 .. Len(baris'))
    BY <1>3, <2>1, <2>2
  <2>4. Inv'
    BY <1>1, <1>4, <1>6, <2>2, <2>3, TulisInv
  <2> QED BY <1>1, <2>2, <2>4
<1>7. CASE r.id # 0 /\ ~BarisAda(r.id) /\ UNCHANGED baris /\ Jalankan("ubah", {r.id})
  <2>1. baris' \in Seq(TipeBaris(kunci')) /\ Len(baris') = Len(baris)
    BY <1>1, <1>3, <1>7, TipeTumbuh, SeqTumbuh DEF Inv, TypeInv
  <2>2. Perbarui
    BY <1>1, <1>3, <1>7, <2>1 DEF Perbarui
  <2>3. KunciUnik' /\ Tetap
    BY <1>7 DEF Inv, KunciUnik, Tetap
  <2>4. {r.id} \in SUBSET (1 .. Len(baris'))
    BY <1>2, <1>3, <1>7, <2>1
  <2>5. Inv'
    BY <1>1, <1>4, <1>7, <2>2, <2>3, <2>4, TulisInv
  <2> QED BY <1>1, <1>7, <2>3, <2>5 DEF BarisAda
<1> QED BY <1>5, <1>6, <1>7 DEF GantiTulis

LEMMA TambahTulisInv ==
    ASSUME Inv, NEW p \in Proses, TambahTulis(p)
    PROVE  /\ Inv' /\ Tetap /\ UNCHANGED dibuang
           /\ DOMAIN baris \subseteq DOMAIN baris'
           /\ \A i \in DOMAIN baris' : \/ i \in DOMAIN baris /\ baris'[i] = baris[i]
                                       \/ baris'[i].kunci > kunci
<1> DEFINE r == proses[p]
<1>1. /\ r.tahap = "tambah" /\ kunci' = kunci + r.jumlah
      /\ url' = url \cup {r.jenis} \X (kunci + 1 .. kunci')
      /\ baris' = baris \o BarisBaru(r.jenis, r.pemilik, r.jumlah)
      /\ Jalankan("buat", Len(baris) + 1 .. Len(baris'))
      /\ Lepas(p) /\ UNCHANGED <<objek, dibuang, hitung, salinan>>
  BY DEF TambahTulis
<1>2. r.jenis \in Jenis /\ r.pemilik \in Pemilik /\ r.jumlah \in Nat
  BY <1>1 DEF Inv, TypeInv, Berpemilik, TipeProses
<1>3. kunci \in Nat /\ kunci' \in Nat /\ kunci <= kunci' /\ Len(baris) \in Nat
      /\ DOMAIN baris = 1 .. Len(baris)
  BY <1>1, <1>2, BarisDomain DEF Inv, TypeInv
<1>4. url' \subseteq Jenis \X (1 .. kunci')
  <2>1. Jenis \X (1 .. kunci) \subseteq Jenis \X (1 .. kunci')
    BY <1>3, TipeTumbuh
  <2>2. url \subseteq Jenis \X (1 .. kunci)
    BY DEF Inv, TypeInv
  <2>3. kunci + 1 .. kunci' \subseteq 1 .. kunci'
    BY <1>3
  <2>4. {r.jenis} \X (kunci + 1 .. kunci') \subseteq Jenis \X (1 .. kunci')
    BY <1>2, <2>3
  <2> HIDE DEF r
  <2> QED BY <1>1, <2>1, <2>2, <2>4
<1>5. /\ Perbarui /\ KunciUnik' /\ Tetap /\ Len(baris') = Len(baris) + r.jumlah
      /\ \A i \in DOMAIN baris : baris'[i] = baris[i]
      /\ \A i \in (DOMAIN baris') \ (DOMAIN baris) : baris'[i].kunci > kunci
  BY <1>1, <1>2, TambahPerbarui
<1>6. Len(baris) + 1 .. Len(baris') \in SUBSET (1 .. Len(baris'))
  BY <1>2, <1>3, <1>5
<1>7. Inv'
  BY <1>1, <1>4, <1>5, <1>6, TulisInv
<1>8. DOMAIN baris' = 1 .. Len(baris')
  BY <1>5 DEF Perbarui
<1> QED BY <1>1, <1>2, <1>3, <1>5, <1>7, <1>8

LEMMA HapusTulisInv ==
    ASSUME Inv, NEW p \in Proses, HapusTulis(p)
    PROVE  /\ Inv' /\ Tetap /\ UNCHANGED dibuang
           /\ DOMAIN baris' = DOMAIN baris
           /\ \A i \in DOMAIN baris : /\ i \in proses[p].pilih => ~baris'[i].ada
                                      /\ i \notin proses[p].pilih => baris'[i] = baris[i]
                                      /\ baris'[i].jenis = baris[i].jenis
                                      /\ baris'[i].kunci = baris[i].kunci
<1> DEFINE S == proses[p].pilih
<1>1. /\ baris' = [i \in DOMAIN baris |-> IF i \in S THEN [baris[i] EXCEPT !.ada = FALSE] ELSE baris[i]]
      /\ Jalankan("hapus", S) /\ Lepas(p) /\ UNCHANGED <<kunci, url, objek, dibuang, hitung, salinan>>
  BY DEF HapusTulis
<1>2. S \in SUBSET (1 .. Len(baris))
  BY DEF Inv, TypeInv, TipeProses
<1> HIDE DEF S
<1>3. kunci \in Nat /\ Len(baris) \in Nat /\ DOMAIN baris = 1 .. Len(baris)
  BY BarisDomain DEF Inv, TypeInv
<1>4. ASSUME NEW i \in DOMAIN baris
      PROVE  /\ baris'[i] \in TipeBaris(kunci)
             /\ baris'[i].jenis = baris[i].jenis /\ baris'[i].kunci = baris[i].kunci
             /\ i \in S => ~baris'[i].ada
             /\ i \notin S => baris'[i] = baris[i]
  <2>1. baris[i] \in TipeBaris(kunci)
    BY BarisTipe
  <2>2. baris'[i] = IF i \in S THEN [baris[i] EXCEPT !.ada = FALSE] ELSE baris[i]
    BY <1>1
  <2> QED BY <2>1, <2>2 DEF TipeBaris
<1>5. DOMAIN baris' = DOMAIN baris
  BY <1>1
<1>6. baris' \in Seq(TipeBaris(kunci)) /\ Len(baris') = Len(baris)
  <2>1. baris' = [i \in 1 .. Len(baris) |-> baris'[i]]
    BY <1>1, <1>3
  <2>2. \A i \in 1 .. Len(baris) : baris'[i] \in TipeBaris(kunci)
    BY <1>3, <1>4
  <2> QED BY <1>3, <2>1, <2>2
<1>7. Perbarui
  BY <1>1, <1>3, <1>4, <1>5, <1>6 DEF Perbarui
<1>8. KunciUnik' /\ Tetap
  BY <1>4, <1>5 DEF Inv, KunciUnik, Tetap
<1>9. url' \subseteq Jenis \X (1 .. kunci')
  BY <1>1 DEF Inv, TypeInv
<1>10. Inv'
  BY <1>1, <1>2, <1>6, <1>7, <1>8, <1>9, TulisInv
<1> QED BY <1>1, <1>4, <1>5, <1>8, <1>10 DEF S

LEMMA PutusInv ==
    ASSUME Inv, NEW p \in Proses, Putus(p)
    PROVE  Inv' /\ UNCHANGED baris
<1>1. UNCHANGED <<baris, kunci, url, objek, dibuang, hitung, salinan, latar>> /\ Lepas(p)
  BY DEF Putus
<1>2. Perbarui
  BY <1>1, PerbaruiTetap
<1>3. /\ proses' \in [Proses -> TipeProses(Len(baris'), kunci')]
      /\ \A q \in Proses : Berpemilik(proses'[q]) /\ Pegang(baris', proses'[q])
  BY <1>1, <1>2, ProsesLepas
<1> QED BY <1>1, <1>3 DEF Inv, TypeInv, KunciUnik

-----------------------------------------------------------------------------
(* Goroutines and uploads.                                                  *)

\* The counters are numbers, whatever rows are counted.
LEMMA HitunganTipe ==
    ASSUME Inv, NEW S, S \subseteq 1 .. Len(baris), NEW n \in Int
    PROVE  Hitungan(S, n) \in [Jenis \X Pemilik -> Int]
<1>1. IsFiniteSet(S)
  <2>1. IsFiniteSet(1 .. Len(baris))
    BY BarisDomain, FS_Interval DEF Inv
  <2> QED BY <2>1, FS_Subset
<1>2. DOMAIN hitung = Jenis \X Pemilik /\ hitung \in [Jenis \X Pemilik -> Int]
  BY DEF Inv, TypeInv
<1>3. ASSUME NEW jo \in Jenis \X Pemilik
      PROVE  hitung[jo] + n * Cardinality({i \in S : <<baris[i].jenis, baris[i].pemilik>> = jo}) \in Int
  <2> DEFINE T == {i \in S : <<baris[i].jenis, baris[i].pemilik>> = jo}
             c == Cardinality(T)
  <2>1. c \in Nat
    BY <1>1, FS_Subset, FS_CardinalityType
  <2>2. hitung[jo] \in Int
    BY <1>2
  <2> HIDE DEF c
  <2>3. hitung[jo] + n * c \in Int
    BY <2>1, <2>2
  <2> QED BY <2>3 DEF c
<1> QED BY <1>2, <1>3 DEF Hitungan

\* The rows a goroutine is about.
LEMMA LatarTipe ==
    ASSUME Inv, NEW i \in DOMAIN latar
    PROVE  latar[i].baris \subseteq 1 .. Len(baris)
<1>1. latar[i] \in TipeLatar(Len(baris))
  BY DEF Inv, TypeInv
<1> QED BY <1>1 DEF TipeLatar

\* What the events tell of rows that were made.
LEMMA SalinanTipe ==
    ASSUME Inv, NEW S, S \subseteq 1 .. Len(baris), NEW T
    PROVE  {s \in salinan : s[1] \notin T} \cup {<<b, baris[b].kunci>> : b \in S}
               \subseteq (1 .. Len(baris)) \X (1 .. kunci)
<1>1. \A b \in S : baris[b].kunci \in 1 .. kunci
  BY BarisDomain, BarisTipe DEF Inv, TipeBaris
<1> QED BY <1>1 DEF Inv, TypeInv

LEMMA LatarInv ==
    ASSUME Inv, NEW i \in DOMAIN latar, latar' = Sisa(i),
           hitung' \in [Jenis \X Pemilik -> Int],
           salinan' \subseteq (1 .. Len(baris)) \X (1 .. kunci),
           UNCHANGED <<baris, kunci, url, objek, dibuang, proses>>
    PROVE  Inv'
<1>1. latar' \in Seq(TipeLatar(Len(baris)))
  BY SisaTipe DEF Inv
<1>2. Perbarui
  BY PerbaruiTetap
<1>3. /\ proses' \in [Proses -> TipeProses(Len(baris'), kunci')]
      /\ \A q \in Proses : Berpemilik(proses'[q]) /\ Pegang(baris', proses'[q])
  BY <1>2, ProsesDiam
<1> QED BY <1>1, <1>3 DEF Inv, TypeInv, KunciUnik

LEMMA LatarBuatInv ==
    ASSUME Inv, NEW i \in DOMAIN latar, LatarBuat(i)
    PROVE  Inv' /\ UNCHANGED <<baris, dibuang, proses>>
<1> DEFINE S == latar[i].baris
<1>1. /\ latar' = Sisa(i) /\ hitung' = Hitungan(S, 1)
      /\ salinan' = {s \in salinan : s[1] \notin S} \cup {<<b, baris[b].kunci>> : b \in S}
      /\ UNCHANGED <<baris, kunci, url, objek, dibuang, proses>>
  BY DEF LatarBuat, Ambil
<1>2. S \subseteq 1 .. Len(baris)
  BY LatarTipe
<1> HIDE DEF S
<1>3. hitung' \in [Jenis \X Pemilik -> Int]
  <2>1. 1 \in Int
    OBVIOUS
  <2>2. Hitungan(S, 1) \in [Jenis \X Pemilik -> Int]
    BY <1>2, <2>1, HitunganTipe
  <2> QED BY <1>1, <2>2
<1>4. salinan' \subseteq (1 .. Len(baris)) \X (1 .. kunci)
  BY <1>1, <1>2, SalinanTipe
<1> QED BY <1>1, <1>3, <1>4, LatarInv

LEMMA UbahInv ==
    ASSUME Inv, NEW i \in DOMAIN latar, Ubah(i)
    PROVE  Inv' /\ UNCHANGED <<baris, dibuang, proses>>
<1>1. ASSUME NEW S, S \subseteq 1 .. Len(baris), LatarUbah(i, S)
      PROVE  Inv' /\ UNCHANGED <<baris, dibuang, proses>>
  <2>1. latar' = Sisa(i) /\ UNCHANGED <<baris, kunci, url, objek, dibuang, hitung, proses>>
    BY <1>1 DEF LatarUbah, Ambil
  <2>2. salinan' \subseteq (1 .. Len(baris)) \X (1 .. kunci)
    BY <1>1, SalinanTipe DEF LatarUbah
  <2>3. hitung' \in [Jenis \X Pemilik -> Int]
    BY <2>1 DEF Inv, TypeInv
  <2> QED BY <2>1, <2>2, <2>3, LatarInv
<1>2. {b \in latar[i].baris : baris[b].ada} \subseteq 1 .. Len(baris)
  BY LatarTipe
<1>3. \A b \in UNION {BarisMilik("etalase", o) : o \in latar[i].baris} : {b} \subseteq 1 .. Len(baris)
  BY BarisDomain DEF BarisMilik, Inv
<1>4. {} \subseteq 1 .. Len(baris)
  OBVIOUS
<1> QED BY <1>1, <1>2, <1>3, <1>4 DEF Ubah

LEMMA HapusInv ==
    ASSUME Inv, NEW i \in DOMAIN latar, Hapus(i)
    PROVE  Inv' /\ UNCHANGED <<baris, dibuang, proses>>
<1>1. salinan' \subseteq salinan
  BY DEF Hapus, LatarHapus
<1>2. salinan' \subseteq (1 .. Len(baris)) \X (1 .. kunci)
  BY <1>1 DEF Inv, TypeInv
<1>3. /\ latar' = Sisa(i) /\ hitung' = Hitungan(latar[i].baris, -1)
      /\ UNCHANGED <<baris, kunci, url, objek, dibuang, proses>>
  BY DEF Hapus, LatarHapus, Ambil
<1>4. hitung' \in [Jenis \X Pemilik -> Int]
  <2>1. -1 \in Int
    OBVIOUS
  <2> QED BY <1>3, <2>1, LatarTipe, HitunganTipe
<1> QED BY <1>2, <1>3, <1>4, LatarInv

LEMMA LatarGagalInv ==
    ASSUME Inv, NEW i \in DOMAIN latar, LatarGagal(i)
    PROVE  Inv' /\ UNCHANGED <<baris, dibuang, proses>>
<1>1. /\ latar' = Sisa(i)
      /\ UNCHANGED <<baris, kunci, url, objek, dibuang, hitung, salinan, proses>>
  BY DEF LatarGagal
<1>2. /\ hitung' \in [Jenis \X Pemilik -> Int]
      /\ salinan' \subseteq (1 .. Len(baris)) \X (1 .. kunci)
  BY <1>1 DEF Inv, TypeInv
<1> QED BY <1>1, <1>2, LatarInv

LEMMA KlienInv ==
    ASSUME Inv, Klien
    PROVE  Inv' /\ UNCHANGED <<baris, dibuang, proses>>
<1>1. PICK k \in url : Unggah(k) \/ Kedaluwarsa(k)
  BY DEF Klien
<1>2. UNCHANGED <<baris, kunci, dibuang, hitung, salinan, latar, proses>>
      /\ url' \subseteq url /\ objek' \subseteq objek \cup {k}
  BY <1>1 DEF Unggah, Kedaluwarsa
<1>3. Perbarui
  BY <1>2, PerbaruiTetap
<1>4. /\ proses' \in [Proses -> TipeProses(Len(baris'), kunci')]
      /\ \A q \in Proses : Berpemilik(proses'[q]) /\ Pegang(baris', proses'[q])
  BY <1>2, <1>3, ProsesDiam
<1>5. url' \cup objek' \cup dibuang' \subseteq Jenis \X (1 .. kunci)
  BY <1>2 DEF Inv, TypeInv
<1> QED BY <1>2, <1>4, <1>5 DEF Inv, TypeInv, KunciUnik

LEMMA DiamInv ==
    ASSUME Inv, UNCHANGED vars
    PROVE  Inv' /\ UNCHANGED <<baris, dibuang, proses>>
<1>1. Perbarui
  BY PerbaruiTetap DEF vars
<1>2. /\ proses' \in [Proses -> TipeProses(Len(baris'), kunci')]
      /\ \A q \in Proses : Berpemilik(proses'[q]) /\ Pegang(baris', proses'[q])
  BY <1>1, ProsesDiam DEF vars
<1> QED BY <1>2 DEF Inv, TypeInv, KunciUnik, vars

-----------------------------------------------------------------------------
(* The theorems.                                                            *)

LEMMA InvAwal == Init => Inv
<1> SUFFICES ASSUME Init PROVE Inv
  OBVIOUS
<1>1. /\ baris = << >> /\ latar = << >> /\ kunci = 0
      /\ url = {} /\ objek = {} /\ dibuang = {} /\ salinan = {}
      /\ hitung = [jo \in Jenis \X Pemilik |-> 0]
      /\ proses = [p \in Proses |-> ProsesBebas]
  BY DEF Init
<1>2. Len(baris) = 0 /\ DOMAIN baris = {} /\ baris \in Seq(TipeBaris(kunci))
      /\ latar \in Seq(TipeLatar(Len(baris)))
  BY <1>1
<1>3. hitung \in [Jenis \X Pemilik -> Int]
  BY <1>1
<1>4. \A p \in Proses : proses[p] = ProsesBebas
  BY <1>1
<1>5. proses \in [Proses -> TipeProses(Len(baris), kunci)] /\ \A p \in Proses : Berpemilik(proses[p])
  BY <1>1, <1>2, <1>4, BebasTipe
<1>6. \A p \in Proses : Pegang(baris, proses[p])
  BY <1>2 DEF Pegang
<1>7. KunciUnik
  BY <1>2 DEF KunciUnik
<1> QED BY <1>1, <1>2, <1>3, <1>5, <1>6, <1>7 DEF Inv, TypeInv

LEMMA TetapDiam == UNCHANGED baris => Tetap
BY DEF Tetap

\* A step preserves the invariant and brings no deleted row back.
LEMMA InvLangkah ==
    ASSUME Inv, [Next]_vars
    PROVE  Inv' /\ Tetap
<1>1. ASSUME NEW p \in Proses, PermintaanSeller(p) \/ PermintaanKurir(p) \/ PermintaanPengguna(p)
      PROVE  Inv' /\ Tetap
  BY <1>1, MintaSeller, MintaKurir, MintaPengguna, MintaInv, TetapDiam
<1>2. ASSUME NEW p \in Proses, Langkah(p)
      PROVE  Inv' /\ Tetap
  <2>1. CASE Buang(p)
    BY <2>1, BuangInv, TetapDiam
  <2>2. CASE GantiTulis(p)
    BY <2>2, GantiTulisInv
  <2>3. CASE TambahTulis(p)
    BY <2>3, TambahTulisInv
  <2>4. CASE HapusTulis(p)
    BY <2>4, HapusTulisInv
  <2>5. CASE Putus(p)
    BY <2>5, PutusInv, TetapDiam
  <2> QED BY <1>2, <2>1, <2>2, <2>3, <2>4, <2>5 DEF Langkah
<1>3. ASSUME NEW i \in DOMAIN latar, LatarBuat(i) \/ Ubah(i) \/ Hapus(i) \/ LatarGagal(i)
      PROVE  Inv' /\ Tetap
  BY <1>3, LatarBuatInv, UbahInv, HapusInv, LatarGagalInv, TetapDiam
<1>4. CASE Klien
  BY <1>4, KlienInv, TetapDiam
<1>5. CASE UNCHANGED vars
  BY <1>5, DiamInv, TetapDiam
<1> QED BY <1>1, <1>2, <1>3, <1>4, <1>5 DEF Next

LEMMA InvSelalu == Spec => []Inv
<1>1. Inv /\ [Next]_vars => Inv'
  BY InvLangkah
<1> QED BY InvAwal, <1>1, PTL DEF Spec

\* Type correctness: rows, counters, upload addresses and requests stay within their types,
\* and nothing in the 29 tables names an id or a key that was never given out.
THEOREM TypeBenar == Spec => []TypeOK
<1>1. Inv => TypeOK
  BY InvTipe DEF Inv
<1> QED BY <1>1, InvSelalu, PTL

\* A deleted row never comes back, whatever requests run beside its deletion.
THEOREM TerhapusBenar == Spec => TetapTerhapus
<1>1. Inv /\ [Next]_vars => [\A i \in DOMAIN baris : ~baris[i].ada => ~baris'[i].ada]_vars
  BY InvLangkah DEF Tetap
<1> QED BY <1>1, InvSelalu, PTL DEF Spec, TetapTerhapus

-----------------------------------------------------------------------------
(* Documents and their files, when no step fails.                           *)

\* A request that is about to give row i a new key or to delete it.
Pemegang(r, i) ==
    \/ r.tahap = "ganti" /\ r.id = i
    \/ r.tahap = "hapus" /\ i \in r.pilih

\* Row i of the table b names a file among those removed.
TanpaBerkas(b, buang, i) ==
    i \in DOMAIN b /\ b[i].ada /\ b[i].jenis \in Dokumen /\ <<b[i].jenis, b[i].kunci>> \in buang

LEMMA ArtiMenggantung ==
    TidakMenggantungDokumen <=>
        \A i \in DOMAIN baris : TanpaBerkas(baris, dibuang, i) =>
                                    \E p \in Proses : Pemegang(proses[p], i)
BY DEF TidakMenggantungDokumen, TidakMenggantung, TanpaBerkas, Pemegang, Berkas

LEMMA ArtiMenggantungNanti ==
    ASSUME \A i \in DOMAIN baris' : TanpaBerkas(baris', dibuang', i) =>
                                        \E p \in Proses : Pemegang(proses'[p], i)
    PROVE  TidakMenggantungDokumen'
BY DEF TidakMenggantungDokumen, TidakMenggantung, TanpaBerkas, Pemegang, Berkas

\* A step of a request that holds no row, in which no file is removed and every row keeps
\* its key or gets a new one.
LEMMA PelakuLain ==
    ASSUME Inv, TidakMenggantungDokumen, NEW p \in Proses, UNCHANGED dibuang,
           \A q \in Proses : q # p => proses'[q] = proses[q],
           \A i \in DOMAIN baris' :
               \/ i \in DOMAIN baris /\ (baris'[i].ada => baris'[i] = baris[i] /\ ~Pemegang(proses[p], i))
               \/ baris'[i].kunci > kunci
    PROVE  TidakMenggantungDokumen'
<1> SUFFICES ASSUME NEW i \in DOMAIN baris', TanpaBerkas(baris', dibuang', i)
             PROVE  \E q \in Proses : Pemegang(proses'[q], i)
  BY ArtiMenggantungNanti
<1>1. kunci \in Nat /\ dibuang \subseteq Jenis \X (1 .. kunci)
  BY DEF Inv, TypeInv
<1>2. baris'[i].kunci \in 1 .. kunci
  BY <1>1 DEF TanpaBerkas
<1>3. ~(baris'[i].kunci > kunci)
  BY <1>1, <1>2
<1>4. i \in DOMAIN baris /\ baris'[i] = baris[i] /\ ~Pemegang(proses[p], i)
  BY <1>3 DEF TanpaBerkas
<1>5. TanpaBerkas(baris, dibuang, i)
  BY <1>4 DEF TanpaBerkas
<1>6. PICK q \in Proses : Pemegang(proses[q], i)
  BY <1>4, <1>5, ArtiMenggantung
<1> QED BY <1>4, <1>6

LEMMA PelakuDiam ==
    ASSUME TidakMenggantungDokumen, UNCHANGED <<baris, dibuang, proses>>
    PROVE  TidakMenggantungDokumen'
BY DEF TidakMenggantungDokumen, TidakMenggantung, Berkas

\* What Lepas leaves to the others.
LEMMA LepasLain ==
    ASSUME Inv, NEW p \in Proses, Lepas(p)
    PROVE  \A q \in Proses : q # p => proses'[q] = proses[q]
BY DEF Lepas, Inv, TypeInv

LEMMA MintaPegang ==
    ASSUME Inv, TidakMenggantungDokumen, NEW p \in Proses, Minta(p)
    PROVE  TidakMenggantungDokumen'
<1>1. PICK r \in TipeProses(Len(baris), kunci) : Mulai(p, r)
  BY DEF Minta
<1>2. /\ UNCHANGED <<baris, dibuang>> /\ proses[p].tahap = "bebas"
      /\ proses' = [proses EXCEPT ![p] = r]
  BY <1>1 DEF Mulai
<1>3. \A i \in DOMAIN baris : ~Pemegang(proses[p], i)
  BY <1>2 DEF Pemegang
<1>4. \A q \in Proses : q # p => proses'[q] = proses[q]
  BY <1>2 DEF Inv, TypeInv
<1> QED BY <1>2, <1>3, <1>4, PelakuLain

\* The request that removes the file of a document row is the one that holds the row.
LEMMA BuangPegang ==
    ASSUME Inv, TidakMenggantungDokumen, NEW p \in Proses, Buang(p)
    PROVE  TidakMenggantungDokumen'
<1>1. /\ proses[p].tahap \in {"buangGanti", "buangHapus", "buangTolak"}
      /\ baris' = baris /\ dibuang' = dibuang \cup proses[p].lama
  BY DEF Buang
<1>2. Pegang(baris, proses[p]) /\ proses[p] \in TipeProses(Len(baris), kunci)
  BY DEF Inv, TypeInv
<1>3. \A q \in Proses : q # p => proses'[q] = proses[q]
  BY DEF Buang, Lepas, Inv, TypeInv
<1>4. /\ proses[p].tahap = "buangGanti" => proses' = [proses EXCEPT ![p].tahap = "ganti"]
      /\ proses[p].tahap = "buangHapus" => proses' = [proses EXCEPT ![p].tahap = "hapus"]
  BY <1>1 DEF Buang
<1>5. /\ proses[p].tahap = "buangGanti" => proses'[p].tahap = "ganti" /\ proses'[p].id = proses[p].id
      /\ proses[p].tahap = "buangHapus" => proses'[p].tahap = "hapus" /\ proses'[p].pilih = proses[p].pilih
  BY <1>2, <1>4 DEF Inv, TypeInv, TipeProses
<1> SUFFICES ASSUME NEW i \in DOMAIN baris', TanpaBerkas(baris', dibuang', i)
             PROVE  \E q \in Proses : Pemegang(proses'[q], i)
  BY ArtiMenggantungNanti
<1>6. CASE <<baris[i].jenis, baris[i].kunci>> \in proses[p].lama
  <2>1. /\ proses[p].tahap = "buangGanti" => proses[p].id = i
        /\ proses[p].tahap = "buangHapus" => i \in proses[p].pilih
        /\ proses[p].tahap # "buangTolak"
    BY <1>1, <1>2, <1>6 DEF Pegang, TanpaBerkas
  <2>2. Pemegang(proses'[p], i)
    BY <1>1, <1>5, <2>1 DEF Pemegang
  <2> QED BY <2>2
<1>7. CASE <<baris[i].jenis, baris[i].kunci>> \notin proses[p].lama
  <2>1. TanpaBerkas(baris, dibuang, i)
    BY <1>1, <1>7 DEF TanpaBerkas
  <2>2. PICK q \in Proses : Pemegang(proses[q], i)
    BY <1>1, <2>1, ArtiMenggantung
  <2>3. q # p
    BY <1>1, <2>2 DEF Pemegang
  <2> QED BY <1>3, <2>2, <2>3
<1> QED BY <1>6, <1>7

LEMMA TulisPegang ==
    ASSUME Inv, TidakMenggantungDokumen, NEW p \in Proses,
           GantiTulis(p) \/ TambahTulis(p) \/ HapusTulis(p)
    PROVE  TidakMenggantungDokumen'
<1>1. \A q \in Proses : q # p => proses'[q] = proses[q]
  BY LepasLain DEF GantiTulis, TambahTulis, HapusTulis
<1>2. CASE GantiTulis(p)
  <2>1. proses[p].tahap = "ganti"
    BY <1>2 DEF GantiTulis
  <2>2. \A i \in DOMAIN baris' :
            \/ i \in DOMAIN baris /\ baris'[i] = baris[i] /\ (baris[i].ada => i # proses[p].id)
            \/ baris'[i].kunci > kunci
    BY <1>2, GantiTulisInv
  <2>3. \A i : i # proses[p].id => ~Pemegang(proses[p], i)
    BY <2>1 DEF Pemegang
  <2>4. UNCHANGED dibuang
    BY <1>2, GantiTulisInv
  <2> QED BY <1>1, <2>2, <2>3, <2>4, PelakuLain
<1>3. CASE TambahTulis(p)
  <2>1. \A i : ~Pemegang(proses[p], i)
    BY <1>3 DEF TambahTulis, Pemegang
  <2>2. /\ UNCHANGED dibuang
        /\ \A i \in DOMAIN baris' : \/ i \in DOMAIN baris /\ baris'[i] = baris[i]
                                    \/ baris'[i].kunci > kunci
    BY <1>3, TambahTulisInv
  <2> QED BY <1>1, <2>1, <2>2, PelakuLain
<1>4. CASE HapusTulis(p)
  <2>1. proses[p].tahap = "hapus"
    BY <1>4 DEF HapusTulis
  <2>2. \A i : i \notin proses[p].pilih => ~Pemegang(proses[p], i)
    BY <2>1 DEF Pemegang
  <2>3. /\ UNCHANGED dibuang /\ DOMAIN baris' = DOMAIN baris
        /\ \A i \in DOMAIN baris : /\ i \in proses[p].pilih => ~baris'[i].ada
                                   /\ i \notin proses[p].pilih => baris'[i] = baris[i]
    BY <1>4, HapusTulisInv
  <2>4. \A i \in DOMAIN baris' :
            i \in DOMAIN baris /\ (baris'[i].ada => baris'[i] = baris[i] /\ ~Pemegang(proses[p], i))
    BY <2>2, <2>3
  <2> QED BY <1>1, <2>3, <2>4, PelakuLain
<1> QED BY <1>2, <1>3, <1>4

\* With any number of requests at once on the documents of any owners, and no step failing,
\* a document row names a file that was removed only while a request is about to replace or
\* delete that row.
THEOREM MenggantungBenar == Spec => []TidakMenggantungSelang
<1>1. Init => TidakMenggantungSelang
  BY DEF Init, TidakMenggantungSelang, TidakMenggantungDokumen, TidakMenggantung
<1>2. ASSUME Inv, TidakMenggantungSelang, [Next]_vars
      PROVE  TidakMenggantungSelang'
  <2> SUFFICES ASSUME ~gangguan, TidakMenggantungDokumen
               PROVE  TidakMenggantungDokumen'
    BY <1>2 DEF TidakMenggantungSelang, Next, vars, keadaan
  <2>1. ASSUME NEW p \in Proses, PermintaanSeller(p) \/ PermintaanKurir(p) \/ PermintaanPengguna(p)
        PROVE  TidakMenggantungDokumen'
    BY <1>2, <2>1, MintaSeller, MintaKurir, MintaPengguna, MintaPegang
  <2>2. ASSUME NEW p \in Proses, Langkah(p)
        PROVE  TidakMenggantungDokumen'
    BY <1>2, <2>2, BuangPegang, TulisPegang DEF Langkah, Putus
  <2>3. ASSUME NEW i \in DOMAIN latar, LatarBuat(i) \/ Ubah(i) \/ Hapus(i) \/ LatarGagal(i)
        PROVE  TidakMenggantungDokumen'
    BY <1>2, <2>3, LatarBuatInv, UbahInv, HapusInv, LatarGagalInv, PelakuDiam
  <2>4. CASE Klien
    BY <1>2, <2>4, KlienInv, PelakuDiam
  <2>5. CASE UNCHANGED vars
    BY <1>2, <2>5, PelakuDiam DEF vars
  <2> QED BY <1>2, <2>1, <2>2, <2>3, <2>4, <2>5 DEF Next
<1> QED BY <1>1, <1>2, InvSelalu, PTL DEF Spec

-----------------------------------------------------------------------------
(* An owner who waits for each answer.                                      *)

LEMMA MilikArti ==
    \A j, o : BarisMilik(j, o) = Milik(baris, j, o) /\ (BarisMilik(j, o))' = Milik(baris', j, o)
BY DEF BarisMilik, Milik

Berjalan(r) == r.tahap # "bebas"

\* One request at a time: while it runs there is no goroutine and no upload address.
Sendiri(P, l, u) ==
    /\ \A p, q \in Proses : Berjalan(P[p]) /\ Berjalan(P[q]) => p = q
    /\ \A p \in Proses : Berjalan(P[p]) => l = << >> /\ u = {}

\* So what the request has read stays true until it writes.
InvTertib == tertib => Sendiri(proses, latar, url) /\ \A p \in Proses : Segar(baris, proses[p])

LEMMA SegarBebas == \A b : Segar(b, ProsesBebas) /\ ~Berjalan(ProsesBebas)
BY DEF Segar, ProsesBebas, Berjalan

LEMMA SegarDiam == \A b, r : ~Berjalan(r) => Segar(b, r)
BY DEF Segar, Berjalan

\* A request that ends leaves none.
LEMMA LepasTertib ==
    ASSUME Inv, Sendiri(proses, latar, url), NEW p \in Proses, Berjalan(proses[p]), Lepas(p)
    PROVE  \A q \in Proses : ~Berjalan(proses'[q])
<1>1. \A q \in Proses : proses'[q] = IF q = p THEN ProsesBebas ELSE proses[q]
  BY DEF Lepas, Inv, TypeInv
<1>2. \A q \in Proses : q # p => ~Berjalan(proses[q])
  BY DEF Sendiri
<1> QED BY <1>1, <1>2, SegarBebas

LEMMA TertibBebas ==
    ASSUME \A q \in Proses : ~Berjalan(proses'[q])
    PROVE  InvTertib'
<1>1. Sendiri(proses', latar', url')
  BY DEF Sendiri
<1>2. \A p \in Proses : Segar(baris', proses'[p])
  BY SegarDiam
<1> QED BY <1>1, <1>2 DEF InvTertib

LEMMA MintaTertib ==
    ASSUME Inv, InvTertib, UNCHANGED keadaan, NEW p \in Proses, Minta(p)
    PROVE  InvTertib'
<1> SUFFICES ASSUME tertib, tertib'
             PROVE  Sendiri(proses', latar', url') /\ \A q \in Proses : Segar(baris', proses'[q])
  BY DEF InvTertib, keadaan
<1>1. PICK r \in TipeProses(Len(baris), kunci) : Awal(r) /\ Mulai(p, r)
  BY DEF Minta
<1>2. /\ latar = << >> /\ url = {} /\ UNCHANGED <<baris, url, latar>>
      /\ \A q \in Proses : ~Berjalan(proses[q])
      /\ proses' = [proses EXCEPT ![p] = r]
  BY <1>1 DEF Mulai, Tenang, Berjalan
<1>3. \A q \in Proses : proses'[q] = IF q = p THEN r ELSE proses[q]
  BY <1>2 DEF Inv, TypeInv
<1>4. Sendiri(proses', latar', url')
  BY <1>2, <1>3 DEF Sendiri
<1>5. Segar(baris, r)
  BY <1>1 DEF Awal
<1>6. \A q \in Proses : Segar(baris', proses'[q])
  BY <1>2, <1>3, <1>5, SegarDiam
<1> QED BY <1>4, <1>6

LEMMA BuangTertib ==
    ASSUME Inv, InvTertib, UNCHANGED keadaan, NEW p \in Proses, Buang(p)
    PROVE  InvTertib'
<1> SUFFICES ASSUME tertib, tertib'
             PROVE  Sendiri(proses', latar', url') /\ \A q \in Proses : Segar(baris', proses'[q])
  BY DEF InvTertib, keadaan
<1>1. Sendiri(proses, latar, url) /\ \A q \in Proses : Segar(baris, proses[q])
  BY DEF InvTertib
<1>2. /\ UNCHANGED <<baris, url, latar>> /\ Berjalan(proses[p])
      /\ proses[p].tahap \in {"buangGanti", "buangHapus", "buangTolak"}
  BY DEF Buang, Berjalan
<1>3. ASSUME NEW t, proses' = [proses EXCEPT ![p].tahap = t],
             \/ t = "ganti" /\ proses[p].tahap = "buangGanti"
             \/ t = "hapus" /\ proses[p].tahap = "buangHapus"
      PROVE  Sendiri(proses', latar', url') /\ \A q \in Proses : Segar(baris', proses'[q])
  <2> DEFINE r == [proses[p] EXCEPT !.tahap = t]
  <2>1. proses[p] \in TipeProses(Len(baris), kunci)
    BY DEF Inv, TypeInv
  <2>2. /\ r.tahap = t /\ r.jenis = proses[p].jenis /\ r.pemilik = proses[p].pemilik
        /\ r.id = proses[p].id /\ r.jumlah = proses[p].jumlah /\ r.pilih = proses[p].pilih
        /\ r.lama = proses[p].lama
    BY <2>1 DEF TipeProses
  <2>3. Segar(baris, r)
    BY <1>1, <1>3, <2>2 DEF Segar
  <2>4. \A q \in Proses : proses'[q] = IF q = p THEN r ELSE proses[q]
    BY <1>3 DEF Inv, TypeInv
  <2> HIDE DEF r
  <2>5. Sendiri(proses', latar', url')
    BY <1>1, <1>2, <2>4 DEF Sendiri
  <2>6. \A q \in Proses : Segar(baris', proses'[q])
    BY <1>1, <1>2, <2>3, <2>4
  <2> QED BY <2>5, <2>6
<1>4. CASE proses[p].tahap = "buangTolak" /\ Lepas(p)
  BY <1>1, <1>2, <1>4, LepasTertib, TertibBebas DEF InvTertib
<1> QED BY <1>3, <1>4 DEF Buang

LEMMA TulisTertib ==
    ASSUME Inv, InvTertib, UNCHANGED keadaan, NEW p \in Proses,
           GantiTulis(p) \/ TambahTulis(p) \/ HapusTulis(p) \/ Putus(p)
    PROVE  InvTertib'
<1> SUFFICES ASSUME tertib PROVE InvTertib'
  BY DEF InvTertib, keadaan
<1>1. Berjalan(proses[p]) /\ Lepas(p)
  BY DEF GantiTulis, TambahTulis, HapusTulis, Putus, Berjalan
<1> QED BY <1>1, LepasTertib, TertibBebas DEF InvTertib

\* A goroutine ends, or the client uploads: no request moves.
LEMMA DiamTertib ==
    ASSUME Inv, InvTertib, UNCHANGED <<tertib, baris, proses>>, latar = << >> => latar' = << >>,
           url' \subseteq url
    PROVE  InvTertib'
<1> SUFFICES ASSUME tertib, tertib'
             PROVE  Sendiri(proses', latar', url') /\ \A q \in Proses : Segar(baris', proses'[q])
  BY DEF InvTertib, keadaan
<1>1. Sendiri(proses, latar, url) /\ \A q \in Proses : Segar(baris, proses[q])
  BY DEF InvTertib
<1>2. Sendiri(proses', latar', url')
  BY <1>1 DEF Sendiri
<1> QED BY <1>1, <1>2

LEMMA InvTertibLangkah ==
    ASSUME Inv, InvTertib, [Next]_vars
    PROVE  InvTertib'
<1>1. ASSUME NEW p \in Proses, UNCHANGED keadaan,
             PermintaanSeller(p) \/ PermintaanKurir(p) \/ PermintaanPengguna(p)
      PROVE  InvTertib'
  BY <1>1, MintaSeller, MintaKurir, MintaPengguna, MintaTertib
<1>2. ASSUME NEW p \in Proses, UNCHANGED keadaan, Langkah(p)
      PROVE  InvTertib'
  BY <1>2, BuangTertib, TulisTertib DEF Langkah
<1>3. ASSUME NEW i \in DOMAIN latar, UNCHANGED keadaan, LatarBuat(i) \/ Ubah(i) \/ Hapus(i) \/ LatarGagal(i)
      PROVE  InvTertib'
  <2>1. latar # << >>
    BY <1>3
  <2>2. UNCHANGED <<tertib, baris, proses, url>>
    BY <1>3 DEF LatarBuat, Ubah, LatarUbah, Hapus, LatarHapus, LatarGagal, keadaan
  <2> QED BY <2>1, <2>2, DiamTertib
<1>4. ASSUME UNCHANGED keadaan, Klien
      PROVE  InvTertib'
  <2>1. UNCHANGED <<tertib, baris, proses, latar>> /\ url' \subseteq url
    BY <1>4 DEF Klien, Unggah, Kedaluwarsa, keadaan
  <2> QED BY <2>1, DiamTertib
<1>5. CASE UNCHANGED vars
  BY <1>5, DiamTertib DEF vars, keadaan
<1> QED BY <1>1, <1>2, <1>3, <1>4, <1>5 DEF Next

LEMMA InvTertibSelalu == Spec => [](Inv /\ InvTertib)
<1>1. Init => InvTertib
  BY SegarBebas DEF Init, InvTertib, Sendiri
<1>2. Inv /\ InvTertib /\ [Next]_vars => InvTertib'
  BY InvTertibLangkah
<1> QED BY <1>1, <1>2, InvSelalu, PTL DEF Spec

-----------------------------------------------------------------------------
(* The rows of an owner after each write.                                   *)

LEMMA BarisHingga ==
    ASSUME Inv, NEW S, S \subseteq DOMAIN baris
    PROVE  IsFiniteSet(S) /\ Cardinality(S) \in Nat
<1>1. DOMAIN baris = 1 .. Len(baris) /\ Len(baris) \in Nat
  BY BarisDomain DEF Inv
<1>2. IsFiniteSet(1 .. Len(baris))
  BY <1>1, FS_Interval
<1>3. IsFiniteSet(S)
  BY <1>1, <1>2, FS_Subset
<1> QED BY <1>3, FS_CardinalityType

LEMMA TambahMilik ==
    ASSUME Inv, NEW j \in Jenis, NEW o \in Pemilik, NEW n \in Nat,
           baris' = baris \o BarisBaru(j, o, n), NEW a, NEW b
    PROVE  /\ Milik(baris', a, b) =
                  Milik(baris, a, b) \cup (IF a = j /\ b = o THEN Len(baris) + 1 .. Len(baris) + n ELSE {})
           /\ Cardinality(Milik(baris', a, b)) =
                  Cardinality(Milik(baris, a, b)) + (IF a = j /\ b = o THEN n ELSE 0)
<1> DEFINE N == Len(baris) + 1 .. Len(baris) + n
           M == Milik(baris, a, b)
<1>1. Len(baris) \in Nat /\ kunci \in Nat /\ DOMAIN baris = 1 .. Len(baris)
  BY BarisDomain DEF Inv, TypeInv
<1>2. /\ DOMAIN baris' = 1 .. Len(baris) + n
      /\ \A i \in DOMAIN baris : baris'[i] = baris[i]
      /\ \A i \in (DOMAIN baris') \ (DOMAIN baris) :
            baris'[i] = [jenis |-> j, pemilik |-> o, kunci |-> kunci + (i - Len(baris)), ada |-> TRUE]
  <2>1. kunci + n \in Nat /\ kunci + n <= kunci + n
    BY <1>1
  <2> DEFINE k == kunci + n
  <2> HIDE DEF k
  <2>2. k \in Nat /\ kunci + n <= k
    BY <2>1 DEF k
  <2> QED BY <2>2, BarisTambah DEF Inv
<1>3. (DOMAIN baris') \ (DOMAIN baris) = N
  BY <1>1, <1>2
<1>4. ASSUME NEW i \in N
      PROVE  baris'[i].jenis = j /\ baris'[i].pemilik = o /\ baris'[i].ada
  <2>1. baris'[i] = [jenis |-> j, pemilik |-> o, kunci |-> kunci + (i - Len(baris)), ada |-> TRUE]
    BY <1>2, <1>3
  <2> QED BY <2>1
<1>5. DOMAIN baris' = DOMAIN baris \cup N
  BY <1>1, <1>2, <1>3
<1>6. M \subseteq DOMAIN baris /\ M \cap N = {}
  BY <1>1 DEF Milik
<1> HIDE DEF N
<1>7. CASE a = j /\ b = o
  <2>1. Milik(baris', a, b) = M \cup N
    BY <1>2, <1>4, <1>5, <1>7 DEF Milik
  <2>2. IsFiniteSet(N) /\ Cardinality(N) = n
    <3>1. Len(baris) + 1 \in Int /\ Len(baris) + n \in Int
      BY <1>1
    <3>2. IsFiniteSet(N)
      BY <3>1, FS_Interval DEF N
    <3>3. Cardinality(N) =
             IF Len(baris) + 1 <= Len(baris) + n THEN Len(baris) + n - (Len(baris) + 1) + 1 ELSE 0
      BY <3>1, FS_Interval DEF N
    <3> QED BY <1>1, <3>2, <3>3
  <2>3. IsFiniteSet(M) /\ Cardinality(M) \in Nat
    BY <1>6, BarisHingga
  <2> HIDE DEF M
  <2>4. Cardinality(M \cup N) = Cardinality(M) + Cardinality(N) - Cardinality(M \cap N)
    BY <2>2, <2>3, FS_Union
  <2>5. Cardinality(M \cap N) = 0
    BY <1>6, FS_EmptySet
  <2>6. Cardinality(M \cup N) = Cardinality(M) + n
    BY <2>2, <2>3, <2>4, <2>5
  <2> QED BY <1>7, <2>1, <2>6 DEF M, N
<1>8. CASE ~(a = j /\ b = o)
  <2>1. Milik(baris', a, b) = M
    BY <1>2, <1>4, <1>5, <1>8 DEF Milik
  <2>2. Cardinality(M) \in Nat
    BY <1>6, BarisHingga
  <2> HIDE DEF M
  <2>3. Cardinality(M) = Cardinality(M) + 0
    BY <2>2
  <2>4. M = M \cup {}
    OBVIOUS
  <2> QED BY <1>8, <2>1, <2>3, <2>4 DEF M
<1> QED BY <1>7, <1>8

\* A row that gets a new key remains the row of its owner.
LEMMA GantiMilik ==
    ASSUME Inv, NEW n \in DOMAIN baris, NEW k, baris' = [baris EXCEPT ![n].kunci = k]
    PROVE  /\ DOMAIN baris' = DOMAIN baris
           /\ \A i \in DOMAIN baris : /\ baris'[i].jenis = baris[i].jenis
                                      /\ baris'[i].pemilik = baris[i].pemilik
                                      /\ baris'[i].ada = baris[i].ada
           /\ \A a, b : Milik(baris', a, b) = Milik(baris, a, b)
<1>1. DOMAIN baris' = DOMAIN baris
  OBVIOUS
<1>2. ASSUME NEW i \in DOMAIN baris
      PROVE  /\ baris'[i].jenis = baris[i].jenis /\ baris'[i].pemilik = baris[i].pemilik
             /\ baris'[i].ada = baris[i].ada
  <2>1. baris[i] \in TipeBaris(kunci)
    BY BarisTipe
  <2>2. baris'[i] = IF i = n THEN [baris[i] EXCEPT !.kunci = k] ELSE baris[i]
    OBVIOUS
  <2> QED BY <2>1, <2>2 DEF TipeBaris
<1>3. \A a, b : Milik(baris', a, b) = Milik(baris, a, b)
  BY <1>1, <1>2 DEF Milik
<1> QED BY <1>1, <1>2, <1>3

LEMMA HapusMilik ==
    ASSUME Inv, NEW p \in Proses, HapusTulis(p)
    PROVE  /\ \A a, b : Milik(baris', a, b) = Milik(baris, a, b) \ proses[p].pilih
           /\ \A i \in DOMAIN baris : /\ baris'[i].jenis = baris[i].jenis
                                      /\ baris'[i].pemilik = baris[i].pemilik
<1> DEFINE S == proses[p].pilih
<1>1. baris' = [i \in DOMAIN baris |-> IF i \in S THEN [baris[i] EXCEPT !.ada = FALSE] ELSE baris[i]]
  BY DEF HapusTulis
<1> HIDE DEF S
<1>2. DOMAIN baris' = DOMAIN baris
  BY <1>1
<1>3. ASSUME NEW i \in DOMAIN baris
      PROVE  /\ baris'[i].jenis = baris[i].jenis /\ baris'[i].pemilik = baris[i].pemilik
             /\ baris'[i].ada = (baris[i].ada /\ i \notin S)
  <2>1. baris[i] \in TipeBaris(kunci)
    BY BarisTipe
  <2>2. baris'[i] = IF i \in S THEN [baris[i] EXCEPT !.ada = FALSE] ELSE baris[i]
    BY <1>1
  <2> QED BY <2>1, <2>2 DEF TipeBaris
<1>4. \A a, b : Milik(baris', a, b) = Milik(baris, a, b) \ S
  BY <1>2, <1>3 DEF Milik
<1> QED BY <1>3, <1>4 DEF S

\* What GantiTulis writes: a new row, a new key, or nothing for a row that is gone.
LEMMA GantiTulisBaris ==
    ASSUME Inv, NEW p \in Proses, GantiTulis(p)
    PROVE  /\ proses[p].jenis \in Jenis /\ proses[p].pemilik \in Pemilik
           /\ \/ /\ proses[p].id = 0
                 /\ baris' = baris \o BarisBaru(proses[p].jenis, proses[p].pemilik, 1)
                 /\ Jalankan("buat", {Len(baris')}) /\ Len(baris') = Len(baris) + 1
              \/ /\ proses[p].id # 0 /\ Jalankan("ubah", {proses[p].id})
                 /\ IF BarisAda(proses[p].id)
                       THEN baris' = [baris EXCEPT ![proses[p].id].kunci = kunci']
                       ELSE baris' = baris
                 /\ \A a, b : Milik(baris', a, b) = Milik(baris, a, b)
<1>1. proses[p].tahap = "ganti"
  BY DEF GantiTulis
<1>2. proses[p].jenis \in Jenis /\ proses[p].pemilik \in Pemilik
  BY <1>1 DEF Inv, TypeInv, Berpemilik
<1>3. CASE proses[p].id = 0
  <2>1. /\ baris' = baris \o BarisBaru(proses[p].jenis, proses[p].pemilik, 1)
        /\ Jalankan("buat", {Len(baris')}) /\ kunci' = kunci + 1
    BY <1>3 DEF GantiTulis
  <2>2. Len(baris') = Len(baris) + 1
    BY <1>2, <2>1, TambahPerbarui
  <2> QED BY <1>2, <1>3, <2>1, <2>2
<1>4. CASE proses[p].id # 0
  <2>1. /\ baris' = IF BarisAda(proses[p].id) THEN [baris EXCEPT ![proses[p].id].kunci = kunci'] ELSE baris
        /\ Jalankan("ubah", {proses[p].id})
    BY <1>4 DEF GantiTulis
  <2>2. CASE BarisAda(proses[p].id)
    <3>1. proses[p].id \in DOMAIN baris /\ baris' = [baris EXCEPT ![proses[p].id].kunci = kunci']
      BY <2>1, <2>2 DEF BarisAda
    <3>2. \A a, b : Milik(baris', a, b) = Milik(baris, a, b)
      BY <3>1, GantiMilik
    <3> QED BY <1>2, <1>4, <2>1, <2>2, <3>1, <3>2
  <2>3. CASE ~BarisAda(proses[p].id)
    BY <1>2, <1>4, <2>1, <2>3
  <2> QED BY <2>2, <2>3
<1> QED BY <1>3, <1>4

LEMMA TambahTulisBaris ==
    ASSUME Inv, NEW p \in Proses, TambahTulis(p)
    PROVE  /\ proses[p].jenis \in Jenis /\ proses[p].pemilik \in Pemilik /\ proses[p].jumlah \in Nat
           /\ baris' = baris \o BarisBaru(proses[p].jenis, proses[p].pemilik, proses[p].jumlah)
           /\ Jalankan("buat", Len(baris) + 1 .. Len(baris'))
           /\ Len(baris') = Len(baris) + proses[p].jumlah
<1>1. /\ proses[p].tahap = "tambah" /\ kunci' = kunci + proses[p].jumlah
      /\ baris' = baris \o BarisBaru(proses[p].jenis, proses[p].pemilik, proses[p].jumlah)
      /\ Jalankan("buat", Len(baris) + 1 .. Len(baris'))
  BY DEF TambahTulis
<1>2. proses[p].jenis \in Jenis /\ proses[p].pemilik \in Pemilik /\ proses[p].jumlah \in Nat
  BY <1>1 DEF Inv, TypeInv, Berpemilik, TipeProses
<1> QED BY <1>1, <1>2, TambahPerbarui

\* No other step writes rows.
LEMMA BarisDiam ==
    ASSUME Inv, [Next]_vars
    PROVE  \/ UNCHANGED baris
           \/ \E p \in Proses : GantiTulis(p) \/ TambahTulis(p) \/ HapusTulis(p)
<1>1. ASSUME NEW p \in Proses, PermintaanSeller(p) \/ PermintaanKurir(p) \/ PermintaanPengguna(p)
      PROVE  UNCHANGED baris
  BY <1>1, MintaSeller, MintaKurir, MintaPengguna, MintaInv
<1>2. ASSUME NEW i \in DOMAIN latar, LatarBuat(i) \/ Ubah(i) \/ Hapus(i) \/ LatarGagal(i)
      PROVE  UNCHANGED baris
  BY <1>2, LatarBuatInv, UbahInv, HapusInv, LatarGagalInv
<1>3. Klien => UNCHANGED baris
  BY KlienInv
<1>4. \A p \in Proses : Buang(p) \/ Putus(p) => UNCHANGED baris
  BY DEF Buang, Putus
<1>5. UNCHANGED vars => UNCHANGED baris
  BY DEF vars
<1> QED BY <1>1, <1>2, <1>3, <1>4, <1>5 DEF Next, Langkah

-----------------------------------------------------------------------------
(* How many rows an owner has.                                              *)

\* The number of rows of an owner in the table j.
DalamBatas(b, j, o) == Cardinality(Milik(b, j, o)) <= Paling(j)
BatasInv == tertib => \A j \in Jenis \ {"toko_fisik"}, o \in Pemilik : DalamBatas(baris, j, o)

LEMMA PalingTipe == \A j : Paling(j) \in Nat
BY MediaAssumption DEF Paling

LEMMA BatasArti == BatasInv => (tertib => SatuBerkas /\ BatasFoto)
<1> SUFFICES ASSUME \A j \in Jenis \ {"toko_fisik"}, o \in Pemilik : DalamBatas(baris, j, o)
             PROVE  SatuBerkas /\ BatasFoto
  BY DEF BatasInv
<1>1. ASSUME NEW j \in Jenis \ (Daftar \cup {"review_foto"}), NEW o \in Pemilik
      PROVE  Cardinality(BarisMilik(j, o)) <= 1
  <2>1. j # "toko_fisik" /\ Paling(j) = 1
    BY <1>1 DEF Daftar, Paling
  <2> QED BY <2>1, MilikArti DEF DalamBatas
<1>2. ASSUME NEW j \in {"foto_barang", "review_foto"} \cap Jenis, NEW o \in Pemilik
      PROVE  Cardinality(BarisMilik(j, o)) <= Batas
  <2>1. j # "toko_fisik" /\ Paling(j) = Batas
    BY <1>2 DEF Paling
  <2> QED BY <2>1, MilikArti DEF DalamBatas
<1> QED BY <1>1, <1>2 DEF SatuBerkas, BatasFoto, PalingBanyak

LEMMA BatasLangkah ==
    ASSUME Inv, InvTertib, BatasInv, [Next]_vars
    PROVE  BatasInv'
<1> SUFFICES ASSUME tertib, NEW j \in Jenis \ {"toko_fisik"}, NEW o \in Pemilik
             PROVE  DalamBatas(baris', j, o)
  BY DEF BatasInv, Next, vars, keadaan
<1>1. DalamBatas(baris, j, o) /\ Milik(baris, j, o) \subseteq DOMAIN baris
  BY DEF BatasInv, Milik
<1>2. Cardinality(Milik(baris, j, o)) \in Nat /\ Paling(j) \in Nat
  BY <1>1, BarisHingga, PalingTipe
<1>3. \A p \in Proses : Segar(baris, proses[p])
  BY DEF InvTertib
<1>4. ASSUME NEW p \in Proses, GantiTulis(p)
      PROVE  DalamBatas(baris', j, o)
  <2>1. CASE proses[p].id = 0
    <3>1. Milik(baris, proses[p].jenis, proses[p].pemilik) = {} /\ Paling(proses[p].jenis) = 1
      BY <1>3, <1>4, <2>1 DEF Segar, GantiTulis
    <3>2. Cardinality(Milik(baris', j, o)) = Cardinality(Milik(baris, j, o)) +
              (IF j = proses[p].jenis /\ o = proses[p].pemilik THEN 1 ELSE 0)
      <4>1. PICK a \in Jenis, b \in Pemilik : a = proses[p].jenis /\ b = proses[p].pemilik
        BY <1>4, GantiTulisBaris
      <4>2. baris' = baris \o BarisBaru(a, b, 1)
        BY <1>4, <2>1, <4>1, GantiTulisBaris
      <4>3. 1 \in Nat
        OBVIOUS
      <4> QED BY <4>1, <4>2, <4>3, TambahMilik
    <3>3. j = proses[p].jenis /\ o = proses[p].pemilik => Cardinality(Milik(baris, j, o)) = 0
      BY <3>1, FS_EmptySet
    <3> QED BY <1>1, <1>2, <3>1, <3>2, <3>3 DEF DalamBatas
  <2>2. CASE proses[p].id # 0
    BY <1>1, <1>4, <2>2, GantiTulisBaris DEF DalamBatas
  <2> QED BY <2>1, <2>2
<1>5. ASSUME NEW p \in Proses, TambahTulis(p)
      PROVE  DalamBatas(baris', j, o)
  <2>1. proses[p].jenis # "toko_fisik" =>
            Cardinality(Milik(baris, proses[p].jenis, proses[p].pemilik)) + proses[p].jumlah
                <= Paling(proses[p].jenis)
    BY <1>3, <1>5 DEF Segar, TambahTulis
  <2>2. Cardinality(Milik(baris', j, o)) = Cardinality(Milik(baris, j, o)) +
            (IF j = proses[p].jenis /\ o = proses[p].pemilik THEN proses[p].jumlah ELSE 0)
    <3>1. PICK a \in Jenis, b \in Pemilik, n \in Nat :
              a = proses[p].jenis /\ b = proses[p].pemilik /\ n = proses[p].jumlah
      BY <1>5, TambahTulisBaris
    <3>2. baris' = baris \o BarisBaru(a, b, n)
      BY <1>5, <3>1, TambahTulisBaris
    <3>3. Cardinality(Milik(baris', j, o)) = Cardinality(Milik(baris, j, o)) + (IF j = a /\ o = b THEN n ELSE 0)
      BY <3>2, TambahMilik
    <3> QED BY <3>1, <3>3
  <2> QED BY <1>1, <1>2, <2>1, <2>2 DEF DalamBatas
<1>6. ASSUME NEW p \in Proses, HapusTulis(p)
      PROVE  DalamBatas(baris', j, o)
  <2>1. Milik(baris', j, o) \subseteq Milik(baris, j, o)
    BY <1>6, HapusMilik
  <2>2. IsFiniteSet(Milik(baris, j, o))
    BY <1>1, BarisHingga
  <2>3. Cardinality(Milik(baris', j, o)) <= Cardinality(Milik(baris, j, o))
        /\ Cardinality(Milik(baris', j, o)) \in Nat
    BY <2>1, <2>2, FS_Subset, FS_CardinalityType
  <2> QED BY <1>1, <1>2, <2>3 DEF DalamBatas
<1>7. CASE UNCHANGED baris
  BY <1>1, <1>7
<1> QED BY <1>4, <1>5, <1>6, <1>7, BarisDiam

-----------------------------------------------------------------------------
(* Files and rows, when no step fails.                                      *)

\* A row of the table b names the file f.
Punya(b, f) == \E i \in DOMAIN b : b[i].ada /\ Nama(b, i) = f

\* A request that is about to write or to delete rows has removed their files from O.
Terbuang(b, O, r) ==
    r.jenis \in Bersih => /\ r.tahap = "ganti" /\ r.id # 0 => Nama(b, r.id) \notin O
                          /\ r.tahap = "hapus" => \A i \in r.pilih : Nama(b, i) \notin O

YatimInv ==
    tertib /\ ~gangguan => /\ \A f \in objek \cup url : f[1] \in Bersih => Punya(baris, f)
                           /\ \A p \in Proses : Terbuang(baris, objek, proses[p])

LEMMA TerbuangDiam == \A b, O, r : ~Berjalan(r) => Terbuang(b, O, r)
BY DEF Terbuang, Berjalan

LEMMA YatimArti == YatimInv => (tertib /\ ~gangguan => TanpaYatimDokumen)
BY DEF YatimInv, TanpaYatimDokumen, TanpaYatim, Punya, Bersih, Berkas, Nama

\* The rows that are added name the files that may be uploaded.
LEMMA TambahPunya ==
    ASSUME Inv, NEW j \in Jenis, NEW o \in Pemilik, NEW n \in Nat,
           baris' = baris \o BarisBaru(j, o, n), kunci' = kunci + n
    PROVE  /\ \A f : Punya(baris, f) => Punya(baris', f)
           /\ \A k \in kunci + 1 .. kunci + n : Punya(baris', <<j, k>>)
<1>1. Len(baris) \in Nat /\ kunci \in Nat /\ DOMAIN baris = 1 .. Len(baris)
  BY BarisDomain DEF Inv, TypeInv
<1>2. /\ DOMAIN baris' = 1 .. Len(baris) + n
      /\ \A i \in DOMAIN baris : baris'[i] = baris[i]
      /\ \A i \in (DOMAIN baris') \ (DOMAIN baris) :
            baris'[i] = [jenis |-> j, pemilik |-> o, kunci |-> kunci + (i - Len(baris)), ada |-> TRUE]
  <2> DEFINE k == kunci + n
  <2>1. k \in Nat /\ kunci + n <= k
    BY <1>1
  <2> HIDE DEF k
  <2> QED BY <2>1, BarisTambah DEF Inv
<1>3. \A f : Punya(baris, f) => Punya(baris', f)
  BY <1>1, <1>2 DEF Punya, Nama
<1>4. ASSUME NEW k \in kunci + 1 .. kunci + n
      PROVE  Punya(baris', <<j, k>>)
  <2> DEFINE i == Len(baris) + (k - kunci)
  <2>1. i \in (DOMAIN baris') \ (DOMAIN baris) /\ kunci + (i - Len(baris)) = k
    BY <1>1, <1>2
  <2> HIDE DEF i
  <2>2. baris'[i] = [jenis |-> j, pemilik |-> o, kunci |-> k, ada |-> TRUE]
    BY <1>2, <2>1
  <2>3. baris'[i].ada /\ baris'[i].jenis = j /\ baris'[i].kunci = k
    BY <2>2
  <2> QED BY <2>1, <2>3 DEF Punya, Nama
<1> QED BY <1>3, <1>4

LEMMA YatimTulis ==
    ASSUME Inv, InvTertib, YatimInv, tertib, ~gangguan, NEW p \in Proses,
           GantiTulis(p) \/ TambahTulis(p) \/ HapusTulis(p)
    PROVE  \A f \in objek' \cup url' : f[1] \in Bersih => Punya(baris', f)
<1>1. /\ Segar(baris, proses[p]) /\ Terbuang(baris, objek, proses[p])
      /\ \A f \in objek : f[1] \in Bersih => Punya(baris, f)
  BY DEF InvTertib, YatimInv
<1>2. url = {} /\ objek' = objek
  <2>1. Berjalan(proses[p])
    BY DEF GantiTulis, TambahTulis, HapusTulis, Berjalan
  <2>2. url = {}
    BY <2>1 DEF InvTertib, Sendiri
  <2> QED BY <2>2 DEF GantiTulis, TambahTulis, HapusTulis
<1>3. CASE GantiTulis(p)
  <2>1. PICK j \in Jenis, o \in Pemilik : j = proses[p].jenis /\ o = proses[p].pemilik
    BY <1>3, GantiTulisBaris
  <2>2. url' = {<<j, kunci + 1>>} /\ kunci' = kunci + 1 /\ proses[p].tahap = "ganti"
    BY <1>2, <1>3, <2>1 DEF GantiTulis
  <2>3. CASE proses[p].id = 0
    <3>1. baris' = baris \o BarisBaru(j, o, 1)
      BY <1>3, <2>1, <2>3, GantiTulisBaris
    <3>2. /\ \A f : Punya(baris, f) => Punya(baris', f)
          /\ \A k \in kunci + 1 .. kunci + 1 : Punya(baris', <<j, k>>)
      BY <2>2, <3>1, TambahPunya
    <3>3. kunci + 1 \in kunci + 1 .. kunci + 1
      BY DEF Inv, TypeInv
    <3>4. Punya(baris', <<j, kunci + 1>>)
      BY <3>2, <3>3
    <3> QED BY <1>1, <1>2, <2>2, <3>2, <3>4
  <2>4. CASE proses[p].id # 0
    <3>1. PICK n \in DOMAIN baris : n = proses[p].id /\ baris[n].ada /\ baris[n].jenis = j
      BY <1>1, <2>1, <2>2, <2>4 DEF Segar, Milik
    <3>2. baris' = [baris EXCEPT ![n].kunci = kunci']
      BY <1>3, <2>4, <3>1, GantiTulisBaris DEF BarisAda
    <3>3. /\ DOMAIN baris' = DOMAIN baris
          /\ \A i \in DOMAIN baris : baris'[i].jenis = baris[i].jenis /\ baris'[i].ada = baris[i].ada
      BY <3>2, GantiMilik
    <3>4. \A i \in DOMAIN baris : i # n => baris'[i] = baris[i]
      BY <3>2
    <3>5. baris'[n].kunci = kunci + 1
      <4>1. baris[n] \in TipeBaris(kunci)
        BY BarisTipe
      <4>2. baris'[n] = [baris[n] EXCEPT !.kunci = kunci']
        BY <3>2
      <4> QED BY <2>2, <4>1, <4>2 DEF TipeBaris
    <3>6. Punya(baris', <<j, kunci + 1>>)
      BY <3>1, <3>3, <3>5 DEF Punya, Nama
    <3>7. ASSUME NEW f \in objek, f[1] \in Bersih
          PROVE  Punya(baris', f)
      <4>1. PICK i \in DOMAIN baris : baris[i].ada /\ Nama(baris, i) = f
        BY <1>1, <3>7 DEF Punya
      <4>2. i # n
        <5>1. SUFFICES ASSUME i = n PROVE FALSE
          OBVIOUS
        <5>2. j \in Bersih
          BY <3>1, <3>7, <4>1, <5>1 DEF Nama
        <5> QED BY <1>1, <2>1, <2>2, <2>4, <3>1, <3>7, <4>1, <5>1, <5>2 DEF Terbuang
      <4> QED BY <3>3, <3>4, <4>1, <4>2 DEF Punya, Nama
    <3> QED BY <1>2, <2>2, <3>6, <3>7
  <2> QED BY <2>3, <2>4
<1>4. CASE TambahTulis(p)
  <2>1. PICK j \in Jenis, o \in Pemilik, n \in Nat :
            j = proses[p].jenis /\ o = proses[p].pemilik /\ n = proses[p].jumlah
    BY <1>4, TambahTulisBaris
  <2>2. baris' = baris \o BarisBaru(j, o, n)
    BY <1>4, <2>1, TambahTulisBaris
  <2>3. kunci' = kunci + n /\ url' = {j} \X (kunci + 1 .. kunci + n)
    BY <1>2, <1>4, <2>1 DEF TambahTulis
  <2>4. /\ \A f : Punya(baris, f) => Punya(baris', f)
        /\ \A k \in kunci + 1 .. kunci + n : Punya(baris', <<j, k>>)
    BY <2>2, <2>3, TambahPunya
  <2>5. \A f \in url' : Punya(baris', f)
    BY <2>3, <2>4
  <2> QED BY <1>1, <1>2, <2>4, <2>5
<1>5. CASE HapusTulis(p)
  <2>1. url' = {} /\ proses[p].tahap = "hapus"
    BY <1>2, <1>5 DEF HapusTulis
  <2>2. /\ DOMAIN baris' = DOMAIN baris
        /\ \A i \in DOMAIN baris : i \notin proses[p].pilih => baris'[i] = baris[i]
    BY <1>5, HapusTulisInv
  <2>3. ASSUME NEW f \in objek, f[1] \in Bersih
        PROVE  Punya(baris', f)
    <3>1. PICK i \in DOMAIN baris : baris[i].ada /\ Nama(baris, i) = f
      BY <1>1, <2>3 DEF Punya
    <3>2. i \notin proses[p].pilih
      <4>1. SUFFICES ASSUME i \in proses[p].pilih PROVE FALSE
        OBVIOUS
      <4>2. baris[i].jenis = proses[p].jenis
        BY <1>1, <2>1, <4>1 DEF Segar
      <4>3. proses[p].jenis \in Bersih
        BY <2>3, <3>1, <4>2 DEF Nama
      <4> QED BY <1>1, <2>1, <2>3, <3>1, <4>1, <4>3 DEF Terbuang
    <3> QED BY <2>2, <3>1, <3>2 DEF Punya, Nama
  <2> QED BY <1>2, <2>1, <2>3
<1> QED BY <1>3, <1>4, <1>5

LEMMA YatimLangkah ==
    ASSUME Inv, InvTertib, YatimInv, [Next]_vars
    PROVE  YatimInv'
<1>0. UNCHANGED <<tertib, gangguan>>
  BY DEF Next, vars, keadaan
<1> SUFFICES ASSUME tertib, ~gangguan
             PROVE  /\ \A f \in objek' \cup url' : f[1] \in Bersih => Punya(baris', f)
                    /\ \A p \in Proses : Terbuang(baris', objek', proses'[p])
  BY <1>0 DEF YatimInv
<1>1. /\ \A f \in objek \cup url : f[1] \in Bersih => Punya(baris, f)
      /\ \A p \in Proses : Terbuang(baris, objek, proses[p])
  BY DEF YatimInv
<1>2. Sendiri(proses, latar, url) /\ \A p \in Proses : Segar(baris, proses[p])
  BY DEF InvTertib
<1>3. ASSUME NEW p \in Proses, PermintaanSeller(p) \/ PermintaanKurir(p) \/ PermintaanPengguna(p)
      PROVE  /\ \A f \in objek' \cup url' : f[1] \in Bersih => Punya(baris', f)
             /\ \A q \in Proses : Terbuang(baris', objek', proses'[q])
  <2>1. PICK r \in TipeProses(Len(baris), kunci) : Awal(r) /\ Mulai(p, r)
    BY <1>3, MintaSeller, MintaKurir, MintaPengguna DEF Minta
  <2>2. UNCHANGED <<baris, objek, url>> /\ proses' = [proses EXCEPT ![p] = r]
    BY <2>1 DEF Mulai
  <2>3. \A q \in Proses : proses'[q] = IF q = p THEN r ELSE proses[q]
    BY <2>2 DEF Inv, TypeInv
  <2>4. Terbuang(baris, objek, r)
    BY <2>1 DEF Awal, AwalBersih, Terbuang
  <2> QED BY <1>1, <2>2, <2>3, <2>4
<1>4. ASSUME NEW p \in Proses, Buang(p)
      PROVE  /\ \A f \in objek' \cup url' : f[1] \in Bersih => Punya(baris', f)
             /\ \A q \in Proses : Terbuang(baris', objek', proses'[q])
  <2>1. UNCHANGED <<baris, url>> /\ objek' = objek \ proses[p].lama
    BY <1>4 DEF Buang
  <2>2. \A q \in Proses : q # p => proses'[q] = proses[q]
    BY <1>4 DEF Buang, Lepas, Inv, TypeInv
  <2>3. proses[p] \in TipeProses(Len(baris), kunci)
    BY DEF Inv, TypeInv
  <2>4. Terbuang(baris', objek', proses'[p])
    <3>1. CASE proses[p].tahap = "buangGanti" /\ proses' = [proses EXCEPT ![p].tahap = "ganti"]
      <4>1. proses'[p].tahap = "ganti" /\ proses'[p].id = proses[p].id
        BY <2>3, <3>1 DEF Inv, TypeInv, TipeProses
      <4>2. proses[p].lama = {Nama(baris, proses[p].id)}
        BY <1>2, <3>1 DEF Segar
      <4> QED BY <2>1, <4>1, <4>2 DEF Terbuang, Nama
    <3>2. CASE proses[p].tahap = "buangHapus" /\ proses' = [proses EXCEPT ![p].tahap = "hapus"]
      <4>1. proses'[p].tahap = "hapus" /\ proses'[p].pilih = proses[p].pilih
        BY <2>3, <3>2 DEF Inv, TypeInv, TipeProses
      <4>2. proses[p].lama = {Nama(baris, i) : i \in proses[p].pilih}
        BY <1>2, <3>2 DEF Segar
      <4>3. \A i \in proses[p].pilih : Nama(baris, i) \notin objek'
        BY <2>1, <4>2
      <4> QED BY <2>1, <4>1, <4>3 DEF Terbuang, Nama
    <3>3. CASE Lepas(p)
      <4>1. proses'[p] = ProsesBebas
        BY <3>3 DEF Lepas, Inv, TypeInv
      <4> QED BY <4>1, SegarBebas, TerbuangDiam
    <3> QED BY <1>4, <3>1, <3>2, <3>3 DEF Buang
  <2>5. \A q \in Proses : q # p => Terbuang(baris', objek', proses'[q])
    BY <1>1, <2>1, <2>2 DEF Terbuang, Nama
  <2> QED BY <1>1, <2>1, <2>4, <2>5
<1>5. ASSUME NEW p \in Proses, GantiTulis(p) \/ TambahTulis(p) \/ HapusTulis(p)
      PROVE  /\ \A f \in objek' \cup url' : f[1] \in Bersih => Punya(baris', f)
             /\ \A q \in Proses : Terbuang(baris', objek', proses'[q])
  <2>1. Berjalan(proses[p]) /\ Lepas(p)
    BY <1>5 DEF GantiTulis, TambahTulis, HapusTulis, Berjalan
  <2>2. \A q \in Proses : Terbuang(baris', objek', proses'[q])
    BY <1>2, <2>1, LepasTertib, TerbuangDiam
  <2> QED BY <1>5, <2>2, YatimTulis
<1>6. ASSUME NEW i \in DOMAIN latar, LatarBuat(i) \/ Ubah(i) \/ Hapus(i) \/ LatarGagal(i)
      PROVE  UNCHANGED <<baris, objek, url, proses>>
  BY <1>6 DEF LatarBuat, Ubah, LatarUbah, Hapus, LatarHapus, LatarGagal
<1>7. ASSUME NEW k \in url, Unggah(k) \/ Kedaluwarsa(k)
      PROVE  /\ \A f \in objek' \cup url' : f[1] \in Bersih => Punya(baris', f)
             /\ \A q \in Proses : Terbuang(baris', objek', proses'[q])
  <2>1. UNCHANGED <<baris, proses>> /\ objek' \cup url' \subseteq objek \cup url
    BY <1>7 DEF Unggah, Kedaluwarsa
  <2>2. \A q \in Proses : ~Berjalan(proses[q])
    BY <1>2, <1>7 DEF Sendiri
  <2> QED BY <1>1, <2>1, <2>2, TerbuangDiam
<1>8. CASE UNCHANGED <<baris, objek, url, proses>>
  BY <1>1, <1>8
<1>9. \A p \in Proses : ~Putus(p)
  BY DEF Putus
<1>10. CASE UNCHANGED vars
  BY <1>8, <1>10 DEF vars
<1> QED BY <1>3, <1>4, <1>5, <1>6, <1>7, <1>8, <1>9, <1>10 DEF Next, Langkah, Klien

LEMMA BerkasSelalu == Spec => [](Inv /\ InvTertib /\ BatasInv /\ YatimInv)
<1>1. Init => BatasInv /\ YatimInv
  <2> SUFFICES ASSUME Init PROVE BatasInv /\ YatimInv
    OBVIOUS
  <2>1. baris = << >> /\ objek = {} /\ url = {} /\ \A p \in Proses : proses[p] = ProsesBebas
    BY DEF Init
  <2>2. \A j, o : Milik(baris, j, o) = {}
    BY <2>1 DEF Milik
  <2>3. \A j, o : DalamBatas(baris, j, o)
    BY <2>2, FS_EmptySet, PalingTipe DEF DalamBatas
  <2>4. \A p \in Proses : Terbuang(baris, objek, proses[p])
    BY <2>1, SegarBebas, TerbuangDiam
  <2> QED BY <2>1, <2>3, <2>4 DEF BatasInv, YatimInv
<1>2. Inv /\ InvTertib /\ BatasInv /\ YatimInv /\ [Next]_vars => (BatasInv /\ YatimInv)'
  BY BatasLangkah, YatimLangkah
<1> QED BY <1>1, <1>2, InvTertibSelalu, PTL DEF Spec

\* For an owner who waits for each answer: one row per document, photo and proof and no more
\* photos per product and per review than their limits, whatever steps fail; and while none
\* fails, no file of a document or of a photo of the shop stays in the bucket without its row.
THEOREM BerkasBenar == Spec => []BerkasTertib
<1>1. BatasInv /\ YatimInv => BerkasTertib
  BY BatasArti, YatimArti DEF BerkasTertib
<1> QED BY <1>1, BerkasSelalu, PTL

-----------------------------------------------------------------------------
(* Counting the rows that goroutines are about.                             *)

\* Of the rows S, those of an owner; and the rows that goroutines of one kind are about.
Sebagian(b, S, j, o) == {i \in S : b[i].jenis = j /\ b[i].pemilik = o}
Pasangan(l, b, t, j, o) ==
    {w \in (DOMAIN l) \X (DOMAIN b) : /\ l[w[1]].jenis = t /\ w[2] \in l[w[1]].baris
                                      /\ b[w[2]].jenis = j /\ b[w[2]].pemilik = o}

LEMMA PasanganHingga ==
    ASSUME NEW l, NEW m \in Nat, DOMAIN l = 1 .. m, NEW b, NEW n \in Nat, DOMAIN b = 1 .. n,
           NEW t, NEW j, NEW o
    PROVE  IsFiniteSet(Pasangan(l, b, t, j, o)) /\ Cardinality(Pasangan(l, b, t, j, o)) \in Nat
<1>1. IsFiniteSet(1 .. m) /\ IsFiniteSet(1 .. n)
  BY FS_Interval
<1>2. IsFiniteSet((1 .. m) \X (1 .. n))
  BY <1>1, FS_Product
<1>3. Pasangan(l, b, t, j, o) \subseteq (1 .. m) \X (1 .. n)
  BY DEF Pasangan
<1>4. IsFiniteSet(Pasangan(l, b, t, j, o))
  BY <1>2, <1>3, FS_Subset
<1> QED BY <1>4, FS_CardinalityType

\* The pairs that one goroutine adds.
LEMMA PasanganSatu ==
    ASSUME NEW x, NEW n \in Nat, NEW S, S \subseteq 1 .. n
    PROVE  /\ IsFiniteSet({x} \X S)
           /\ Cardinality({x} \X S) = Cardinality(S) /\ Cardinality(S) \in Nat
<1>1. IsFiniteSet(1 .. n)
  BY FS_Interval
<1>2. IsFiniteSet(S) /\ Cardinality(S) \in Nat
  BY <1>1, FS_Subset, FS_CardinalityType
<1>3. IsFiniteSet({x}) /\ Cardinality({x}) = 1
  BY FS_Singleton
<1>4. IsFiniteSet({x} \X S) /\ Cardinality({x} \X S) = Cardinality({x}) * Cardinality(S)
  BY <1>2, <1>3, FS_Product
<1> QED BY <1>2, <1>3, <1>4

LEMMA GabungLepas ==
    ASSUME NEW S, IsFiniteSet(S), NEW T, IsFiniteSet(T), S \cap T = {}
    PROVE  Cardinality(S \cup T) = Cardinality(S) + Cardinality(T)
<1>1. Cardinality(S \cup T) = Cardinality(S) + Cardinality(T) - Cardinality(S \cap T)
  BY FS_Union
<1>2. Cardinality(S \cap T) = 0
  BY FS_EmptySet
<1>3. Cardinality(S) \in Nat /\ Cardinality(T) \in Nat
  BY FS_CardinalityType
<1> QED BY <1>1, <1>2, <1>3

\* The rows change no table and no owner, and there may be more of them.
SamaPemilik(b, n, c, q) ==
    /\ n <= q /\ DOMAIN b = 1 .. n /\ DOMAIN c = 1 .. q
    /\ \A i \in 1 .. n : c[i].jenis = b[i].jenis /\ c[i].pemilik = b[i].pemilik

\* k is l with one more goroutine at the end, whose rows are the table c.
LatarLebih(l, m, k, n, q) ==
    /\ DOMAIN l = 1 .. m /\ DOMAIN k = 1 .. m + 1 /\ \A w \in 1 .. m : k[w] = l[w]
    /\ \A w \in 1 .. m : l[w].baris \subseteq 1 .. n
    /\ k[m + 1].baris \subseteq 1 .. q

LEMMA PasanganTambah ==
    ASSUME NEW l, NEW k, NEW m \in Nat, NEW b, NEW c, NEW n \in Nat, NEW q \in Nat,
           SamaPemilik(b, n, c, q), LatarLebih(l, m, k, n, q), NEW t, NEW j, NEW o
    PROVE  Cardinality(Pasangan(k, c, t, j, o)) =
               Cardinality(Pasangan(l, b, t, j, o)) +
                   (IF k[m + 1].jenis = t THEN Cardinality(Sebagian(c, k[m + 1].baris, j, o)) ELSE 0)
<1> DEFINE P == Pasangan(l, b, t, j, o)
           S == Sebagian(c, k[m + 1].baris, j, o)
           T == IF k[m + 1].jenis = t THEN {m + 1} \X S ELSE {}
<1>1. /\ n <= q /\ DOMAIN b = 1 .. n /\ DOMAIN c = 1 .. q
      /\ \A i \in 1 .. n : c[i].jenis = b[i].jenis /\ c[i].pemilik = b[i].pemilik
      /\ DOMAIN l = 1 .. m /\ DOMAIN k = 1 .. m + 1 /\ \A w \in 1 .. m : k[w] = l[w]
      /\ \A w \in 1 .. m : l[w].baris \subseteq 1 .. n
      /\ k[m + 1].baris \subseteq 1 .. q
  BY DEF SamaPemilik, LatarLebih
<1>2. S \subseteq 1 .. q
  BY <1>1 DEF Sebagian
<1>3. ASSUME NEW w
      PROVE  w \in Pasangan(k, c, t, j, o) <=> w \in P \cup T
  <2>1. ASSUME NEW x \in 1 .. m + 1, NEW y \in 1 .. q, w = <<x, y>>
        PROVE  w \in Pasangan(k, c, t, j, o) <=> w \in P \cup T
    <3>1. w \in Pasangan(k, c, t, j, o) <=>
              k[x].jenis = t /\ y \in k[x].baris /\ c[y].jenis = j /\ c[y].pemilik = o
      BY <1>1, <2>1 DEF Pasangan
    <3>2. CASE x = m + 1
      <4>1. w \notin P
        BY <1>1, <2>1, <3>2 DEF Pasangan
      <4>2. w \in T <=> k[x].jenis = t /\ y \in S
        BY <2>1, <3>2
      <4>3. y \in S <=> y \in k[x].baris /\ c[y].jenis = j /\ c[y].pemilik = o
        BY <3>2 DEF Sebagian
      <4> QED BY <3>1, <4>1, <4>2, <4>3
    <3>3. CASE x # m + 1
      <4>1. x \in 1 .. m /\ k[x] = l[x] /\ w \notin T
        BY <1>1, <2>1, <3>3
      <4>2. w \in P <=> y \in 1 .. n /\ l[x].jenis = t /\ y \in l[x].baris /\ b[y].jenis = j /\ b[y].pemilik = o
        BY <1>1, <2>1, <4>1 DEF Pasangan
      <4>3. y \in l[x].baris => y \in 1 .. n /\ c[y].jenis = b[y].jenis /\ c[y].pemilik = b[y].pemilik
        BY <1>1, <4>1
      <4> QED BY <3>1, <4>1, <4>2, <4>3
    <3> QED BY <3>2, <3>3
  <2>2. w \in Pasangan(k, c, t, j, o) => w \in (1 .. m + 1) \X (1 .. q)
    BY <1>1 DEF Pasangan
  <2>3. w \in P => w \in (1 .. m) \X (1 .. n)
    BY <1>1 DEF Pasangan
  <2>4. (1 .. m) \X (1 .. n) \subseteq (1 .. m + 1) \X (1 .. q)
    BY <1>1
  <2>5. w \in T => w \in (1 .. m + 1) \X (1 .. q)
    BY <1>2
  <2>6. w \in P \cup T => w \in (1 .. m + 1) \X (1 .. q)
    BY <2>3, <2>4, <2>5
  <2>7. w \in (1 .. m + 1) \X (1 .. q) => \E x \in 1 .. m + 1, y \in 1 .. q : w = <<x, y>>
    OBVIOUS
  <2> HIDE DEF P, T
  <2> QED BY <2>1, <2>2, <2>6, <2>7
<1>4. Pasangan(k, c, t, j, o) = P \cup T
  BY <1>3
<1>5. P \cap T = {}
  <2>1. \A w \in P : w[1] \in 1 .. m
    BY <1>1 DEF Pasangan
  <2>2. \A w \in T : w[1] = m + 1
    OBVIOUS
  <2> QED BY <2>1, <2>2
<1>6. IsFiniteSet(P) /\ Cardinality(P) \in Nat
  BY <1>1, PasanganHingga
<1> HIDE DEF P, S
<1>7. IsFiniteSet(T) /\ Cardinality(T) = IF k[m + 1].jenis = t THEN Cardinality(S) ELSE 0
  <2>1. IsFiniteSet({m + 1} \X S) /\ Cardinality({m + 1} \X S) = Cardinality(S)
    BY <1>2, PasanganSatu
  <2> QED BY <2>1, FS_EmptySet
<1> HIDE DEF T
<1>8. Cardinality(P \cup T) = Cardinality(P) + Cardinality(T)
  BY <1>5, <1>6, <1>7, GabungLepas
<1> QED BY <1>4, <1>7, <1>8 DEF P, S

\* k is l without its i-th goroutine; the rows of all are those of a table of n rows.
LatarKurang(l, m, i, k, n) ==
    /\ DOMAIN l = 1 .. m /\ DOMAIN k = 1 .. m - 1
    /\ \A w \in 1 .. m - 1 : k[w] = IF w < i THEN l[w] ELSE l[w + 1]
    /\ \A w \in 1 .. m : l[w].baris \subseteq 1 .. n

\* Sets whose elements correspond have the same size.
LEMMA SamaBanyak ==
    ASSUME NEW S, IsFiniteSet(S), NEW T, NEW f \in [S -> T],
           \A x, y \in S : f[x] = f[y] => x = y, \A y \in T : \E x \in S : f[x] = y
    PROVE  Cardinality(T) = Cardinality(S)
<1>1. f \in Bijection(S, T)
  BY DEF Bijection, Injection, IsInjective, Surjection
<1>2. ExistsBijection(S, T)
  BY <1>1 DEF ExistsBijection
<1> QED BY <1>2, FS_Bijection

LEMMA PasanganKurang ==
    ASSUME NEW l, NEW m \in Nat, NEW i \in 1 .. m, NEW k, NEW b, NEW n \in Nat, DOMAIN b = 1 .. n,
           LatarKurang(l, m, i, k, n), NEW t, NEW j, NEW o
    PROVE  Cardinality(Pasangan(l, b, t, j, o)) =
               Cardinality(Pasangan(k, b, t, j, o)) +
                   (IF l[i].jenis = t THEN Cardinality(Sebagian(b, l[i].baris, j, o)) ELSE 0)
<1> DEFINE P == Pasangan(l, b, t, j, o)
           K == Pasangan(k, b, t, j, o)
           S == Sebagian(b, l[i].baris, j, o)
           T == IF l[i].jenis = t THEN {i} \X S ELSE {}
           R == {w \in P : w[1] # i}
           Geser(x) == IF x < i THEN x ELSE x - 1
           f == [w \in R |-> <<Geser(w[1]), w[2]>>]
<1>1. /\ DOMAIN l = 1 .. m /\ DOMAIN k = 1 .. m - 1
      /\ \A w \in 1 .. m - 1 : k[w] = IF w < i THEN l[w] ELSE l[w + 1]
      /\ \A w \in 1 .. m : l[w].baris \subseteq 1 .. n
  BY DEF LatarKurang
<1>2. S \subseteq 1 .. n
  BY <1>1 DEF Sebagian
<1>3. ASSUME NEW x \in 1 .. m, NEW y \in 1 .. n
      PROVE  <<x, y>> \in P <=> l[x].jenis = t /\ y \in l[x].baris /\ b[y].jenis = j /\ b[y].pemilik = o
  BY <1>1 DEF Pasangan
<1>4. ASSUME NEW x \in 1 .. m - 1, NEW y \in 1 .. n
      PROVE  <<x, y>> \in K <=> k[x].jenis = t /\ y \in k[x].baris /\ b[y].jenis = j /\ b[y].pemilik = o
  BY <1>1 DEF Pasangan
<1>5. P \subseteq (1 .. m) \X (1 .. n) /\ K \subseteq (1 .. m - 1) \X (1 .. n)
  BY <1>1 DEF Pasangan
<1>6. IsFiniteSet(P) /\ Cardinality(P) \in Nat
  BY <1>1, PasanganHingga
<1>7. \A y \in 1 .. n : <<i, y>> \in P <=> <<i, y>> \in T
  <2> SUFFICES ASSUME NEW y \in 1 .. n PROVE <<i, y>> \in P <=> <<i, y>> \in T
    OBVIOUS
  <2>1. <<i, y>> \in T <=> l[i].jenis = t /\ y \in S
    OBVIOUS
  <2> QED BY <1>3, <2>1 DEF Sebagian
<1>8. T \subseteq {i} \X (1 .. n)
  BY <1>2
<1>9. Geser(i) \in Int /\ \A x \in 1 .. m : x # i => Geser(x) \in 1 .. m - 1 /\ l[x] = k[Geser(x)]
  <2>1. ASSUME NEW x \in 1 .. m, x # i
        PROVE  Geser(x) \in 1 .. m - 1 /\ l[x] = k[Geser(x)]
    <3>1. CASE x < i
      BY <1>1, <3>1
    <3>2. CASE ~(x < i)
      <4>1. Geser(x) = x - 1 /\ x - 1 \in 1 .. m - 1 /\ ~(x - 1 < i) /\ (x - 1) + 1 = x
        BY <2>1, <3>2
      <4> QED BY <1>1, <4>1
    <3> QED BY <3>1, <3>2
  <2> QED BY <2>1
<1>10. \A x, y \in 1 .. m : x # i /\ y # i /\ Geser(x) = Geser(y) => x = y
  OBVIOUS
<1>11. \A y \in 1 .. m - 1 : \E x \in 1 .. m : x # i /\ Geser(x) = y
  <2> SUFFICES ASSUME NEW y \in 1 .. m - 1 PROVE \E x \in 1 .. m : x # i /\ Geser(x) = y
    OBVIOUS
  <2>1. CASE y < i
    <3>1. y \in 1 .. m /\ y # i /\ Geser(y) = y
      BY <2>1
    <3> QED BY <3>1
  <2>2. CASE ~(y < i)
    <3>1. y + 1 \in 1 .. m /\ y + 1 # i /\ Geser(y + 1) = y
      BY <2>2
    <3> QED BY <3>1
  <2> QED BY <2>1, <2>2
<1> HIDE DEF P, K, S, T, Geser
<1>12. P = R \cup T /\ R \cap T = {}
  <2>1. \A w \in P : w[1] = i => w \in T
    <3> SUFFICES ASSUME NEW w \in P, w[1] = i PROVE w \in T
      OBVIOUS
    <3>1. PICK x \in 1 .. m, y \in 1 .. n : w = <<x, y>>
      BY <1>5
    <3> QED BY <1>7, <3>1
  <2>2. \A w \in T : w \in P /\ w[1] = i
    <3> SUFFICES ASSUME NEW w \in T PROVE w \in P /\ w[1] = i
      OBVIOUS
    <3>1. PICK y \in 1 .. n : w = <<i, y>>
      BY <1>8
    <3> QED BY <1>7, <3>1
  <2> QED BY <2>1, <2>2
<1>13. IsFiniteSet(R)
  BY <1>6, FS_Subset
<1>14. f \in [R -> K]
  <2> SUFFICES ASSUME NEW w \in R PROVE <<Geser(w[1]), w[2]>> \in K
    OBVIOUS
  <2>1. PICK x \in 1 .. m, y \in 1 .. n : w = <<x, y>>
    BY <1>5
  <2>2. x # i /\ w[1] = x /\ w[2] = y /\ <<x, y>> \in P
    BY <2>1
  <2>3. l[x].jenis = t /\ y \in l[x].baris /\ b[y].jenis = j /\ b[y].pemilik = o
    BY <1>3, <2>2
  <2>4. Geser(x) \in 1 .. m - 1 /\ l[x] = k[Geser(x)]
    BY <1>9, <2>2
  <2>5. <<Geser(x), y>> \in K
    BY <1>4, <2>3, <2>4
  <2> QED BY <2>2, <2>5
<1>15. \A v, w \in R : f[v] = f[w] => v = w
  <2> SUFFICES ASSUME NEW v \in R, NEW w \in R, f[v] = f[w] PROVE v = w
    OBVIOUS
  <2>1. PICK x \in 1 .. m, y \in 1 .. n : v = <<x, y>>
    BY <1>5
  <2>2. PICK p \in 1 .. m, q \in 1 .. n : w = <<p, q>>
    BY <1>5
  <2>3. x # i /\ p # i /\ <<Geser(x), y>> = <<Geser(p), q>>
    BY <2>1, <2>2
  <2> QED BY <1>10, <2>1, <2>2, <2>3
<1>16. \A z \in K : \E w \in R : f[w] = z
  <2> SUFFICES ASSUME NEW z \in K PROVE \E w \in R : f[w] = z
    OBVIOUS
  <2>1. PICK u \in 1 .. m - 1, y \in 1 .. n : z = <<u, y>>
    BY <1>5
  <2>2. PICK x \in 1 .. m : x # i /\ Geser(x) = u
    BY <1>11
  <2>3. k[u].jenis = t /\ y \in k[u].baris /\ b[y].jenis = j /\ b[y].pemilik = o
    BY <1>4, <2>1
  <2>4. <<x, y>> \in P
    BY <1>3, <1>9, <2>2, <2>3
  <2>5. <<x, y>> \in R /\ f[<<x, y>>] = z
    BY <2>1, <2>2, <2>4
  <2> QED BY <2>5
<1> HIDE DEF f, R
<1>17. Cardinality(K) = Cardinality(R) /\ Cardinality(R) \in Nat
  BY <1>13, <1>14, <1>15, <1>16, SamaBanyak, FS_CardinalityType
<1>18. IsFiniteSet(T) /\ Cardinality(T) = IF l[i].jenis = t THEN Cardinality(S) ELSE 0
  <2>1. IsFiniteSet({i} \X S) /\ Cardinality({i} \X S) = Cardinality(S)
    BY <1>2, PasanganSatu
  <2> QED BY <2>1, FS_EmptySet DEF T
<1>19. Cardinality(P) = Cardinality(R) + Cardinality(T)
  BY <1>12, <1>13, <1>18, GabungLepas
<1>20. Cardinality(P) = Cardinality(K) + (IF l[i].jenis = t THEN Cardinality(S) ELSE 0)
  BY <1>17, <1>18, <1>19
<1> QED BY <1>20 DEF P, K, S

-----------------------------------------------------------------------------
(* The counters, when no step fails.                                        *)

\* What a counter says and will be told to add, and the rows there are with those whose
\* deletion the counter has not been told.
Kiri(h, l, b, j, o) == h[<<j, o>>] + Cardinality(Pasangan(l, b, "buat", j, o))
Kanan(l, b, j, o) == Cardinality(Milik(b, j, o)) + Cardinality(Pasangan(l, b, "hapus", j, o))

HitungInv ==
    ~gangguan => \A j \in Jenis, o \in Pemilik :
                     /\ Kiri(hitung, latar, baris, j, o) <= Kanan(latar, baris, j, o)
                     /\ tertib => Kiri(hitung, latar, baris, j, o) = Kanan(latar, baris, j, o)

LEMMA HitungTipe ==
    ASSUME Inv, NEW j \in Jenis, NEW o \in Pemilik
    PROVE  /\ hitung[<<j, o>>] \in Int /\ Cardinality(Milik(baris, j, o)) \in Nat
           /\ \A t : Cardinality(Pasangan(latar, baris, t, j, o)) \in Nat
<1>1. hitung[<<j, o>>] \in Int
  BY DEF Inv, TypeInv
<1>2. Cardinality(Milik(baris, j, o)) \in Nat
  BY BarisHingga DEF Milik
<1>3. PICK m \in Nat, n \in Nat : DOMAIN latar = 1 .. m /\ DOMAIN baris = 1 .. n
  BY BarisDomain DEF Inv, TypeInv
<1>4. \A t : Cardinality(Pasangan(latar, baris, t, j, o)) \in Nat
  BY <1>3, PasanganHingga
<1> QED BY <1>1, <1>2, <1>4

LEMMA HitungArti ==
    ASSUME Inv, HitungInv
    PROVE  HitungBenar
<1> SUFFICES ASSUME ~gangguan PROVE HitungTidakLebih /\ (tertib => HitungSesuai)
  BY DEF HitungBenar
<1>1. \A j \in Jenis, o \in Pemilik :
          /\ hitung[j, o] = hitung[<<j, o>>] /\ BarisMilik(j, o) = Milik(baris, j, o)
          /\ \A t : Menunggu(t, j, o) = Cardinality(Pasangan(latar, baris, t, j, o))
  BY MilikArti DEF Menunggu, Pasangan
<1>2. HitungTidakLebih
  BY <1>1 DEF HitungTidakLebih, HitungInv, Kiri, Kanan
<1>3. ASSUME tertib, Tenang, NEW j \in Jenis, NEW o \in Pemilik
      PROVE  hitung[j, o] = Cardinality(BarisMilik(j, o))
  <2>1. Kiri(hitung, latar, baris, j, o) = Kanan(latar, baris, j, o)
    BY <1>3 DEF HitungInv
  <2>2. \A t : Pasangan(latar, baris, t, j, o) = {}
    BY <1>3 DEF Tenang, Pasangan
  <2>3. \A t : Cardinality(Pasangan(latar, baris, t, j, o)) = 0
    BY <2>2, FS_EmptySet
  <2>4. hitung[<<j, o>>] + 0 = Cardinality(Milik(baris, j, o)) + 0
    BY <2>1, <2>3 DEF Kiri, Kanan
  <2>5. hitung[<<j, o>>] = Cardinality(Milik(baris, j, o))
    BY <2>4, HitungTipe
  <2> QED BY <1>1, <2>5
<1> QED BY <1>2, <1>3 DEF HitungSesuai

\* A goroutine more: k is l with it, and its rows S are among the first q.
LatarBaru(l, k, jenis, S, q) == k = Append(l, [jenis |-> jenis, baris |-> S]) /\ S \subseteq 1 .. q

LEMMA JalankanArti ==
    \A jenis, S, q : Jalankan(jenis, S) /\ S \subseteq 1 .. q => LatarBaru(latar, latar', jenis, S, q)
BY DEF Jalankan, LatarBaru

LEMMA MenungguTambah ==
    ASSUME Inv, NEW k, NEW c, NEW q \in Nat, SamaPemilik(baris, Len(baris), c, q),
           NEW jenis, NEW S, LatarBaru(latar, k, jenis, S, q), NEW t, NEW j, NEW o
    PROVE  Cardinality(Pasangan(k, c, t, j, o)) =
               Cardinality(Pasangan(latar, baris, t, j, o)) +
                   (IF jenis = t THEN Cardinality(Sebagian(c, S, j, o)) ELSE 0)
<1>a. PICK l, b : l = latar /\ b = baris
  OBVIOUS
<1>b. PICK m \in Nat, n \in Nat : m = Len(latar) /\ n = Len(baris)
  BY BarisDomain DEF Inv, TypeInv
<1>1. l = latar /\ m = Len(latar) /\ b = baris /\ n = Len(baris)
  BY <1>a, <1>b
<1>2. /\ DOMAIN l = 1 .. m /\ DOMAIN k = 1 .. m + 1
      /\ \A w \in 1 .. m : k[w] = l[w] /\ k[m + 1] = [jenis |-> jenis, baris |-> S]
  BY <1>1 DEF LatarBaru, Inv, TypeInv
<1>3. \A w \in 1 .. m : l[w].baris \subseteq 1 .. n
  BY <1>1, <1>2, LatarTipe
<1>4. k[m + 1].jenis = jenis /\ k[m + 1].baris = S
  <2>1. k[m + 1] = [jenis |-> jenis, baris |-> S]
    BY <1>1 DEF Inv, TypeInv, LatarBaru
  <2> QED BY <2>1
<1>5. LatarLebih(l, m, k, n, q) /\ SamaPemilik(b, n, c, q)
  BY <1>1, <1>2, <1>3, <1>4 DEF LatarLebih, LatarBaru
<1>6. Cardinality(Pasangan(k, c, t, j, o)) =
          Cardinality(Pasangan(l, b, t, j, o)) +
              (IF k[m + 1].jenis = t THEN Cardinality(Sebagian(c, k[m + 1].baris, j, o)) ELSE 0)
  BY <1>5, PasanganTambah
<1> QED BY <1>1, <1>4, <1>6

\* A goroutine less.
LEMMA MenungguKurang ==
    ASSUME Inv, NEW i \in DOMAIN latar, latar' = Sisa(i), UNCHANGED baris, NEW t, NEW j, NEW o
    PROVE  Cardinality(Pasangan(latar, baris, t, j, o)) =
               Cardinality(Pasangan(latar', baris', t, j, o)) +
                   (IF latar[i].jenis = t THEN Cardinality(Sebagian(baris, latar[i].baris, j, o)) ELSE 0)
<1>a. PICK l, k, b : l = latar /\ k = latar' /\ b = baris
  OBVIOUS
<1>b. PICK m \in Nat, n \in Nat : m = Len(latar) /\ n = Len(baris)
  BY BarisDomain DEF Inv, TypeInv
<1>1. l = latar /\ k = latar' /\ m = Len(latar) /\ b = baris /\ n = Len(baris)
  BY <1>a, <1>b
<1>2. DOMAIN l = 1 .. m /\ DOMAIN b = 1 .. n /\ i \in 1 .. m
  BY <1>1, BarisDomain DEF Inv, TypeInv
<1>3. \A w \in 1 .. m : l[w].baris \subseteq 1 .. n
  BY <1>1, <1>2, LatarTipe
<1>4. DOMAIN k = 1 .. m - 1 /\ \A w \in 1 .. m - 1 : k[w] = IF w < i THEN l[w] ELSE l[w + 1]
  <2>1. k = SubSeq(l, 1, i - 1) \o SubSeq(l, i + 1, m)
    BY <1>1 DEF Sisa
  <2>2. l \in Seq(TipeLatar(n)) /\ Len(l) = m
    BY <1>1 DEF Inv, TypeInv
  <2> DEFINE T == TipeLatar(n)
             s == SubSeq(l, 1, i - 1)
             u == SubSeq(l, i + 1, m)
  <2>3. l \in Seq(T)
    BY <2>2
  <2> HIDE DEF T
  <2>4. s \in Seq(T) /\ Len(s) = i - 1 /\ \A w \in 1 .. i - 1 : s[w] = l[w]
    BY <1>2, <2>2, <2>3
  <2>5. u \in Seq(T) /\ Len(u) = m - i /\ \A w \in 1 .. m - i : u[w] = l[i + w]
    BY <1>2, <2>2, <2>3
  <2> HIDE DEF s, u
  <2>6. /\ s \o u \in Seq(T) /\ Len(s \o u) = Len(s) + Len(u)
        /\ \A w \in 1 .. Len(s) + Len(u) : (s \o u)[w] = IF w <= Len(s) THEN s[w] ELSE u[w - Len(s)]
    BY <2>4, <2>5, ConcatProperties
  <2>7. k = s \o u
    BY <2>1 DEF s, u
  <2>8. Len(s) + Len(u) = m - 1 /\ m - 1 \in Nat
    BY <1>2, <2>4, <2>5
  <2>9. DOMAIN k = 1 .. m - 1
    BY <2>6, <2>7, <2>8
  <2>10. ASSUME NEW w \in 1 .. m - 1
         PROVE  k[w] = IF w < i THEN l[w] ELSE l[w + 1]
    <3>1. k[w] = IF w <= i - 1 THEN s[w] ELSE u[w - (i - 1)]
      BY <2>4, <2>6, <2>7, <2>8
    <3>2. CASE w < i
      <4>1. w <= i - 1 /\ w \in 1 .. i - 1
        BY <1>2, <3>2
      <4> QED BY <2>4, <3>1, <3>2, <4>1
    <3>3. CASE ~(w < i)
      <4>1. ~(w <= i - 1) /\ w - (i - 1) \in 1 .. m - i /\ i + (w - (i - 1)) = w + 1
        BY <1>2, <3>3
      <4> QED BY <2>5, <3>1, <3>3, <4>1
    <3> QED BY <3>2, <3>3
  <2> QED BY <2>9, <2>10
<1>5. LatarKurang(l, m, i, k, n)
  BY <1>2, <1>3, <1>4 DEF LatarKurang
<1>6. Cardinality(Pasangan(l, b, t, j, o)) =
          Cardinality(Pasangan(k, b, t, j, o)) +
              (IF l[i].jenis = t THEN Cardinality(Sebagian(b, l[i].baris, j, o)) ELSE 0)
  BY <1>2, <1>5, PasanganKurang
<1> QED BY <1>1, <1>6

\* The counter and the rows of one owner agree, or the counter says less.
Lurus(h, l, b, s, j, o) ==
    Kiri(h, l, b, j, o) <= Kanan(l, b, j, o) /\ (s => Kiri(h, l, b, j, o) = Kanan(l, b, j, o))

LEMMA HitungInvArti ==
    /\ HitungInv <=> (~gangguan => \A j \in Jenis, o \in Pemilik : Lurus(hitung, latar, baris, tertib, j, o))
    /\ HitungInv' <=> (~gangguan' => \A j \in Jenis, o \in Pemilik : Lurus(hitung', latar', baris', tertib', j, o))
BY DEF HitungInv, Lurus

\* Rows at the end, with the goroutine that will count them.
LEMMA TambahSebagian ==
    ASSUME Inv, NEW j \in Jenis, NEW o \in Pemilik, NEW n \in Nat,
           baris' = baris \o BarisBaru(j, o, n), NEW a, NEW b
    PROVE  /\ SamaPemilik(baris, Len(baris), baris', Len(baris')) /\ Len(baris') = Len(baris) + n
           /\ Len(baris') \in Nat
           /\ Cardinality(Sebagian(baris', Len(baris) + 1 .. Len(baris) + n, a, b)) =
                  IF a = j /\ b = o THEN n ELSE 0
<1> DEFINE N == Len(baris) + 1 .. Len(baris) + n
<1>1. Len(baris) \in Nat /\ kunci \in Nat /\ DOMAIN baris = 1 .. Len(baris)
  BY BarisDomain DEF Inv, TypeInv
<1>2. /\ DOMAIN baris' = 1 .. Len(baris) + n /\ Len(baris') = Len(baris) + n
      /\ \A i \in DOMAIN baris : baris'[i] = baris[i]
      /\ \A i \in (DOMAIN baris') \ (DOMAIN baris) :
            baris'[i] = [jenis |-> j, pemilik |-> o, kunci |-> kunci + (i - Len(baris)), ada |-> TRUE]
  <2> DEFINE k == kunci + n
  <2>1. k \in Nat /\ kunci + n <= k
    BY <1>1
  <2> HIDE DEF k
  <2> QED BY <2>1, BarisTambah DEF Inv
<1>3. SamaPemilik(baris, Len(baris), baris', Len(baris')) /\ Len(baris') \in Nat
  BY <1>1, <1>2 DEF SamaPemilik
<1>4. ASSUME NEW i \in N
      PROVE  baris'[i].jenis = j /\ baris'[i].pemilik = o
  <2>1. i \in (DOMAIN baris') \ (DOMAIN baris)
    BY <1>1, <1>2
  <2>2. baris'[i] = [jenis |-> j, pemilik |-> o, kunci |-> kunci + (i - Len(baris)), ada |-> TRUE]
    BY <1>2, <2>1
  <2> QED BY <2>2
<1>5. Cardinality(N) = n
  <2>1. Len(baris) + 1 \in Int /\ Len(baris) + n \in Int
    BY <1>1
  <2>2. Cardinality(N) = IF Len(baris) + 1 > Len(baris) + n THEN 0 ELSE Len(baris) + n - (Len(baris) + 1) + 1
    BY <2>1, FS_Interval
  <2> QED BY <1>1, <2>2
<1> HIDE DEF N
<1>6. CASE a = j /\ b = o
  <2>1. Sebagian(baris', N, a, b) = N
    BY <1>4, <1>6 DEF Sebagian
  <2> QED BY <1>2, <1>3, <1>5, <1>6, <2>1 DEF N
<1>7. CASE ~(a = j /\ b = o)
  <2>1. Sebagian(baris', N, a, b) = {}
    BY <1>4, <1>7 DEF Sebagian
  <2> QED BY <1>2, <1>3, <1>7, <2>1, FS_EmptySet DEF N
<1> QED BY <1>6, <1>7

\* A goroutine more does not matter to those of another kind,
LEMMA MenungguTetap ==
    ASSUME Inv, NEW k, NEW c, NEW q \in Nat, SamaPemilik(baris, Len(baris), c, q),
           NEW jenis, NEW S, LatarBaru(latar, k, jenis, S, q), NEW t,
           NEW j \in Jenis, NEW o \in Pemilik
    PROVE  t # jenis => Cardinality(Pasangan(k, c, t, j, o)) = Cardinality(Pasangan(latar, baris, t, j, o))
<1>1. Cardinality(Pasangan(k, c, t, j, o)) =
          Cardinality(Pasangan(latar, baris, t, j, o)) +
              (IF jenis = t THEN Cardinality(Sebagian(c, S, j, o)) ELSE 0)
  BY MenungguTambah
<1>2. PICK x \in Nat : x = Cardinality(Pasangan(latar, baris, t, j, o))
  BY HitungTipe
<1>3. t # jenis => Cardinality(Pasangan(k, c, t, j, o)) = x + 0
  BY <1>1, <1>2
<1> QED BY <1>2, <1>3

\* and is more to wait for in its own.
LEMMA MenungguNaik ==
    ASSUME Inv, NEW k, NEW c, NEW q \in Nat, SamaPemilik(baris, Len(baris), c, q),
           NEW S, NEW t, LatarBaru(latar, k, t, S, q), NEW j, NEW o
    PROVE  Cardinality(Pasangan(k, c, t, j, o)) =
               Cardinality(Pasangan(latar, baris, t, j, o)) + Cardinality(Sebagian(c, S, j, o))
<1>1. Cardinality(Pasangan(k, c, t, j, o)) =
          Cardinality(Pasangan(latar, baris, t, j, o)) +
              (IF t = t THEN Cardinality(Sebagian(c, S, j, o)) ELSE 0)
  BY MenungguTambah
<1> QED BY <1>1

\* Both, for a goroutine that starts.
LEMMA MenungguMulai ==
    ASSUME Inv, Len(baris') \in Nat, SamaPemilik(baris, Len(baris), baris', Len(baris')),
           NEW jenis, NEW S, LatarBaru(latar, latar', jenis, S, Len(baris')),
           NEW j \in Jenis, NEW o \in Pemilik
    PROVE  /\ \A t : t # jenis =>
                 Cardinality(Pasangan(latar', baris', t, j, o)) = Cardinality(Pasangan(latar, baris, t, j, o))
           /\ Cardinality(Pasangan(latar', baris', jenis, j, o)) =
                  Cardinality(Pasangan(latar, baris, jenis, j, o)) + Cardinality(Sebagian(baris', S, j, o))
<1>1. PICK k, c : k = latar' /\ c = baris'
  OBVIOUS
<1>2. PICK q \in Nat : q = Len(baris')
  OBVIOUS
<1>3. SamaPemilik(baris, Len(baris), c, q) /\ LatarBaru(latar, k, jenis, S, q)
  BY <1>1, <1>2
<1>4. ASSUME NEW t, t # jenis
      PROVE  Cardinality(Pasangan(k, c, t, j, o)) = Cardinality(Pasangan(latar, baris, t, j, o))
  BY <1>3, <1>4, MenungguTetap
<1>5. Cardinality(Pasangan(k, c, jenis, j, o)) =
          Cardinality(Pasangan(latar, baris, jenis, j, o)) + Cardinality(Sebagian(c, S, j, o))
  BY <1>3, MenungguNaik
<1> QED BY <1>1, <1>4, <1>5

LEMMA HitungTambah ==
    ASSUME Inv, NEW a \in Jenis, NEW b \in Pemilik, NEW n \in Nat,
           baris' = baris \o BarisBaru(a, b, n), Jalankan("buat", Len(baris) + 1 .. Len(baris) + n),
           UNCHANGED hitung, NEW s, NEW j \in Jenis, NEW o \in Pemilik, Lurus(hitung, latar, baris, s, j, o)
    PROVE  Lurus(hitung', latar', baris', s, j, o)
<1>1. PICK S : S = Len(baris) + 1 .. Len(baris) + n
  OBVIOUS
<1>2. PICK c : c = IF j = a /\ o = b THEN n ELSE 0
  OBVIOUS
<1>3. c \in Nat
  BY <1>2
<1>4. /\ SamaPemilik(baris, Len(baris), baris', Len(baris')) /\ Len(baris') = Len(baris) + n
      /\ Len(baris') \in Nat
  BY TambahSebagian
<1>5. Cardinality(Sebagian(baris', S, j, o)) = c
  <2>1. Cardinality(Sebagian(baris', Len(baris) + 1 .. Len(baris) + n, j, o)) =
            IF j = a /\ o = b THEN n ELSE 0
    BY TambahSebagian
  <2> QED BY <1>1, <1>2, <2>1
<1>6. Cardinality(Milik(baris', j, o)) = Cardinality(Milik(baris, j, o)) + c
  <2>1. Cardinality(Milik(baris', j, o)) =
            Cardinality(Milik(baris, j, o)) + (IF j = a /\ o = b THEN n ELSE 0)
    BY TambahMilik
  <2> QED BY <1>2, <2>1
<1>7. S \subseteq 1 .. Len(baris') /\ Jalankan("buat", S)
  BY <1>1, <1>4, BarisDomain DEF Inv
<1>8. PICK t, u : t = "buat" /\ u = "hapus"
  OBVIOUS
<1>9. LatarBaru(latar, latar', t, S, Len(baris')) /\ u # t
  BY <1>7, <1>8, JalankanArti
<1>10. PICK x \in Nat, y \in Nat : /\ x = Cardinality(Pasangan(latar, baris, t, j, o))
                                   /\ y = Cardinality(Pasangan(latar, baris, u, j, o))
  BY HitungTipe
<1>11. PICK h \in Int, m \in Nat : h = hitung[<<j, o>>] /\ m = Cardinality(Milik(baris, j, o))
  BY HitungTipe
<1>12. Cardinality(Pasangan(latar', baris', t, j, o)) = x + c
  BY <1>4, <1>5, <1>7, <1>9, <1>10, MenungguMulai
<1>13. Cardinality(Pasangan(latar', baris', u, j, o)) = y
  BY <1>4, <1>7, <1>9, <1>10, MenungguMulai
<1>14. h + x <= m + y /\ (s => h + x = m + y)
  BY <1>8, <1>10, <1>11 DEF Lurus, Kiri, Kanan
<1>15. h + (x + c) <= (m + c) + y /\ (s => h + (x + c) = (m + c) + y)
  <2>1. (h + (x + c)) - (h + x) = ((m + c) + y) - (m + y)
    BY <1>3
  <2> QED BY <1>3, <1>14, <2>1
<1>16. hitung'[<<j, o>>] = h /\ Cardinality(Milik(baris', j, o)) = m + c
  BY <1>6, <1>11
<1> QED BY <1>8, <1>12, <1>13, <1>15, <1>16 DEF Lurus, Kiri, Kanan

\* A row that changes leaves the counter and what is to come as they are.
LEMMA HitungUbah ==
    ASSUME Inv, Len(baris') = Len(baris), SamaPemilik(baris, Len(baris), baris', Len(baris')),
           NEW x \in 1 .. Len(baris), Jalankan("ubah", {x}), UNCHANGED hitung, NEW s,
           NEW j \in Jenis, NEW o \in Pemilik, Milik(baris', j, o) = Milik(baris, j, o),
           Lurus(hitung, latar, baris, s, j, o)
    PROVE  Lurus(hitung', latar', baris', s, j, o)
<1>1. PICK S : S = {x}
  OBVIOUS
<1>2. S \subseteq 1 .. Len(baris') /\ Len(baris') \in Nat
  BY <1>1, BarisDomain DEF Inv
<1>3. PICK t, u, v : t = "buat" /\ u = "hapus" /\ v = "ubah"
  OBVIOUS
<1>4. LatarBaru(latar, latar', v, S, Len(baris')) /\ t # v /\ u # v
  BY <1>1, <1>2, <1>3, JalankanArti
<1>5. Cardinality(Pasangan(latar', baris', t, j, o)) = Cardinality(Pasangan(latar, baris, t, j, o))
  BY <1>2, <1>4, MenungguMulai
<1>6. Cardinality(Pasangan(latar', baris', u, j, o)) = Cardinality(Pasangan(latar, baris, u, j, o))
  BY <1>2, <1>4, MenungguMulai
<1>7. /\ Kiri(hitung', latar', baris', j, o) = Kiri(hitung, latar, baris, j, o)
      /\ Kanan(latar', baris', j, o) = Kanan(latar, baris, j, o)
  BY <1>3, <1>5, <1>6 DEF Kiri, Kanan
<1> QED BY <1>7 DEF Lurus

\* Rows that are deleted, by ids some of which may be gone unless s.
LEMMA HitungHapus ==
    ASSUME Inv, NEW p \in Proses, HapusTulis(p), NEW s,
           s => \A i \in proses[p].pilih : baris[i].ada,
           NEW j \in Jenis, NEW o \in Pemilik, Lurus(hitung, latar, baris, s, j, o)
    PROVE  Lurus(hitung', latar', baris', s, j, o)
<1>1. PICK S : S = proses[p].pilih
  OBVIOUS
<1>2. S \subseteq 1 .. Len(baris) /\ Len(baris) \in Nat /\ DOMAIN baris = 1 .. Len(baris)
  BY <1>1, BarisDomain DEF Inv, TypeInv, TipeProses
<1>3. /\ Milik(baris', j, o) = Milik(baris, j, o) \ S
      /\ \A i \in DOMAIN baris : baris'[i].jenis = baris[i].jenis /\ baris'[i].pemilik = baris[i].pemilik
      /\ Jalankan("hapus", S) /\ UNCHANGED hitung
  BY <1>1, HapusMilik DEF HapusTulis
<1>4. DOMAIN baris' = DOMAIN baris /\ Len(baris') = Len(baris)
  <2>1. baris' = [i \in DOMAIN baris |-> IF i \in S THEN [baris[i] EXCEPT !.ada = FALSE] ELSE baris[i]]
    BY <1>1 DEF HapusTulis
  <2>2. DOMAIN baris' = DOMAIN baris
    BY <2>1
  <2>3. Inv'
    BY HapusTulisInv
  <2>4. DOMAIN baris' = 1 .. Len(baris') /\ Len(baris') \in Nat
    BY <2>3 DEF Inv, TypeInv
  <2> QED BY <1>2, <2>2, <2>4
<1>5. SamaPemilik(baris, Len(baris), baris', Len(baris')) /\ Len(baris') \in Nat /\ S \subseteq 1 .. Len(baris')
  BY <1>2, <1>3, <1>4 DEF SamaPemilik
<1> DEFINE P == Sebagian(baris, S, j, o)
           M == Milik(baris, j, o)
<1>6. Sebagian(baris', S, j, o) = P
  BY <1>2, <1>3 DEF Sebagian
<1>7. M \cap S \subseteq P /\ (s => M \cap S = P)
  BY <1>1, <1>2 DEF Milik, Sebagian
<1>8. P \subseteq DOMAIN baris /\ M \subseteq DOMAIN baris
  BY <1>2 DEF Milik, Sebagian
<1>9. IsFiniteSet(P) /\ IsFiniteSet(M) /\ Cardinality(P) \in Nat /\ Cardinality(M) \in Nat
  BY <1>8, BarisHingga
<1> HIDE DEF P, M
<1>10. Cardinality(M \ S) = Cardinality(M) - Cardinality(M \cap S)
  BY <1>9, FS_Difference
<1>11. Cardinality(M \cap S) <= Cardinality(P) /\ Cardinality(M \cap S) \in Nat
       /\ (s => Cardinality(M \cap S) = Cardinality(P))
  BY <1>7, <1>9, FS_Subset, FS_CardinalityType
<1>12. PICK t, u : t = "buat" /\ u = "hapus"
  OBVIOUS
<1>13. LatarBaru(latar, latar', u, S, Len(baris')) /\ t # u
  BY <1>3, <1>5, <1>12, JalankanArti
<1>14. PICK x \in Nat, y \in Nat : /\ x = Cardinality(Pasangan(latar, baris, t, j, o))
                                   /\ y = Cardinality(Pasangan(latar, baris, u, j, o))
  BY HitungTipe
<1>15. PICK h \in Int : h = hitung[<<j, o>>]
  BY HitungTipe
<1>16. PICK c \in Nat, d \in Nat, m \in Nat : /\ c = Cardinality(P) /\ d = Cardinality(M \cap S)
                                              /\ m = Cardinality(M)
  BY <1>9, <1>11
<1>17. Cardinality(Pasangan(latar', baris', t, j, o)) = x
  BY <1>5, <1>13, <1>14, MenungguMulai
<1>18. Cardinality(Pasangan(latar', baris', u, j, o)) = y + c
  <2>1. Cardinality(Sebagian(baris', S, j, o)) = c
    BY <1>6, <1>16
  <2> QED BY <1>5, <1>13, <1>14, <2>1, MenungguMulai
<1>19. Cardinality(Milik(baris', j, o)) = m - d
  BY <1>3, <1>10, <1>16 DEF M
<1>20. d <= c /\ (s => d = c)
  BY <1>11, <1>16
<1>21. h + x <= m + y /\ (s => h + x = m + y)
  BY <1>12, <1>14, <1>15, <1>16 DEF Lurus, Kiri, Kanan, M
<1>22. h + x <= (m - d) + (y + c) /\ (s => h + x = (m - d) + (y + c))
  <2>1. (m - d) + (y + c) = (m + y) + (c - d)
    OBVIOUS
  <2> QED BY <1>20, <1>21, <2>1
<1>23. hitung'[<<j, o>>] = h
  BY <1>3, <1>15
<1> QED BY <1>12, <1>17, <1>18, <1>19, <1>22, <1>23 DEF Lurus, Kiri, Kanan

\* What a goroutine adds to the counter of an owner.
LEMMA HitunganNilai ==
    ASSUME Inv, NEW S, S \subseteq 1 .. Len(baris), NEW n \in Int, NEW j \in Jenis, NEW o \in Pemilik
    PROVE  Hitungan(S, n)[<<j, o>>] = hitung[<<j, o>>] + n * Cardinality(Sebagian(baris, S, j, o))
<1>1. <<j, o>> \in DOMAIN hitung
  BY DEF Inv, TypeInv
<1>2. {i \in S : <<baris[i].jenis, baris[i].pemilik>> = <<j, o>>} = Sebagian(baris, S, j, o)
  BY DEF Sebagian
<1>3. Hitungan(S, n)[<<j, o>>] =
          hitung[<<j, o>>] + n * Cardinality({i \in S : <<baris[i].jenis, baris[i].pemilik>> = <<j, o>>})
  BY <1>1 DEF Hitungan
<1> QED BY <1>2, <1>3

\* A goroutine that ends is one to wait for less, of its kind.
LEMMA MenungguSelesai ==
    ASSUME Inv, NEW i \in DOMAIN latar, latar' = Sisa(i), UNCHANGED baris, NEW j \in Jenis, NEW o \in Pemilik
    PROVE  /\ \A t : Cardinality(Pasangan(latar', baris', t, j, o)) \in Nat
           /\ \A t : t # latar[i].jenis =>
                  Cardinality(Pasangan(latar', baris', t, j, o)) = Cardinality(Pasangan(latar, baris, t, j, o))
           /\ \A t : t = latar[i].jenis =>
                  Cardinality(Pasangan(latar, baris, t, j, o)) =
                      Cardinality(Pasangan(latar', baris', t, j, o))
                          + Cardinality(Sebagian(baris, latar[i].baris, j, o))
<1>1. PICK m \in Nat, n \in Nat : latar' \in Seq(TipeLatar(n)) /\ n = Len(baris) /\ DOMAIN baris = 1 .. n
  BY SisaTipe, BarisDomain DEF Inv
<1>2. ASSUME NEW t
      PROVE  Cardinality(Pasangan(latar', baris', t, j, o)) \in Nat
  <2>1. PICK k, c : k = latar' /\ c = baris'
    OBVIOUS
  <2>2. PICK x \in Nat : DOMAIN k = 1 .. x
    BY <1>1, <2>1
  <2>3. DOMAIN c = 1 .. n
    BY <1>1, <2>1
  <2>4. Cardinality(Pasangan(k, c, t, j, o)) \in Nat
    BY <2>2, <2>3, PasanganHingga
  <2> QED BY <2>1, <2>4
<1>3. ASSUME NEW t
      PROVE  Cardinality(Pasangan(latar, baris, t, j, o)) =
                 Cardinality(Pasangan(latar', baris', t, j, o)) +
                     (IF latar[i].jenis = t THEN Cardinality(Sebagian(baris, latar[i].baris, j, o)) ELSE 0)
  BY MenungguKurang
<1>4. ASSUME NEW t, t # latar[i].jenis
      PROVE  Cardinality(Pasangan(latar', baris', t, j, o)) = Cardinality(Pasangan(latar, baris, t, j, o))
  <2>1. PICK x \in Nat : x = Cardinality(Pasangan(latar', baris', t, j, o))
    BY <1>2
  <2>2. Cardinality(Pasangan(latar, baris, t, j, o)) = x + 0
    BY <1>3, <1>4, <2>1
  <2> QED BY <2>1, <2>2
<1>5. ASSUME NEW t, t = latar[i].jenis
      PROVE  Cardinality(Pasangan(latar, baris, t, j, o)) =
                      Cardinality(Pasangan(latar', baris', t, j, o))
                          + Cardinality(Sebagian(baris, latar[i].baris, j, o))
  BY <1>3, <1>5
<1> QED BY <1>2, <1>4, <1>5

\* A goroutine that ends changes the counter by as much.
LEMMA HitungLatar ==
    ASSUME Inv, NEW i \in DOMAIN latar, LatarBuat(i) \/ Ubah(i) \/ Hapus(i), NEW s,
           NEW j \in Jenis, NEW o \in Pemilik, Lurus(hitung, latar, baris, s, j, o)
    PROVE  Lurus(hitung', latar', baris', s, j, o)
<1>1. latar' = Sisa(i) /\ UNCHANGED baris
  BY DEF LatarBuat, Ubah, LatarUbah, Hapus, LatarHapus, Ambil
<1>2. PICK S : S = latar[i].baris
  OBVIOUS
<1>3. S \subseteq 1 .. Len(baris)
  BY <1>2, LatarTipe
<1>4. PICK t, u, v : t = "buat" /\ u = "hapus" /\ v = latar[i].jenis
  OBVIOUS
<1>5. PICK x \in Nat, y \in Nat : /\ x = Cardinality(Pasangan(latar', baris', t, j, o))
                                  /\ y = Cardinality(Pasangan(latar', baris', u, j, o))
  BY <1>1, MenungguSelesai
<1>6. PICK h \in Int, m \in Nat : h = hitung[<<j, o>>] /\ m = Cardinality(Milik(baris, j, o))
  BY HitungTipe
<1>7. PICK c \in Nat : c = Cardinality(Sebagian(baris, S, j, o))
  <2>1. Sebagian(baris, S, j, o) \subseteq DOMAIN baris
    BY <1>3, BarisDomain DEF Sebagian, Inv
  <2> QED BY <2>1, BarisHingga
<1>8. Cardinality(Milik(baris', j, o)) = m
  BY <1>1, <1>6
<1>9. CASE LatarBuat(i)
  <2>1. v = t /\ v # u /\ hitung' = Hitungan(S, 1)
    BY <1>2, <1>4, <1>9 DEF LatarBuat, Ambil
  <2>2. hitung'[<<j, o>>] = h + c
    <3>1. 1 \in Int
      OBVIOUS
    <3>2. hitung'[<<j, o>>] = h + 1 * c
      BY <1>3, <1>6, <1>7, <2>1, <3>1, HitunganNilai
    <3> QED BY <3>2
  <2>3. Cardinality(Pasangan(latar, baris, t, j, o)) = x + c
    BY <1>1, <1>2, <1>4, <1>5, <1>7, <2>1, MenungguSelesai
  <2>4. Cardinality(Pasangan(latar, baris, u, j, o)) = y
    BY <1>1, <1>4, <1>5, <2>1, MenungguSelesai
  <2>5. h + (x + c) <= m + y /\ (s => h + (x + c) = m + y)
    BY <1>4, <1>6, <2>3, <2>4 DEF Lurus, Kiri, Kanan
  <2>6. (h + c) + x <= m + y /\ (s => (h + c) + x = m + y)
    <3>1. (h + c) + x = h + (x + c)
      OBVIOUS
    <3> QED BY <2>5, <3>1
  <2> QED BY <1>4, <1>5, <1>8, <2>2, <2>6 DEF Lurus, Kiri, Kanan
<1>10. CASE Ubah(i)
  <2>1. v # t /\ v # u /\ hitung' = hitung
    BY <1>4, <1>10 DEF Ubah, LatarUbah, Ambil
  <2>2. Cardinality(Pasangan(latar, baris, t, j, o)) = x
    BY <1>1, <1>4, <1>5, <2>1, MenungguSelesai
  <2>3. Cardinality(Pasangan(latar, baris, u, j, o)) = y
    BY <1>1, <1>4, <1>5, <2>1, MenungguSelesai
  <2>4. h + x <= m + y /\ (s => h + x = m + y)
    BY <1>4, <1>6, <2>2, <2>3 DEF Lurus, Kiri, Kanan
  <2>5. hitung'[<<j, o>>] = h
    BY <1>6, <2>1
  <2> QED BY <1>4, <1>5, <1>8, <2>4, <2>5 DEF Lurus, Kiri, Kanan
<1>11. CASE Hapus(i)
  <2>1. v = u /\ v # t /\ hitung' = Hitungan(S, -1)
    BY <1>2, <1>4, <1>11 DEF Hapus, LatarHapus, Ambil
  <2>2. hitung'[<<j, o>>] = h - c
    <3>1. -1 \in Int
      OBVIOUS
    <3>2. hitung'[<<j, o>>] = h + (-1) * c
      BY <1>3, <1>6, <1>7, <2>1, <3>1, HitunganNilai
    <3>3. h + (-1) * c = h - c
      OBVIOUS
    <3> QED BY <3>2, <3>3
  <2>3. Cardinality(Pasangan(latar, baris, t, j, o)) = x
    BY <1>1, <1>4, <1>5, <2>1, MenungguSelesai
  <2>4. Cardinality(Pasangan(latar, baris, u, j, o)) = y + c
    BY <1>1, <1>2, <1>4, <1>5, <1>7, <2>1, MenungguSelesai
  <2>5. h + x <= m + (y + c) /\ (s => h + x = m + (y + c))
    BY <1>4, <1>6, <2>3, <2>4 DEF Lurus, Kiri, Kanan
  <2>6. (h - c) + x <= m + y /\ (s => (h - c) + x = m + y)
    <3>1. (h - c) + x = (h + x) - c /\ (m + (y + c)) - c = m + y
      OBVIOUS
    <3> QED BY <2>5, <3>1
  <2> QED BY <1>4, <1>5, <1>8, <2>2, <2>6 DEF Lurus, Kiri, Kanan
<1> QED BY <1>9, <1>10, <1>11

\* A request that writes.
LEMMA HitungTulis ==
    ASSUME Inv, InvTertib, NEW p \in Proses, GantiTulis(p) \/ TambahTulis(p) \/ HapusTulis(p), NEW s,
           s => tertib, NEW j \in Jenis, NEW o \in Pemilik, Lurus(hitung, latar, baris, s, j, o)
    PROVE  Lurus(hitung', latar', baris', s, j, o)
<1>0. UNCHANGED hitung
  BY DEF GantiTulis, TambahTulis, HapusTulis
<1>1. CASE GantiTulis(p)
  <2>1. PICK a \in Jenis, b \in Pemilik : a = proses[p].jenis /\ b = proses[p].pemilik
    BY <1>1, GantiTulisBaris
  <2>2. CASE proses[p].id = 0
    <3>1. /\ baris' = baris \o BarisBaru(a, b, 1)
          /\ Jalankan("buat", {Len(baris')}) /\ Len(baris') = Len(baris) + 1
      BY <1>1, <2>1, <2>2, GantiTulisBaris
    <3>2. Len(baris) \in Nat
      BY BarisDomain DEF Inv
    <3>3. {Len(baris')} = Len(baris) + 1 .. Len(baris) + 1
      BY <3>1, <3>2
    <3>4. PICK n \in Nat : n = 1
      OBVIOUS
    <3>5. baris' = baris \o BarisBaru(a, b, n) /\ Jalankan("buat", Len(baris) + 1 .. Len(baris) + n)
      BY <3>1, <3>3, <3>4
    <3> QED BY <1>0, <3>5, HitungTambah
  <2>3. CASE proses[p].id # 0
    <3>1. PICK x : x = proses[p].id
      OBVIOUS
    <3>2. /\ Jalankan("ubah", {x})
          /\ IF BarisAda(x) THEN baris' = [baris EXCEPT ![x].kunci = kunci'] ELSE baris' = baris
          /\ Milik(baris', j, o) = Milik(baris, j, o)
      BY <1>1, <2>3, <3>1, GantiTulisBaris
    <3>3. x \in 1 .. Len(baris) /\ DOMAIN baris = 1 .. Len(baris) /\ Len(baris) \in Nat
      <4>1. DOMAIN baris = 1 .. Len(baris) /\ Len(baris) \in Nat
        BY BarisDomain DEF Inv
      <4>2. proses[p] \in TipeProses(Len(baris), kunci)
        BY DEF Inv, TypeInv
      <4>3. x \in 0 .. Len(baris) /\ x # 0
        BY <2>3, <3>1, <4>2 DEF TipeProses
      <4> QED BY <4>1, <4>3
    <3>4. /\ DOMAIN baris' = DOMAIN baris
          /\ \A i \in DOMAIN baris : baris'[i].jenis = baris[i].jenis /\ baris'[i].pemilik = baris[i].pemilik
      <4>1. CASE BarisAda(x)
        <5>1. baris' = [baris EXCEPT ![x].kunci = kunci']
          BY <3>2, <4>1
        <5>2. DOMAIN baris' = DOMAIN baris
          BY <5>1
        <5>3. ASSUME NEW i \in DOMAIN baris
              PROVE  baris'[i].jenis = baris[i].jenis /\ baris'[i].pemilik = baris[i].pemilik
          <6>1. baris[i] \in TipeBaris(kunci)
            BY BarisTipe
          <6>2. baris'[i] = IF i = x THEN [baris[i] EXCEPT !.kunci = kunci'] ELSE baris[i]
            BY <3>3, <5>1
          <6> QED BY <6>1, <6>2 DEF TipeBaris
        <5> QED BY <5>2, <5>3
      <4>2. CASE ~BarisAda(x)
        BY <3>2, <4>2
      <4> QED BY <4>1, <4>2
    <3>5. Inv'
      BY <1>1, GantiTulisInv
    <3>6. DOMAIN baris' = 1 .. Len(baris') /\ Len(baris') \in Nat
      BY <3>5 DEF Inv, TypeInv
    <3>7. Len(baris') = Len(baris)
      BY <3>3, <3>4, <3>6
    <3>8. SamaPemilik(baris, Len(baris), baris', Len(baris'))
      BY <3>3, <3>4, <3>7 DEF SamaPemilik
    <3> QED BY <1>0, <3>2, <3>3, <3>7, <3>8, HitungUbah
  <2> QED BY <2>2, <2>3
<1>2. CASE TambahTulis(p)
  <2>1. PICK a \in Jenis, b \in Pemilik, n \in Nat :
            a = proses[p].jenis /\ b = proses[p].pemilik /\ n = proses[p].jumlah
    BY <1>2, TambahTulisBaris
  <2>2. /\ baris' = baris \o BarisBaru(a, b, n)
        /\ Jalankan("buat", Len(baris) + 1 .. Len(baris) + n)
    BY <1>2, <2>1, TambahTulisBaris
  <2> QED BY <1>0, <2>2, HitungTambah
<1>3. CASE HapusTulis(p)
  <2>1. s => \A i \in proses[p].pilih : baris[i].ada
    <3>1. proses[p].tahap = "hapus"
      BY <1>3 DEF HapusTulis
    <3> QED BY <3>1 DEF InvTertib, Segar
  <2> QED BY <1>3, <2>1, HitungHapus
<1> QED BY <1>1, <1>2, <1>3

LEMMA HitungLangkah ==
    ASSUME Inv, InvTertib, HitungInv, [Next]_vars
    PROVE  HitungInv'
<1>0. UNCHANGED <<tertib, gangguan>>
  BY DEF Next, vars, keadaan
<1> SUFFICES ASSUME ~gangguan, NEW j \in Jenis, NEW o \in Pemilik
             PROVE  Lurus(hitung', latar', baris', tertib, j, o)
  BY <1>0, HitungInvArti
<1>1. Lurus(hitung, latar, baris, tertib, j, o)
  BY HitungInvArti
<1>2. ASSUME NEW p \in Proses, GantiTulis(p) \/ TambahTulis(p) \/ HapusTulis(p)
      PROVE  Lurus(hitung', latar', baris', tertib, j, o)
  BY <1>1, <1>2, HitungTulis
<1>3. ASSUME NEW i \in DOMAIN latar, LatarBuat(i) \/ Ubah(i) \/ Hapus(i) \/ LatarGagal(i)
      PROVE  Lurus(hitung', latar', baris', tertib, j, o)
  BY <1>1, <1>3, HitungLatar DEF LatarGagal
<1>4. CASE UNCHANGED <<hitung, latar, baris>>
  BY <1>1, <1>4
<1>5. ASSUME NEW p \in Proses, PermintaanSeller(p) \/ PermintaanKurir(p) \/ PermintaanPengguna(p)
      PROVE  UNCHANGED <<hitung, latar, baris>>
  BY <1>5, MintaSeller, MintaKurir, MintaPengguna DEF Minta, Mulai
<1>6. \A p \in Proses : Buang(p) => UNCHANGED <<hitung, latar, baris>>
  BY DEF Buang
<1>7. \A p \in Proses : ~Putus(p)
  BY DEF Putus
<1>8. Klien => UNCHANGED <<hitung, latar, baris>>
  BY DEF Klien, Unggah, Kedaluwarsa
<1>9. UNCHANGED vars => UNCHANGED <<hitung, latar, baris>>
  BY DEF vars
<1> QED BY <1>2, <1>3, <1>4, <1>5, <1>6, <1>7, <1>8, <1>9 DEF Next, Langkah

\* While no step fails, a counter says at most what the rows and the goroutines still to come
\* explain, in whatever order requests and goroutines run; and for an owner who waits for
\* each answer it says, once nothing runs, how many rows there are.
THEOREM HitungTepat == Spec => []HitungBenar
<1>1. Init => HitungInv
  <2> SUFFICES ASSUME Init, NEW j \in Jenis, NEW o \in Pemilik
               PROVE  Lurus(hitung, latar, baris, tertib, j, o)
    BY HitungInvArti
  <2>1. hitung[<<j, o>>] = 0 /\ latar = << >> /\ baris = << >>
    BY DEF Init
  <2>2. Milik(baris, j, o) = {} /\ \A t : Pasangan(latar, baris, t, j, o) = {}
    BY <2>1 DEF Milik, Pasangan
  <2>3. Cardinality({}) = 0
    BY FS_EmptySet
  <2>4. Kiri(hitung, latar, baris, j, o) = 0 + 0 /\ Kanan(latar, baris, j, o) = 0 + 0
    BY <2>1, <2>2, <2>3 DEF Kiri, Kanan
  <2> QED BY <2>4 DEF Lurus
<1>2. Inv /\ InvTertib /\ HitungInv /\ [Next]_vars => HitungInv'
  BY HitungLangkah
<1>3. Inv /\ HitungInv => HitungBenar
  BY HitungArti
<1> QED BY <1>1, <1>2, <1>3, InvTertibSelalu, PTL DEF Spec

-----------------------------------------------------------------------------
(* The followers of the events.                                             *)

\* What the events told of row i is true of the table b.
Tepat(c, b, i) ==
    /\ \A s \in c : s[1] = i => b[i].ada /\ s[2] = b[i].kunci
    /\ b[i].ada => <<i, b[i].kunci>> \in c

\* The rows whose events are about them, and those a goroutine is still to tell of.
Diikuti(b, i) == b[i].jenis \notin {"etalase", "profil"}
Dikabari(l, i) == \E w \in DOMAIN l : i \in l[w].baris

\* What a goroutine will tell is true.
Benar(b, jenis, S) ==
    /\ jenis \in {"buat", "ubah"} => \A i \in S : b[i].ada
    /\ jenis = "hapus" => \A i \in S : ~b[i].ada

\* There is one goroutine at most; what it will tell is true, and what was told of all other
\* rows is.
SalinanSegar(c, b, l) ==
    /\ DOMAIN l \subseteq {1}
    /\ \A w \in DOMAIN l : Benar(b, l[w].jenis, l[w].baris)
    /\ \A i \in DOMAIN b : Diikuti(b, i) /\ ~Dikabari(l, i) => Tepat(c, b, i)

SalinanInv == tertib /\ ~gangguan => SalinanSegar(salinan, baris, latar)

LEMMA SalinanArti ==
    ASSUME Inv, SalinanInv
    PROVE  SalinanTertib
<1> SUFFICES ASSUME tertib, ~gangguan, Tenang
             PROVE  {s \in salinan : baris[s[1]].jenis \in SemuaJenis \ {"etalase", "profil"}} =
                        {<<i, baris[i].kunci>> : i \in {b \in DOMAIN baris :
                            baris[b].ada /\ baris[b].jenis \in SemuaJenis \ {"etalase", "profil"}}}
  BY DEF SalinanTertib, SalinanBenar, SalinanSesuai
<1> DEFINE J == SemuaJenis \ {"etalase", "profil"}
<1>1. \A i \in DOMAIN baris : baris[i].jenis \in J => Tepat(salinan, baris, i)
  BY DEF SalinanInv, SalinanSegar, Diikuti, Dikabari, Tenang
<1> HIDE DEF J
<1>2. \A s \in salinan : s = <<s[1], s[2]>> /\ s[1] \in DOMAIN baris
  BY BarisDomain DEF Inv, TypeInv
<1>3. ASSUME NEW s \in salinan, baris[s[1]].jenis \in J
      PROVE  s[1] \in DOMAIN baris /\ baris[s[1]].ada /\ s = <<s[1], baris[s[1]].kunci>>
  BY <1>1, <1>2, <1>3 DEF Tepat
<1>4. ASSUME NEW i \in DOMAIN baris, baris[i].ada, baris[i].jenis \in J
      PROVE  <<i, baris[i].kunci>> \in salinan
  BY <1>1, <1>4 DEF Tepat
<1>5. {s \in salinan : baris[s[1]].jenis \in J} =
          {<<i, baris[i].kunci>> : i \in {b \in DOMAIN baris : baris[b].ada /\ baris[b].jenis \in J}}
  <2>1. ASSUME NEW s \in salinan, baris[s[1]].jenis \in J
        PROVE  s \in {<<i, baris[i].kunci>> : i \in {b \in DOMAIN baris : baris[b].ada /\ baris[b].jenis \in J}}
    BY <1>3, <2>1
  <2>2. ASSUME NEW i \in DOMAIN baris, baris[i].ada, baris[i].jenis \in J
        PROVE  <<i, baris[i].kunci>> \in {s \in salinan : baris[s[1]].jenis \in J}
    BY <1>4, <2>2
  <2> QED BY <2>1, <2>2
<1> QED BY <1>5 DEF J

\* The goroutine ends: it told of the rows S that they are there, and of the rows T that
\* they are not.
LEMMA SalinanSelesai ==
    ASSUME NEW c, NEW b, NEW l, SalinanSegar(c, b, l), NEW i \in DOMAIN l, NEW d, NEW S, NEW T, NEW m,
           DOMAIN m = {}, d = {s \in c : s[1] \notin T} \cup {<<x, b[x].kunci>> : x \in S},
           \A x \in DOMAIN b : Diikuti(b, x) => (x \in T <=> x \in l[i].baris),
           \A x \in DOMAIN b : Diikuti(b, x) /\ x \in S => x \in T /\ b[x].ada,
           \A x \in DOMAIN b : Diikuti(b, x) /\ x \in T /\ x \notin S => ~b[x].ada
    PROVE  SalinanSegar(d, b, m)
<1>1. \A w \in DOMAIN l : w = i
  BY DEF SalinanSegar
<1>2. ASSUME NEW x \in DOMAIN b, Diikuti(b, x)
      PROVE  Tepat(d, b, x)
  <2>1. CASE x \in T
    <3>1. \A s \in d : s[1] = x => x \in S /\ s = <<x, b[x].kunci>>
      BY <2>1
    <3>2. CASE x \in S
      <4>1. <<x, b[x].kunci>> \in d
        BY <3>2
      <4> QED BY <1>2, <3>1, <3>2, <4>1 DEF Tepat
    <3>3. CASE x \notin S
      BY <1>2, <2>1, <3>1, <3>3 DEF Tepat
    <3> QED BY <3>2, <3>3
  <2>2. CASE x \notin T
    <3>1. x \notin S /\ ~Dikabari(l, x)
      BY <1>1, <1>2, <2>2 DEF Dikabari
    <3>2. Tepat(c, b, x)
      BY <1>2, <3>1 DEF SalinanSegar
    <3>3. \A s \in d : s[1] = x => s \in c
      BY <3>1
    <3>4. \A s \in c : s[1] = x => s \in d
      BY <2>2
    <3>5. <<x, b[x].kunci>>[1] = x
      OBVIOUS
    <3> QED BY <3>2, <3>3, <3>4, <3>5 DEF Tepat
  <2> QED BY <2>1, <2>2
<1> QED BY <1>2 DEF SalinanSegar

\* No goroutine is left when the only one ends.
LEMMA SisaKosong ==
    ASSUME Inv, NEW i \in DOMAIN latar, DOMAIN latar \subseteq {1}
    PROVE  DOMAIN Sisa(i) = {}
<1>1. PICK l, n : l = latar /\ n = Len(baris)
  OBVIOUS
<1> DEFINE T == TipeLatar(n)
<1>2. l \in Seq(T)
  BY <1>1 DEF Inv, TypeInv
<1> HIDE DEF T
<1>3. Len(l) = 1 /\ i = 1
  <2>1. DOMAIN l = 1 .. Len(l) /\ Len(l) \in Nat
    BY <1>2
  <2>2. i = 1 /\ i \in 1 .. Len(l)
    BY <1>1, <2>1
  <2>3. ~(2 \in 1 .. Len(l))
    BY <1>1, <2>1
  <2> QED BY <2>1, <2>2, <2>3
<1>4. SubSeq(l, 1, 0) = << >> /\ SubSeq(l, 2, 1) = << >>
  BY <1>2
<1>5. Sisa(i) = SubSeq(l, 1, 0) \o SubSeq(l, 2, 1)
  BY <1>1, <1>3 DEF Sisa
<1>6. Sisa(i) = << >> \o << >>
  BY <1>4, <1>5
<1> QED BY <1>6

LEMMA SalinanTulis ==
    ASSUME Inv, InvTertib, tertib, SalinanSegar(salinan, baris, latar),
           NEW p \in Proses, GantiTulis(p) \/ TambahTulis(p) \/ HapusTulis(p)
    PROVE  SalinanSegar(salinan', baris', latar')
<1>1. latar = << >> /\ UNCHANGED salinan /\ Segar(baris, proses[p])
  BY DEF InvTertib, Sendiri, Berjalan, GantiTulis, TambahTulis, HapusTulis
<1>2. SalinanSegar(salinan, baris, << >>)
  BY <1>1
<1>3. /\ DOMAIN baris = 1 .. Len(baris) /\ Len(baris) \in Nat
      /\ proses[p] \in TipeProses(Len(baris), kunci)
  BY BarisDomain DEF Inv, TypeInv
<1>4. ASSUME NEW jenis, NEW S, Jalankan(jenis, S), Benar(baris', jenis, S),
             \A i \in (DOMAIN baris') \ S : i \in DOMAIN baris /\ baris'[i] = baris[i]
      PROVE  SalinanSegar(salinan', baris', latar')
  <2>1. PICK l, d, c, b : l = latar' /\ d = baris' /\ c = salinan /\ b = baris
    OBVIOUS
  <2>2. l = Append(<< >>, [jenis |-> jenis, baris |-> S])
    BY <1>1, <1>4, <2>1 DEF Jalankan
  <2>3. PICK k : k = [jenis |-> jenis, baris |-> S]
    OBVIOUS
  <2>4. l = <<k>>
    BY <2>2, <2>3
  <2>5. DOMAIN l = {1} /\ l[1].jenis = jenis /\ l[1].baris = S
    BY <2>3, <2>4
  <2>6. SalinanSegar(c, d, l)
    <3>1. SalinanSegar(c, b, << >>) /\ Benar(d, jenis, S)
      BY <1>2, <1>4, <2>1
    <3>2. \A i \in (DOMAIN d) \ S : i \in DOMAIN b /\ d[i] = b[i]
      BY <1>4, <2>1
    <3>3. \A i \in DOMAIN d : Diikuti(d, i) /\ i \notin S => Tepat(c, d, i)
      <4>1. \A i \in DOMAIN b : Diikuti(b, i) => Tepat(c, b, i)
        BY <3>1 DEF SalinanSegar, Dikabari
      <4> QED BY <3>2, <4>1 DEF Tepat, Diikuti
    <3> QED BY <2>5, <3>1, <3>3 DEF SalinanSegar, Dikabari
  <2> QED BY <1>1, <2>1, <2>6
<1>5. ASSUME NEW j \in Jenis, NEW o \in Pemilik, NEW n \in Nat, baris' = baris \o BarisBaru(j, o, n),
             Jalankan("buat", Len(baris) + 1 .. Len(baris) + n)
      PROVE  SalinanSegar(salinan', baris', latar')
  <2>1. PICK S : S = Len(baris) + 1 .. Len(baris) + n
    OBVIOUS
  <2>2. /\ DOMAIN baris' = 1 .. Len(baris) + n
        /\ \A i \in DOMAIN baris : baris'[i] = baris[i]
        /\ \A i \in (DOMAIN baris') \ (DOMAIN baris) :
              baris'[i] = [jenis |-> j, pemilik |-> o, kunci |-> kunci + (i - Len(baris)), ada |-> TRUE]
    <3> DEFINE k == kunci + n
    <3>1. k \in Nat /\ kunci + n <= k
      BY DEF Inv, TypeInv
    <3> HIDE DEF k
    <3> QED BY <1>5, <3>1, BarisTambah DEF Inv
  <2>3. (DOMAIN baris') \ S = DOMAIN baris /\ S \subseteq (DOMAIN baris') \ (DOMAIN baris)
    BY <1>3, <2>1, <2>2
  <2>4. ASSUME NEW i \in S
        PROVE  baris'[i].ada
    <3>1. baris'[i] = [jenis |-> j, pemilik |-> o, kunci |-> kunci + (i - Len(baris)), ada |-> TRUE]
      BY <2>2, <2>3
    <3> QED BY <3>1
  <2>5. PICK t : t = "buat"
    OBVIOUS
  <2>6. Benar(baris', t, S)
    BY <2>4, <2>5 DEF Benar
  <2>7. Jalankan(t, S)
    BY <1>5, <2>1, <2>5
  <2> QED BY <1>4, <2>2, <2>3, <2>6, <2>7
<1>6. CASE GantiTulis(p)
  <2>1. PICK a \in Jenis, b \in Pemilik : a = proses[p].jenis /\ b = proses[p].pemilik
    BY <1>6, GantiTulisBaris
  <2>2. CASE proses[p].id = 0
    <3>1. /\ baris' = baris \o BarisBaru(a, b, 1)
          /\ Jalankan("buat", {Len(baris')}) /\ Len(baris') = Len(baris) + 1
      BY <1>6, <2>1, <2>2, GantiTulisBaris
    <3>2. {Len(baris')} = Len(baris) + 1 .. Len(baris) + 1
      BY <1>3, <3>1
    <3>3. PICK n \in Nat : n = 1
      OBVIOUS
    <3>4. baris' = baris \o BarisBaru(a, b, n) /\ Jalankan("buat", Len(baris) + 1 .. Len(baris) + n)
      BY <3>1, <3>2, <3>3
    <3> QED BY <1>5, <3>4
  <2>3. CASE proses[p].id # 0
    <3>1. PICK x : x = proses[p].id
      OBVIOUS
    <3>2. x \in Milik(baris, a, b)
      BY <1>1, <1>6, <2>1, <2>3, <3>1 DEF Segar, GantiTulis
    <3>3. x \in DOMAIN baris /\ baris[x].ada
      BY <3>2 DEF Milik
    <3>4. Jalankan("ubah", {x}) /\ baris' = [baris EXCEPT ![x].kunci = kunci']
      BY <1>6, <2>3, <3>1, <3>3, GantiTulisBaris DEF BarisAda
    <3>5. baris'[x].ada
      <4>1. baris[x] \in TipeBaris(kunci)
        BY <3>3, BarisTipe
      <4>2. baris'[x] = [baris[x] EXCEPT !.kunci = kunci']
        BY <3>3, <3>4
      <4> QED BY <3>3, <4>1, <4>2 DEF TipeBaris
    <3>6. DOMAIN baris' = DOMAIN baris /\ \A i \in DOMAIN baris : i # x => baris'[i] = baris[i]
      BY <3>4
    <3>7. PICK t, S : t = "ubah" /\ S = {x}
      OBVIOUS
    <3>8. Jalankan(t, S) /\ Benar(baris', t, S)
      BY <3>4, <3>5, <3>7 DEF Benar
    <3>9. \A i \in (DOMAIN baris') \ S : i \in DOMAIN baris /\ baris'[i] = baris[i]
      BY <3>6, <3>7
    <3> QED BY <1>4, <3>8, <3>9
  <2> QED BY <2>2, <2>3
<1>7. CASE TambahTulis(p)
  <2>1. PICK a \in Jenis, b \in Pemilik, n \in Nat :
            a = proses[p].jenis /\ b = proses[p].pemilik /\ n = proses[p].jumlah
    BY <1>7, TambahTulisBaris
  <2>2. /\ baris' = baris \o BarisBaru(a, b, n)
        /\ Jalankan("buat", Len(baris) + 1 .. Len(baris) + n)
    BY <1>7, <2>1, TambahTulisBaris
  <2> QED BY <1>5, <2>2
<1>8. CASE HapusTulis(p)
  <2>1. PICK t, S : t = "hapus" /\ S = proses[p].pilih
    OBVIOUS
  <2>2. /\ Jalankan(t, S)
        /\ baris' = [i \in DOMAIN baris |-> IF i \in S THEN [baris[i] EXCEPT !.ada = FALSE] ELSE baris[i]]
    BY <1>8, <2>1 DEF HapusTulis
  <2>3. \A i \in (DOMAIN baris') \ S : i \in DOMAIN baris /\ baris'[i] = baris[i]
    BY <2>2
  <2>4. S \subseteq DOMAIN baris
    BY <1>3, <2>1 DEF TipeProses
  <2>5. ASSUME NEW i \in S
        PROVE  ~baris'[i].ada
    <3>1. baris[i] \in TipeBaris(kunci)
      BY <2>4, BarisTipe
    <3>2. baris'[i] = [baris[i] EXCEPT !.ada = FALSE]
      BY <2>2, <2>4
    <3> QED BY <3>1, <3>2 DEF TipeBaris
  <2>6. Benar(baris', t, S)
    BY <2>1, <2>5 DEF Benar
  <2> QED BY <1>4, <2>2, <2>3, <2>6
<1> QED BY <1>6, <1>7, <1>8

\* A goroutine tells.
LEMMA SalinanLatar ==
    ASSUME Inv, SalinanSegar(salinan, baris, latar), NEW i \in DOMAIN latar,
           LatarBuat(i) \/ Ubah(i) \/ Hapus(i)
    PROVE  SalinanSegar(salinan', baris', latar')
<1>1. latar' = Sisa(i) /\ UNCHANGED baris
  BY DEF LatarBuat, Ubah, LatarUbah, Hapus, LatarHapus, Ambil
<1>2. DOMAIN latar' = {}
  BY <1>1, SisaKosong DEF SalinanSegar
<1>3. PICK b, l, m, c, d : b = baris /\ l = latar /\ m = latar' /\ c = salinan /\ d = salinan'
  OBVIOUS
<1>4. /\ SalinanSegar(c, b, l) /\ DOMAIN m = {} /\ i \in DOMAIN l
      /\ Benar(b, l[i].jenis, l[i].baris)
  BY <1>2, <1>3 DEF SalinanSegar
<1>5. ASSUME NEW S, NEW T, d = {s \in c : s[1] \notin T} \cup {<<x, b[x].kunci>> : x \in S},
           \A x \in DOMAIN b : Diikuti(b, x) => (x \in T <=> x \in l[i].baris),
           \A x \in DOMAIN b : Diikuti(b, x) /\ x \in S => x \in T /\ b[x].ada,
           \A x \in DOMAIN b : Diikuti(b, x) /\ x \in T /\ x \notin S => ~b[x].ada
      PROVE  SalinanSegar(salinan', baris', latar')
  <2>1. SalinanSegar(d, b, m)
    BY <1>4, <1>5, SalinanSelesai
  <2> QED BY <1>1, <1>3, <2>1
<1>6. CASE LatarBuat(i)
  <2>1. PICK S : S = l[i].baris
    OBVIOUS
  <2>2. d = {s \in c : s[1] \notin S} \cup {<<x, b[x].kunci>> : x \in S}
    BY <1>3, <1>6, <2>1 DEF LatarBuat
  <2>3. \A x \in S : b[x].ada
    BY <1>3, <1>4, <1>6, <2>1 DEF Benar, LatarBuat, Ambil
  <2> QED BY <1>5, <2>1, <2>2, <2>3
<1>7. CASE Ubah(i)
  <2>1. \A x \in l[i].baris : b[x].ada
    BY <1>3, <1>4, <1>7 DEF Benar, Ubah, LatarUbah, Ambil
  <2>2. ASSUME NEW S, LatarUbah(i, S)
        PROVE  d = {s \in c : s[1] \notin S} \cup {<<x, b[x].kunci>> : x \in S}
    BY <1>3, <2>2 DEF LatarUbah
  <2>3. CASE LatarUbah(i, {x \in l[i].baris : b[x].ada})
    <3>1. PICK S : S = l[i].baris
      OBVIOUS
    <3>2. LatarUbah(i, S)
      <4>1. {x \in l[i].baris : b[x].ada} = S
        BY <2>1, <3>1
      <4> QED BY <2>3, <4>1
    <3>3. d = {s \in c : s[1] \notin S} \cup {<<x, b[x].kunci>> : x \in S}
      BY <2>2, <3>2
    <3> QED BY <1>5, <2>1, <3>1, <3>3
  <2>4. ASSUME \A x \in l[i].baris : b[x].jenis = "etalase", NEW S, LatarUbah(i, S),
               \A x \in S : b[x].jenis = "etalase"
        PROVE  SalinanSegar(salinan', baris', latar')
    <3>1. d = {s \in c : s[1] \notin S} \cup {<<x, b[x].kunci>> : x \in S}
      BY <2>2, <2>4
    <3>2. \A x \in DOMAIN b : Diikuti(b, x) => x \notin S /\ x \notin l[i].baris
      BY <2>4 DEF Diikuti
    <3> QED BY <1>5, <3>1, <3>2
  <2>5. \A o : \A x \in BarisMilik("etalase", o) : b[x].jenis = "etalase"
    BY <1>3 DEF BarisMilik
  <2>6. CASE /\ \A x \in l[i].baris : b[x].jenis = "etalase"
             /\ \/ LatarUbah(i, {})
                \/ \E x \in UNION {BarisMilik("etalase", o) : o \in l[i].baris} : LatarUbah(i, {x})
    <3>1. CASE LatarUbah(i, {})
      BY <2>4, <2>6, <3>1
    <3>2. ASSUME NEW x \in UNION {BarisMilik("etalase", o) : o \in l[i].baris}, LatarUbah(i, {x})
          PROVE  SalinanSegar(salinan', baris', latar')
      <4>1. \A y \in {x} : b[y].jenis = "etalase"
        BY <2>5, <3>2
      <4> QED BY <2>4, <2>6, <3>2, <4>1
    <3> QED BY <2>6, <3>1, <3>2
  <2> QED BY <1>3, <1>7, <2>3, <2>6 DEF Ubah
<1>8. CASE Hapus(i)
  <2>1. PICK T, S : T = {x \in l[i].baris : b[x].jenis # "profil"} /\ S = {}
    OBVIOUS
  <2>2. d = {s \in c : s[1] \notin T} \cup {<<x, b[x].kunci>> : x \in S}
    <3>1. d = {s \in c : s[1] \notin T}
      BY <1>3, <1>8, <2>1 DEF Hapus, LatarHapus
    <3> QED BY <2>1, <3>1
  <2>3. \A x \in l[i].baris : ~b[x].ada
    BY <1>3, <1>4, <1>8 DEF Benar, Hapus, LatarHapus, Ambil
  <2>4. \A x \in DOMAIN b : Diikuti(b, x) => (x \in T <=> x \in l[i].baris)
    BY <2>1 DEF Diikuti
  <2>5. \A x : x \notin S
    BY <2>1
  <2>6. \A x \in T : ~b[x].ada
    BY <2>1, <2>3
  <2> QED BY <1>5, <2>2, <2>4, <2>5, <2>6
<1> QED BY <1>6, <1>7, <1>8

LEMMA SalinanLangkah ==
    ASSUME Inv, InvTertib, SalinanInv, [Next]_vars
    PROVE  SalinanInv'
<1>0. UNCHANGED <<tertib, gangguan>>
  BY DEF Next, vars, keadaan
<1> SUFFICES ASSUME tertib, ~gangguan
             PROVE  SalinanSegar(salinan', baris', latar')
  BY <1>0 DEF SalinanInv
<1>1. SalinanSegar(salinan, baris, latar)
  BY DEF SalinanInv
<1>2. ASSUME NEW p \in Proses, GantiTulis(p) \/ TambahTulis(p) \/ HapusTulis(p)
      PROVE  SalinanSegar(salinan', baris', latar')
  BY <1>1, <1>2, SalinanTulis
<1>3. ASSUME NEW i \in DOMAIN latar, LatarBuat(i) \/ Ubah(i) \/ Hapus(i) \/ LatarGagal(i)
      PROVE  SalinanSegar(salinan', baris', latar')
  BY <1>1, <1>3, SalinanLatar DEF LatarGagal
<1>4. CASE UNCHANGED <<salinan, latar, baris>>
  BY <1>1, <1>4
<1>5. ASSUME NEW p \in Proses, PermintaanSeller(p) \/ PermintaanKurir(p) \/ PermintaanPengguna(p)
      PROVE  UNCHANGED <<salinan, latar, baris>>
  BY <1>5, MintaSeller, MintaKurir, MintaPengguna DEF Minta, Mulai
<1>6. \A p \in Proses : Buang(p) => UNCHANGED <<salinan, latar, baris>>
  BY DEF Buang
<1>7. \A p \in Proses : ~Putus(p)
  BY DEF Putus
<1>8. Klien => UNCHANGED <<salinan, latar, baris>>
  BY DEF Klien, Unggah, Kedaluwarsa
<1>9. UNCHANGED vars => UNCHANGED <<salinan, latar, baris>>
  BY DEF vars
<1> QED BY <1>2, <1>3, <1>4, <1>5, <1>6, <1>7, <1>8, <1>9 DEF Next, Langkah

\* While no step fails and an owner waits for each answer, the services that follow the events
\* know, once nothing runs, the rows there are and their keys, and no others; but for the two
\* tables whose events are about something else.
THEOREM SalinanTepat == Spec => []SalinanTertib
<1>1. Init => SalinanInv
  <2> SUFFICES ASSUME Init PROVE SalinanSegar(salinan, baris, latar)
    BY DEF SalinanInv
  <2>1. salinan = {} /\ latar = << >> /\ baris = << >>
    BY DEF Init
  <2>2. DOMAIN latar = {} /\ DOMAIN baris = {}
    BY <2>1
  <2> QED BY <2>2 DEF SalinanSegar
<1>2. Inv /\ InvTertib /\ SalinanInv /\ [Next]_vars => SalinanInv'
  BY SalinanLangkah
<1>3. Inv /\ SalinanInv => SalinanTertib
  BY SalinanArti
<1> QED BY <1>1, <1>2, <1>3, InvTertibSelalu, PTL DEF Spec

=============================================================================
