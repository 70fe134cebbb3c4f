---------------------------- MODULE BarangSeller ----------------------------
(***************************************************************************)
(* The goods of one seller: products, their categories, the units of a      *)
(* category, and the counters the program keeps of them.  The handlers are  *)
(* those of seller_services/barang_services/engagement_barang.go.           *)
(*                                                                          *)
(* A handler reads, then writes in one transaction, then leaves a goroutine *)
(* that moves the counters; so a request is a step that reads, a step that  *)
(* writes, and its goroutine a third step some time later.  A handler whose *)
(* write depends on nothing it read, apart from the existence of a row, is  *)
(* one step with its read.                                                  *)
(*                                                                          *)
(* Abstractions.  Names, prices, sizes and descriptions are left out, and   *)
(* with them the handlers that only edit these.  A product or a category    *)
(* that is deleted keeps its row (deleted_at), a deleted unit keeps its     *)
(* place in the sequence as "terhapus" because ids are not used again.      *)
(* Reads see the current tables: docker-compose.yml has one database behind *)
(* db.Read and db.Write.  The buyer is only what a checkout does to a unit; *)
(* Reservasi has the rest.                                                  *)
(***************************************************************************)
EXTENDS Integers, Sequences, FiniteSets, Functions

CONSTANTS
    Proses,        \* requests of the seller the server runs at the same time
    Pembeli,       \* checkouts that may run beside them
    StokMasukan,   \* the values of update_stok a request may carry
    StokAwal,      \* the stock a new category may come with
    MaxBarang,     \* bounds on the rows ever created
    MaxKategori,
    MaxVarian,
    MaxLatar,      \* bound on the goroutines waiting at the same time
    MaxAmbang,     \* bound on the counters, which drift where goroutines are lost
    SellerTertib   \* TRUE: a request starts when the one before it and its goroutine are done

ASSUME BarangSellerAssumption ==
    /\ StokMasukan \subseteq Nat
    /\ StokAwal \subseteq Nat
    /\ MaxBarang \in Nat
    /\ MaxKategori \in Nat
    /\ MaxVarian \in Nat
    /\ MaxLatar \in Nat
    /\ MaxAmbang \in Nat
    /\ SellerTertib \in BOOLEAN

VARIABLES
    barang,          \* rows of barang_induk; the index is the id
    kategori,        \* rows of kategori_barang
    varian,          \* rows of varian_barang
    ambangBarang,    \* rows of threshold_barang_induk, in the order of their own ids
    ambangKategori,  \* the row of threshold_kategori_barang of each category
    latar,           \* goroutines still to run
    proses,          \* local variables of each running request
    pilihan          \* the unit each running checkout has read, 0 if none

vars == <<barang, kategori, varian, ambangBarang, ambangKategori, latar, proses, pilihan>>

-----------------------------------------------------------------------------
StatusVarian == {"Down", "Ready", "Dipesan", "terhapus"}
TahapProses  == {"bebas", "hapusBarang", "tambah", "hapusKategori", "asal", "stok", "turun", "naik"}
JenisLatar   == {"buat", "tambah", "hapusBarang", "hapusKategori", "stok",
                 "turunBarang", "naikBarang", "turun", "naik"}

ProsesBebas == [tahap |-> "bebas", barang |-> 0, kategori |-> 0, jumlah |-> 0,
                pilih |-> {}, semua |-> FALSE]
AmbangKosong == [ada |-> FALSE, down |-> 0, ready |-> 0]

KategoriDari(b) == {k \in DOMAIN kategori : kategori[k].barang = b /\ kategori[k].ada}
VarianBerstatus(k, S) == {v \in DOMAIN varian : varian[v].kategori = k /\ varian[v].status \in S}
VarianBarangInduk(b) == {v \in DOMAIN varian : kategori[varian[v].kategori].barang = b}

\* What LIMIT n without an order may return of S.
Limit(S, n) == {T \in SUBSET S : Cardinality(T) = IF Cardinality(S) < n THEN Cardinality(S) ELSE n}

\* The rows of threshold_barang_induk of product b.
BarisAmbang(b) == {n \in DOMAIN ambangBarang : ambangBarang[n].ada /\ ambangBarang[n].barang = b}

Init ==
    /\ barang = << >>
    /\ kategori = << >>
    /\ varian = << >>
    /\ ambangBarang = << >>
    /\ ambangKategori = [k \in 1 .. MaxKategori |-> AmbangKosong]
    /\ latar = << >>
    /\ proses = [p \in Proses |-> ProsesBebas]
    /\ pilihan = [q \in Pembeli |-> 0]

BarangAda(b) == b \in DOMAIN barang /\ barang[b].ada
KategoriAda(k) == k \in DOMAIN kategori /\ kategori[k].ada
Tenang == SellerTertib => latar = << >> /\ \A p \in Proses : proses[p].tahap = "bebas"

Mulai(p, r) == /\ proses[p].tahap = "bebas"
               /\ Tenang
               /\ proses' = [proses EXCEPT ![p] = r]
Lepas(p) == proses' = [proses EXCEPT ![p] = ProsesBebas]
Jalankan(jenis, b, isi) == /\ Len(latar) < MaxLatar
                           /\ latar' = Append(latar, [jenis |-> jenis, barang |-> b, isi |-> isi])
UnitBaru(k, n) == [i \in 1 .. n |-> [kategori |-> k, status |-> "Down"]]

\* (Mutant) rows with deleted_at are updated as well.
SetStatusTerhapus(S, s) ==
    [v \in DOMAIN varian |-> IF v \in S THEN [varian[v] EXCEPT !.status = s] ELSE varian[v]]

\* The units of S get status s; those deleted meanwhile are no longer there to update.
SetStatus(S, s) ==
    [v \in DOMAIN varian |-> IF v \in S /\ varian[v].status # "terhapus"
                             THEN [varian[v] EXCEPT !.status = s] ELSE varian[v]]

Putus(p) ==
    /\ proses[p].tahap # "bebas"
    /\ Lepas(p)
    /\ UNCHANGED <<barang, kategori, varian, ambangBarang, ambangKategori, latar, pilihan>>

-----------------------------------------------------------------------------
(* MasukanBarangInduk.  The categories come with the stock isi[i]; the one  *)
(* numbered asal is flagged as the original.  A transaction that is rolled  *)
(* back has used up an id (MasukanGagal).                                   *)

UnitKategori(isi, k0) ==
    LET unit[i \in 0 .. Len(isi)] ==
            IF i = 0 THEN << >> ELSE unit[i - 1] \o UnitBaru(k0 + i, isi[i])
    IN  unit[Len(isi)]

MasukanBarangInduk(isi, asal) ==
    LET b  == Len(barang) + 1
        k0 == Len(kategori)
    IN  /\ Tenang
        /\ b <= MaxBarang
        /\ k0 + Len(isi) <= MaxKategori
        /\ Len(varian) + Len(UnitKategori(isi, k0)) <= MaxVarian
        /\ barang' = Append(barang, [ada |-> TRUE, asal |-> k0 + asal])
        /\ kategori' = kategori \o [i \in 1 .. Len(isi) |->
                          [barang |-> b, stok |-> isi[i], original |-> i = asal, ada |-> TRUE]]
        /\ varian' = varian \o UnitKategori(isi, k0)
        /\ Jalankan("buat", b, [k \in k0 + 1 .. k0 + Len(isi) |-> isi[k - k0]])
        /\ UNCHANGED <<ambangBarang, ambangKategori, proses, pilihan>>

MasukanGagal ==
    /\ ~SellerTertib
    /\ Len(barang) < MaxBarang
    /\ barang' = Append(barang, [ada |-> FALSE, asal |-> 0])
    /\ UNCHANGED <<kategori, varian, ambangBarang, ambangKategori, latar, proses, pilihan>>

-----------------------------------------------------------------------------
(* HapusBarangInduk.  It is refused while a unit is on sale or in an order. *)
(* The number of categories it reads comes from a query without condition:  *)
(* the threshold is addressed by its own id, and GetKolomCount looks at     *)
(* IdBarangInduk.  That number is the LIMIT of the categories it announces. *)

Terikat == {"Dipesan", "Ready"}

HapusBarangInduk(p, b) ==
    /\ BarangAda(b)
    /\ \A v \in VarianBarangInduk(b) : varian[v].status \notin Terikat
    /\ \E n \in DOMAIN ambangBarang :
          /\ ambangBarang[n].ada
          /\ \E K \in Limit(KategoriDari(b), ambangBarang[n].kategori) :
                Mulai(p, [ProsesBebas EXCEPT !.tahap = "hapusBarang", !.barang = b, !.pilih = K])
    /\ UNCHANGED <<barang, kategori, varian, ambangBarang, ambangKategori, latar, pilihan>>

HapusBarangTulis(p) ==
    LET r == proses[p]
    IN  /\ r.tahap = "hapusBarang"
        /\ barang' = [barang EXCEPT ![r.barang].ada = FALSE]
        /\ kategori' = [k \in DOMAIN kategori |->
                          IF kategori[k].barang = r.barang
                          THEN [kategori[k] EXCEPT !.ada = FALSE] ELSE kategori[k]]
        /\ varian' = SetStatus(VarianBarangInduk(r.barang), "terhapus")
        /\ Jalankan("hapusBarang", r.barang, [k \in r.pilih |-> 0])
        /\ Lepas(p)
        /\ UNCHANGED <<ambangBarang, ambangKategori, pilihan>>

-----------------------------------------------------------------------------
(* TambahKategoriBarang, one category at a time.                            *)

TambahKategoriBarang(p, b, s) ==
    /\ BarangAda(b)
    /\ Mulai(p, [ProsesBebas EXCEPT !.tahap = "tambah", !.barang = b, !.jumlah = s])
    /\ UNCHANGED <<barang, kategori, varian, ambangBarang, ambangKategori, latar, pilihan>>

TambahTulis(p) ==
    LET r == proses[p]
        k == Len(kategori) + 1
    IN  /\ r.tahap = "tambah"
        /\ k <= MaxKategori
        /\ Len(varian) + r.jumlah <= MaxVarian
        /\ kategori' = Append(kategori, [barang |-> r.barang, stok |-> r.jumlah,
                                         original |-> FALSE, ada |-> TRUE])
        /\ varian' = varian \o UnitBaru(k, r.jumlah)
        /\ Jalankan("tambah", r.barang, [j \in {k} |-> r.jumlah])
        /\ Lepas(p)
        /\ UNCHANGED <<barang, ambangBarang, ambangKategori, pilihan>>

-----------------------------------------------------------------------------
(* HapusKategoriBarang.  The counters go down by the stock column the       *)
(* request has read.                                                        *)

HapusKategoriBarang(p, k) ==
    /\ KategoriAda(k)
    /\ VarianBerstatus(k, Terikat) = {}
    /\ Mulai(p, [ProsesBebas EXCEPT !.tahap = "hapusKategori", !.barang = kategori[k].barang,
                                    !.kategori = k, !.jumlah = kategori[k].stok])
    /\ UNCHANGED <<barang, kategori, varian, ambangBarang, ambangKategori, latar, pilihan>>

HapusKategoriTulis(p) ==
    LET r == proses[p]
    IN  /\ r.tahap = "hapusKategori"
        /\ varian' = SetStatus(VarianBerstatus(r.kategori, StatusVarian), "terhapus")
        /\ kategori' = [kategori EXCEPT ![r.kategori].ada = FALSE]
        /\ Jalankan("hapusKategori", r.barang, [k \in {r.kategori} |-> r.jumlah])
        /\ Lepas(p)
        /\ UNCHANGED <<barang, ambangBarang, ambangKategori, pilihan>>

-----------------------------------------------------------------------------
(* SetAsOriginKategoriBarang.  The new original is flagged; the update that *)
(* should take the flag from the old one is a struct with a FALSE, a zero   *)
(* value, which GORM leaves out.                                            *)

SetAsOriginKategoriBarang(p, b, k) ==
    /\ KategoriAda(k)
    /\ kategori[k].barang = b
    /\ BarangAda(b)
    /\ barang[b].asal \notin {0, k}
    /\ Mulai(p, [ProsesBebas EXCEPT !.tahap = "asal", !.barang = b, !.kategori = k])
    /\ UNCHANGED <<barang, kategori, varian, ambangBarang, ambangKategori, latar, pilihan>>

\* (Mutant) the flag is set on the category that was the original.
AsalTulisTerbalik(p) ==
    LET r == proses[p]
    IN  /\ r.tahap = "asal"
        /\ barang' = [barang EXCEPT ![r.barang].asal = IF barang[r.barang].ada THEN r.kategori ELSE @]
        /\ kategori' = [kategori EXCEPT ![barang[r.barang].asal].original = TRUE]
        /\ Lepas(p)
        /\ UNCHANGED <<varian, ambangBarang, ambangKategori, latar, pilihan>>

\* A row deleted meanwhile is not found by the update.
AsalTulis(p) ==
    LET r == proses[p]
    IN  /\ r.tahap = "asal"
        /\ barang' = [barang EXCEPT ![r.barang].asal = IF barang[r.barang].ada THEN r.kategori ELSE @]
        /\ kategori' = [kategori EXCEPT ![r.kategori].original = @ \/ kategori[r.kategori].ada]
        /\ Lepas(p)
        /\ UNCHANGED <<varian, ambangBarang, ambangKategori, latar, pilihan>>

-----------------------------------------------------------------------------
(* EditStokKategoriBarang compares the wanted stock n with the Down units   *)
(* it reads, at most as many as the stock column says.                      *)

EditStokKategoriBarang(p, k, n) ==
    /\ KategoriAda(k)
    /\ \E D \in Limit(VarianBerstatus(k, {"Down"}),
                      IF kategori[k].stok = 0 THEN 1 ELSE kategori[k].stok) :
          /\ Cardinality(D) # n
          /\ Mulai(p, [ProsesBebas EXCEPT !.tahap = "stok", !.barang = kategori[k].barang,
                                          !.kategori = k, !.jumlah = n, !.pilih = D])
    /\ UNCHANGED <<barang, kategori, varian, ambangBarang, ambangKategori, latar, pilihan>>

\* (Mutant) the column goes down by the wanted stock.
SetStokSelisih(k, n) ==
    IF n = 0 \/ ~KategoriAda(k) THEN kategori ELSE [kategori EXCEPT ![k].stok = @ - n]

\* (Mutant) the column is left as it is.
SetStokTetap(k, n) == kategori

\* Updates with a struct leaves a stock of 0 out: the column keeps its value.
SetStok(k, n) ==
    IF n = 0 \/ ~KategoriAda(k) THEN kategori ELSE [kategori EXCEPT ![k].stok = n]

\* Fewer: the surplus of what was read is deleted by id, whatever its status is now.
StokKurang(p) ==
    LET r == proses[p]
        s == Cardinality(r.pilih) - r.jumlah
    IN  /\ r.tahap = "stok"
        /\ s > 0
        /\ \E S \in Limit(r.pilih, s) : varian' = SetStatus(S, "terhapus")
        /\ kategori' = SetStok(r.kategori, r.jumlah)
        /\ Jalankan("stok", r.barang, [k \in {r.kategori} |-> -s])
        /\ Lepas(p)
        /\ UNCHANGED <<barang, ambangBarang, ambangKategori, pilihan>>

StokTambah(p) ==
    LET r == proses[p]
        s == r.jumlah - Cardinality(r.pilih)
    IN  /\ r.tahap = "stok"
        /\ s > 0
        /\ Len(varian) + s <= MaxVarian
        /\ varian' = varian \o UnitBaru(r.kategori, s)
        /\ kategori' = SetStok(r.kategori, r.jumlah)
        /\ Jalankan("stok", r.barang, [k \in {r.kategori} |-> s])
        /\ Lepas(p)
        /\ UNCHANGED <<barang, ambangBarang, ambangKategori, pilihan>>

-----------------------------------------------------------------------------
(* Taking goods off sale and putting them on sale.  For a whole product the *)
(* condition on the status is part of the update.                           *)

DownStokBarangInduk(b) ==
    /\ Tenang
    /\ BarangAda(b)
    /\ varian' = SetStatus({v \in VarianBarangInduk(b) : varian[v].status = "Ready"}, "Down")
    /\ Jalankan("turunBarang", b, << >>)
    /\ UNCHANGED <<barang, kategori, ambangBarang, ambangKategori, proses, pilihan>>

\* Refused while the product's own threshold row counts no category; a negative LIMIT is none.
UpBarangInduk(b) ==
    /\ Tenang
    /\ BarangAda(b)
    /\ \E n \in BarisAmbang(b) :
          /\ ambangBarang[n].kategori # 0
          /\ \E K \in Limit(KategoriDari(b), IF ambangBarang[n].kategori < 0 THEN MaxKategori
                                             ELSE ambangBarang[n].kategori) :
                Jalankan("naikBarang", b, [k \in K |-> 0])
    /\ varian' = SetStatus({v \in VarianBarangInduk(b) : varian[v].status = "Down"}, "Ready")
    /\ UNCHANGED <<barang, kategori, ambangBarang, ambangKategori, proses, pilihan>>

\* For one category the ids are read first, j of them, or as many as the counter says
\* when j is 0; they are then written by id.
Banyak(j, hitung) == IF j # 0 THEN j ELSE IF hitung < 0 THEN MaxVarian ELSE hitung

DownKategoriBarang(p, k, j) ==
    /\ KategoriAda(k)
    /\ \E S \in Limit(VarianBerstatus(k, {"Ready"}), Banyak(j, ambangKategori[k].ready)) :
          Mulai(p, [ProsesBebas EXCEPT !.tahap = "turun", !.kategori = k, !.pilih = S,
                                       !.semua = (j = 0)])
    /\ UNCHANGED <<barang, kategori, varian, ambangBarang, ambangKategori, latar, pilihan>>

DownKategoriTulis(p) ==
    LET r == proses[p]
    IN  /\ r.tahap = "turun"
        /\ varian' = SetStatus(r.pilih, "Down")
        /\ Jalankan("turun", 0, [k \in {r.kategori} |-> Cardinality(r.pilih)])
        /\ Lepas(p)
        /\ UNCHANGED <<barang, kategori, ambangBarang, ambangKategori, pilihan>>

UpKategoriBarang(p, k, j) ==
    /\ KategoriAda(k)
    /\ j # 0 \/ ambangKategori[k].down > 0
    /\ \E S \in Limit(VarianBerstatus(k, {"Down"}), Banyak(j, ambangKategori[k].down)) :
          Mulai(p, [ProsesBebas EXCEPT !.tahap = "naik", !.kategori = k, !.pilih = S])
    /\ UNCHANGED <<barang, kategori, varian, ambangBarang, ambangKategori, latar, pilihan>>

UpKategoriTulis(p) ==
    LET r == proses[p]
    IN  /\ r.tahap = "naik"
        /\ varian' = SetStatus(r.pilih, "Ready")
        /\ Jalankan("naik", 0, [k \in {r.kategori} |-> Cardinality(r.pilih)])
        /\ Lepas(p)
        /\ UNCHANGED <<barang, kategori, ambangBarang, ambangKategori, pilihan>>

-----------------------------------------------------------------------------
(* The goroutines.  BarangIndukThreshold updates the row whose own id is    *)
(* the id of the product; an update that finds no row changes nothing.      *)

TambahAmbang(b, dk, dv) ==
    IF b \in DOMAIN ambangBarang /\ ambangBarang[b].ada
    THEN [ambangBarang EXCEPT ![b].kategori = @ + dk, ![b].varian = @ + dv] ELSE ambangBarang

\* The rows of the categories K are raised by turun and siap.
Geser(K, turun, siap) ==
    [k \in DOMAIN ambangKategori |->
        IF k \in K /\ ambangKategori[k].ada
        THEN [ada |-> TRUE, down |-> ambangKategori[k].down + turun[k],
                            ready |-> ambangKategori[k].ready + siap[k]]
        ELSE ambangKategori[k]]

Balik(f) == [k \in DOMAIN f |-> -f[k]]
Nol == [k \in DOMAIN ambangKategori |-> 0]
Turun == [k \in DOMAIN ambangKategori |-> ambangKategori[k].down]
Siap == [k \in DOMAIN ambangKategori |-> ambangKategori[k].ready]

JumlahIsi(isi) == SumFunction(isi)

Sisa(i) == SubSeq(latar, 1, i - 1) \o SubSeq(latar, i + 1, Len(latar))

Ambil(i, jenis) == /\ latar[i].jenis \in jenis
                   /\ latar' = Sisa(i)
                   /\ UNCHANGED <<barang, kategori, varian, proses, pilihan>>

\* New categories start with a row that counts their stock as Down.
BarisBaru(isi) == [k \in DOMAIN ambangKategori |->
                     IF k \in DOMAIN isi THEN [ada |-> TRUE, down |-> isi[k], ready |-> 0]
                     ELSE ambangKategori[k]]

LatarBuat(i) ==
    LET j == latar[i]
        baris == [barang |-> j.barang, kategori |-> 0, varian |-> 0, ada |-> TRUE]
        rows == Append(ambangBarang, baris)
    IN  /\ Ambil(i, {"buat"})
        /\ ambangBarang' =
              IF j.barang \in DOMAIN rows /\ rows[j.barang].ada
              THEN [rows EXCEPT ![j.barang].kategori = @ + Cardinality(DOMAIN j.isi),
                                ![j.barang].varian = @ + JumlahIsi(j.isi)]
              ELSE rows
        /\ ambangKategori' = BarisBaru(j.isi)

LatarTambah(i) ==
    /\ Ambil(i, {"tambah"})
    /\ ambangKategori' = BarisBaru(latar[i].isi)
    /\ ambangBarang' = TambahAmbang(latar[i].barang, 1, JumlahIsi(latar[i].isi))

\* The rows of the product and of the categories the request has read are deleted.
LatarHapusBarang(i) ==
    /\ Ambil(i, {"hapusBarang"})
    /\ ambangBarang' = [n \in DOMAIN ambangBarang |->
                          IF n \in BarisAmbang(latar[i].barang)
                          THEN [ambangBarang[n] EXCEPT !.ada = FALSE] ELSE ambangBarang[n]]
    /\ ambangKategori' = [k \in DOMAIN ambangKategori |->
                            IF k \in DOMAIN latar[i].isi THEN AmbangKosong ELSE ambangKategori[k]]

LatarHapusKategori(i) ==
    /\ Ambil(i, {"hapusKategori"})
    /\ ambangBarang' = TambahAmbang(latar[i].barang, -1, -JumlahIsi(latar[i].isi))
    /\ ambangKategori' = [k \in DOMAIN ambangKategori |->
                            IF k \in DOMAIN latar[i].isi THEN AmbangKosong ELSE ambangKategori[k]]

LatarStok(i) ==
    LET isi == latar[i].isi
    IN  /\ Ambil(i, {"stok"})
        /\ ambangBarang' = TambahAmbang(latar[i].barang, 0, JumlahIsi(isi))
        /\ ambangKategori' = Geser(DOMAIN isi, isi, Nol)

\* (Mutant) every category of the product is moved by all of its units.
LatarTurunBarangDua(i) ==
    /\ Ambil(i, {"turunBarang"})
    /\ \E K \in Limit(KategoriDari(latar[i].barang), latar[i].barang) :
          ambangKategori' = Geser(K, Siap, Nol)
    /\ UNCHANGED ambangBarang

\* DownStokBarangInduk limits the categories by the id of the product.
LatarTurunBarang(i) ==
    /\ Ambil(i, {"turunBarang"})
    /\ \E K \in Limit(KategoriDari(latar[i].barang), latar[i].barang) :
          ambangKategori' = Geser(K, Siap, Balik(Siap))
    /\ UNCHANGED ambangBarang

LatarNaikBarang(i) ==
    /\ Ambil(i, {"naikBarang"})
    /\ ambangKategori' = Geser(DOMAIN latar[i].isi, Balik(Turun), Turun)
    /\ UNCHANGED ambangBarang

LatarTurun(i) ==
    LET isi == latar[i].isi
    IN  /\ Ambil(i, {"turun"})
        /\ ambangKategori' = Geser(DOMAIN isi, isi, Balik(isi))
        /\ UNCHANGED ambangBarang

LatarNaik(i) ==
    LET isi == latar[i].isi
    IN  /\ Ambil(i, {"naik"})
        /\ ambangKategori' = Geser(DOMAIN isi, Balik(isi), isi)
        /\ UNCHANGED ambangBarang

\* The context of a goroutine has expired before its first statement.
LatarGagal(i) ==
    /\ ~SellerTertib
    /\ latar' = Sisa(i)
    /\ UNCHANGED <<barang, kategori, varian, ambangBarang, ambangKategori, proses, pilihan>>

-----------------------------------------------------------------------------
(* A checkout, as Reservasi has it: a Ready unit is read, then written by   *)
(* its id, and the stock counter goes down where it can.                    *)

PembeliBaca(q) ==
    /\ pilihan[q] = 0
    /\ \E v \in DOMAIN varian : varian[v].status = "Ready" /\ pilihan' = [pilihan EXCEPT ![q] = v]
    /\ UNCHANGED <<barang, kategori, varian, ambangBarang, ambangKategori, latar, proses>>

PembeliTahan(q) ==
    LET v == pilihan[q]
        k == varian[v].kategori
    IN  /\ v # 0
        /\ varian' = SetStatus({v}, "Dipesan")
        /\ kategori' = IF kategori[k].stok > 0 /\ kategori[k].ada
                       THEN [kategori EXCEPT ![k].stok = @ - 1] ELSE kategori
        /\ pilihan' = [pilihan EXCEPT ![q] = 0]
        /\ UNCHANGED <<barang, ambangBarang, ambangKategori, latar, proses>>

-----------------------------------------------------------------------------
Isi == UNION {[1 .. n -> StokAwal] : n \in 1 .. 2}
Jumlah == {0, 1}

Langkah(p) ==
    \/ \E b \in DOMAIN barang : \/ HapusBarangInduk(p, b)
                                \/ \E s \in StokAwal : TambahKategoriBarang(p, b, s)
                                \/ \E k \in DOMAIN kategori : SetAsOriginKategoriBarang(p, b, k)
    \/ \E k \in DOMAIN kategori : \/ HapusKategoriBarang(p, k)
                                  \/ \E n \in StokMasukan : EditStokKategoriBarang(p, k, n)
                                  \/ \E j \in Jumlah : \/ DownKategoriBarang(p, k, j)
                                                       \/ UpKategoriBarang(p, k, j)
    \/ HapusBarangTulis(p) \/ TambahTulis(p) \/ HapusKategoriTulis(p) \/ AsalTulis(p)
    \/ StokKurang(p) \/ StokTambah(p) \/ DownKategoriTulis(p) \/ UpKategoriTulis(p)
    \/ Putus(p)

Latar(i) ==
    /\ \/ LatarBuat(i) \/ LatarTambah(i) \/ LatarHapusBarang(i) \/ LatarHapusKategori(i)
       \/ LatarStok(i) \/ LatarTurunBarang(i) \/ LatarNaikBarang(i) \/ LatarTurun(i)
       \/ LatarNaik(i) \/ LatarGagal(i)
    /\ \A k \in DOMAIN ambangKategori : {ambangKategori'[k].down, ambangKategori'[k].ready}
                                            \subseteq -MaxAmbang .. MaxAmbang

Next ==
    \/ \E isi \in Isi : \E asal \in DOMAIN isi : MasukanBarangInduk(isi, asal)
    \/ MasukanGagal
    \/ \E b \in DOMAIN barang : DownStokBarangInduk(b) \/ UpBarangInduk(b)
    \/ \E p \in Proses : Langkah(p)
    \/ \E i \in DOMAIN latar : Latar(i)
    \/ \E q \in Pembeli : PembeliBaca(q) \/ PembeliTahan(q)

Spec == Init /\ [][Next]_vars

-----------------------------------------------------------------------------
(* Properties.                                                              *)

\* Every table and every local variable holds values of its column's type, and no id
\* points outside its table.
TypeOK ==
    /\ barang \in Seq([ada : BOOLEAN, asal : 0 .. Len(kategori)])
    /\ kategori \in Seq([barang : DOMAIN barang, stok : Nat, original : BOOLEAN, ada : BOOLEAN])
    /\ varian \in Seq([kategori : DOMAIN kategori, status : StatusVarian])
    /\ ambangBarang \in Seq([barang : DOMAIN barang, kategori : Int, varian : Int, ada : BOOLEAN])
    /\ ambangKategori \in [1 .. MaxKategori -> [ada : BOOLEAN, down : Int, ready : Int]]
    /\ \A i \in DOMAIN latar : /\ latar[i].jenis \in JenisLatar
                               /\ DOMAIN latar[i].isi \subseteq DOMAIN kategori
    /\ proses \in [Proses -> [tahap : TahapProses, barang : 0 .. Len(barang),
                              kategori : 0 .. Len(kategori), jumlah : Nat,
                              pilih : SUBSET (1 .. MaxVarian \cup 1 .. MaxKategori),
                              semua : BOOLEAN]]
    /\ pilihan \in [Pembeli -> 0 .. Len(varian)]

\* The original category of a product is one of its own, and flagged as the original as
\* long as it exists, whatever changes of it and deletions overlap.
AsalTerdaftar ==
    \A b \in DOMAIN barang : barang[b].ada =>
        LET k == barang[b].asal
        IN  /\ kategori[k].barang = b
            /\ kategori[k].ada => kategori[k].original

\* No unit outlives its category or its product.
TanpaYatim ==
    \A v \in DOMAIN varian : varian[v].status # "terhapus" => KategoriAda(varian[v].kategori)

\* The stock column never promises more than there is, as long as no stock is set to 0.
StokTidakLebih ==
    \A k \in DOMAIN kategori : kategori[k].ada =>
        kategori[k].stok <= Cardinality(VarianBerstatus(k, {"Down", "Ready"}))

\* Once the goroutines are done, the counters of a category say how many of its units are
\* Down and how many are on sale.  DownStokBarangInduk moves the counters of as many
\* categories as the id of the product says, so this is about products that never had more.
AmbangSesuaiUnit ==
    latar = << >> =>
        \A k \in DOMAIN kategori :
            LET b == kategori[k].barang
            IN  (kategori[k].ada /\ Cardinality({j \in DOMAIN kategori : kategori[j].barang = b}) <= b) =>
                    /\ ambangKategori[k].down = Cardinality(VarianBerstatus(k, {"Down"}))
                    /\ ambangKategori[k].ready = Cardinality(VarianBerstatus(k, {"Ready"}))

\* Once the goroutines are done, a product's threshold row counts its categories, and
\* no fewer units than it has.
AmbangBarangSesuai ==
    latar = << >> =>
        \A b \in DOMAIN barang : barang[b].ada =>
            \E n \in BarisAmbang(b) :
                /\ ambangBarang[n].kategori = Cardinality(KategoriDari(b))
                /\ ambangBarang[n].varian >=
                      Cardinality({v \in VarianBarangInduk(b) : varian[v].status # "terhapus"})

\* A product is not deleted while one of its units is in an order
\* (engagement_barang.go:528).
HapusTanpaTransaksi ==
    [][\A b \in DOMAIN barang : (barang[b].ada /\ ~barang'[b].ada) =>
          \A v \in VarianBarangInduk(b) : varian[v].status # "Dipesan"]_vars
=============================================================================
