------------------------------- MODULE Relasi -------------------------------
(***************************************************************************)
(* What the small services of buyers, sellers and couriers have in common:  *)
(* a row that says who has what (a like, a cart line, an address, a member  *)
(* of a showcase), found again by a search and never by a unique index, and *)
(* the counters of the threshold tables that a goroutine moves afterwards.  *)
(* RelasiPengguna, RelasiSeller and RelasiKurir say which handler does what.*)
(*                                                                          *)
(* A handler reads and decides (one step), writes (one statement or one     *)
(* transaction, one step) and leaves a goroutine (one step): requests of    *)
(* others come in between.  An edit of a name that a search for duplicates  *)
(* reads is a handler like the others; edits of other texts are left out.   *)
(*                                                                          *)
(* Abstractions.  Texts, places, dates and prices are left out; a name that *)
(* is searched for is a number.  The rows of all tables share one sequence  *)
(* of ids.  Threshold rows are known by what they count for (another one is *)
(* hit where the code asks by their own ids; those of products keep step    *)
(* with the products, BarangSeller looks at that), and people's exist.      *)
(* Units are BarangSeller's: whether some are held, which keeps a category  *)
(* or a product from being deleted, is not asked here.                      *)
(***************************************************************************)
EXTENDS Integers, Sequences, FiniteSets, Functions

CONSTANTS
    Pengguna, Seller, Kurir,  \* the ids of buyers, sellers and couriers, told apart
    Nama,       \* names of products, showcases, discounts and addresses, account numbers
    Proses,     \* requests that run at the same time
    Batas,      \* limit of cart lines, addresses and discounts of one owner
    MaxBaris,   \* bounds: rows ever made and goroutines waiting
    MaxLatar

RelasiAssumption ==
    /\ \A S \in {Pengguna, Seller, Kurir, Nama} : S \subseteq Nat \ {0}
    /\ Batas \in Nat /\ MaxBaris \in Nat /\ MaxLatar \in Nat
ASSUME RelasiAssumption

VARIABLES
    baris,    \* rows of all tables; the index is the id
    ambang,   \* the rows that have a row in their threshold table
    hitung,   \* counters <<column, owner>> that are not zero
    latar,    \* goroutines still to run
    proses,   \* local variables of each running request
    gangguan, \* what the behaviour is like, chosen once.  TRUE: a step may fail, and a
              \* goroutine may be lost or fail in part
    tertib    \* TRUE: one request at a time, each with its goroutine

keadaan == <<gangguan, tertib>>
vars == <<baris, ambang, hitung, latar, proses, keadaan>>

\* A row: whose it is, its name or the seller it is about, the rows it refers to, and a
\* flag: the default account, an active discount, a finished order.
Baris(t, d, k, r) == [tabel |-> t, dari |-> d, ke |-> k, rujuk |-> r, tanda |-> FALSE, ada |-> TRUE]

\* A goroutine: counters to move by a fixed number, those to move by the number of
\* categories that its product then has, threshold rows to make and to delete, and a
\* discount to activate.
LatarKosong == [ubah |-> {}, kali |-> {}, barang |-> 0, buat |-> {}, buang |-> {}, aktif |-> 0]

\* The categories that come with a new product: how many, their warehouse and account.
AnakKosong == [banyak |-> 0, gudang |-> 0, rekening |-> 0]

ProsesBebas == [tugas |-> "", baris |-> Baris("", 0, 0, << >>), anak |-> AnakKosong, id |-> 0,
                pilih |-> {}, ikut |-> "", latar |-> LatarKosong]

Init == /\ baris = << >>
        /\ ambang = {}
        /\ hitung = << >>
        /\ latar = << >>
        /\ proses = [p \in Proses |-> ProsesBebas]
        /\ gangguan \in BOOLEAN
        /\ tertib \in BOOLEAN

\* The rows ever made, which is all that a foreign key asks for, and those still there.
Pernah(t) == {i \in DOMAIN baris : baris[i].tabel = t}
BarisAda(t) == {i \in Pernah(t) : baris[i].ada}
Milik(t, d) == {i \in BarisAda(t) : baris[i].dari = d}
Cocok(t, d, k) == {i \in Milik(t, d) : baris[i].ke = k}
Merujuk(t, d, r) == {i \in Milik(t, d) : baris[i].rujuk = r}

\* The code asks for a threshold row by its own id: that of any row, or none.
AmbangMana(t) == {H \in SUBSET Pernah(t) : Cardinality(H) <= 1}

\* The categories of product b.
KategoriDari(b) == {k \in BarisAda("kategori_barang") : baris[k].rujuk[1] = b}
Isi(k) == IF k \in DOMAIN hitung THEN hitung[k] ELSE 0

\* The activation of a discount waits for its time, which is not a moment's work.
Tenang == /\ \A i \in DOMAIN latar : latar[i].aktif # 0
          /\ \A p \in Proses : proses[p] = ProsesBebas

-----------------------------------------------------------------------------
(* What a handler does before it writes.                                    *)

Mulai(p, r) == /\ proses[p] = ProsesBebas
               /\ tertib => Tenang
               /\ proses' = [proses EXCEPT ![p] = r]
               /\ UNCHANGED <<baris, ambang, hitung, latar, keadaan>>

\* A new row, and the counters its goroutine will raise.
BuatBaca(p, b, ubah) ==
    Mulai(p, [ProsesBebas EXCEPT !.tugas = "buat", !.baris = b, !.latar.ubah = ubah])

\* A new product with its categories.
MasukanBaca(p, b, anak, ubah) ==
    Mulai(p, [ProsesBebas EXCEPT !.tugas = "masukan", !.baris = b, !.anak = anak, !.latar.ubah = ubah])

\* A row to delete, the counters its goroutine will lower, the threshold rows it will
\* delete, and the table whose rows go with it.
HapusBaca(p, i, ubah, buang, ikut) ==
    Mulai(p, [ProsesBebas EXCEPT !.tugas = "hapus", !.id = i, !.ikut = ikut,
                                 !.latar.ubah = ubah, !.latar.buang = buang])

\* A row that gets another name.
GantiBaca(p, i, n) ==
    Mulai(p, [ProsesBebas EXCEPT !.tugas = "ganti", !.id = i, !.baris.ke = n])

\* A row to flag, and the flagged rows of its owner that the transaction sees.
TandaiBaca(p, i) ==
    Mulai(p, [ProsesBebas EXCEPT !.tugas = "tandai", !.id = i,
                  !.pilih = {j \in Milik(baris[i].tabel, baris[i].dari) : baris[j].tanda}])

\* One category, or all of the goroutine's product, will refer to row g of the table.
PindahBaca(p, pilih, g, l) ==
    Mulai(p, [ProsesBebas EXCEPT !.tugas = "pindah", !.id = g, !.pilih = pilih, !.latar = l])

-----------------------------------------------------------------------------
(* What it writes.                                                          *)

\* The tables whose rows get a threshold row when they are made.
BerAmbang == {"barang_induk", "kategori_barang", "komentar", "review", "etalase", "diskon_produk",
              "rekening_seller", "alamat_gudang", "alamat_pengguna", "distributor_data", "brand_data",
              "informasi_kendaraan_kurir", "informasi_kurir"}

\* (Mutant) every row gets a threshold row.
BuatTulisSemua(p) ==
    LET i == Len(baris) + 1
    IN  /\ proses[p].tugas = "buat"
        /\ i <= MaxBaris
        /\ baris' = Append(baris, proses[p].baris)
        /\ latar' = Append(latar, [proses[p].latar EXCEPT !.buat = {i}])

\* A discount also starts the goroutine that waits and activates it.
BuatTulis(p) ==
    LET b == proses[p].baris
        i == Len(baris) + 1
        l == [proses[p].latar EXCEPT !.buat = IF b.tabel \in BerAmbang THEN {i} ELSE {}]
    IN  /\ proses[p].tugas = "buat"
        /\ i <= MaxBaris
        /\ baris' = Append(baris, b)
        /\ latar' = latar \o IF b.tabel = "diskon_produk"
                             THEN <<l, [LatarKosong EXCEPT !.aktif = i]>> ELSE <<l>>

\* The product and all its categories in one transaction; the goroutine first makes their
\* threshold rows, then raises the counters, that of the new product too.
MasukanTulis(p) ==
    LET r == proses[p]
        i == Len(baris) + 1
        m == r.anak.banyak
        kategori == Baris("kategori_barang", r.baris.dari, 0, <<i, r.anak.gudang, r.anak.rekening>>)
    IN  /\ r.tugas = "masukan"
        /\ i + m <= MaxBaris
        /\ baris' = Append(baris, r.baris) \o [j \in 1 .. m |-> kategori]
        /\ latar' = Append(latar, [r.latar EXCEPT !.buat = i .. i + m,
                                                 !.ubah = @ \cup {<<"barang_kategori", i, m>>}])

\* A row that is gone already is no error: the goroutine runs all the same.
HapusTulis(p) ==
    LET i == proses[p].id
        ikut == {j \in BarisAda(proses[p].ikut) : baris[j].rujuk[1] = i}
    IN  /\ proses[p].tugas = "hapus"
        /\ baris' = [j \in DOMAIN baris |-> IF j \in ikut \cup {i}
                                            THEN [baris[j] EXCEPT !.ada = FALSE] ELSE baris[j]]
        /\ latar' = Append(latar, proses[p].latar)

\* Nobody asks whether the owner has another row of that name; the goroutine only publishes.
GantiTulis(p) ==
    LET i == proses[p].id
    IN  /\ proses[p].tugas = "ganti"
        /\ baris' = [baris EXCEPT ![i].ke = IF baris[i].ada THEN proses[p].baris.ke ELSE @]
        /\ UNCHANGED latar

\* (Mutant) the default account is not taken back.
TandaiTulisSaja(p) ==
    /\ proses[p].tugas = "tandai"
    /\ baris' = [baris EXCEPT ![proses[p].id].tanda = baris[proses[p].id].ada]
    /\ UNCHANGED latar

TandaiTulis(p) ==
    LET i == proses[p].id
    IN  /\ proses[p].tugas = "tandai"
        /\ baris' = [j \in DOMAIN baris |->
                        IF ~baris[j].ada \/ j \notin proses[p].pilih \cup {i} THEN baris[j]
                        ELSE [baris[j] EXCEPT !.tanda = j = i]]
        /\ UNCHANGED latar

PindahTulis(p) ==
    LET r == proses[p]
        tempat == IF baris[r.id].tabel = "alamat_gudang" THEN 2 ELSE 3
        pindah == {j \in BarisAda("kategori_barang") : j \in r.pilih}
    IN  /\ r.tugas = "pindah"
        /\ baris' = [j \in DOMAIN baris |-> IF j \in pindah \cup KategoriDari(r.latar.barang)
                        THEN [baris[j] EXCEPT !.rujuk[tempat] = r.id] ELSE baris[j]]
        /\ latar' = Append(latar, proses[p].latar)

\* The request fails before it writes.
Putus(p) == gangguan /\ proses[p] # ProsesBebas /\ UNCHANGED <<baris, latar>>

Langkah(p) ==
    /\ \/ BuatTulis(p) \/ MasukanTulis(p) \/ HapusTulis(p)
       \/ GantiTulis(p) \/ TandaiTulis(p) \/ PindahTulis(p) \/ Putus(p)
    /\ Len(latar') <= MaxLatar
    /\ proses' = [proses EXCEPT ![p] = ProsesBebas]
    /\ UNCHANGED <<ambang, hitung, keadaan>>

-----------------------------------------------------------------------------
(* The goroutines.                                                          *)

\* The columns of the threshold rows that come and go with a row.
KolomAmbang == {"barang_disukai", "barang_komentar", "barang_keranjang", "barang_review",
                "barang_ke_etalase", "barang_di_diskon", "barang_kategori", "kategori_keranjang",
                "kategori_di_diskon", "komentar_child", "review_like", "review_dislike",
                "etalase_barang", "diskon_barang", "gudang_kategori", "rekening_kategori"}

\* An update of a threshold row that is not one of A, or of id 0, changes nothing.
Kena(U, A) == {u \in U : IF u[1] \in KolomAmbang THEN u[2] \in A ELSE u[2] # 0}

\* What the changes U add to counter k.
Tambahan(U, k) == SumFunctionOnSet([u \in U |-> u[3]], {u \in U : <<u[1], u[2]>> = k})

Geser(h, U) ==
    LET Lama(k) == IF k \in DOMAIN h THEN h[k] ELSE 0
        Baru(k) == Lama(k) + Tambahan(U, k)
    IN  [k \in {j \in DOMAIN h \cup {<<u[1], u[2]>> : u \in U} : Baru(j) # 0} |-> Baru(k)]

Sisa(i) == SubSeq(latar, 1, i - 1) \o SubSeq(latar, i + 1, Len(latar))

\* Some of the statements (all of them, unless something fails).
Sebagian(S) == IF gangguan THEN SUBSET S ELSE {S}

\* (A number of categories below zero makes the goroutine panic before it moves a counter,
\* and the process is restarted: one of the things that fail.)
LatarHitung(i) ==
    LET l == latar[i]
        n == Isi(<<"barang_kategori", l.barang>>)
        kali == {<<u[1], u[2], u[3] * n>> : u \in l.kali}
    IN  /\ l.aktif = 0
        /\ \E U \in Sebagian(l.ubah), V \in Sebagian(kali), B \in Sebagian(l.buat), H \in Sebagian(l.buang) :
              /\ l.kali # {} /\ n < 0 => U = {} /\ V = {}
              /\ LET h == Geser(Geser(hitung, Kena(U, ambang \cup B)), Kena(V, ambang))
                 IN  hitung' = [k \in {j \in DOMAIN h : j[1] \in KolomAmbang => j[2] \notin H} |-> h[k]]
              /\ ambang' = (ambang \cup B) \ H
        /\ latar' = Sisa(i)
        /\ UNCHANGED <<baris, proses, keadaan>>

\* A restart loses the goroutine, and the discount stays a draft.
LatarAktif(i) ==
    /\ latar[i].aktif # 0
    /\ \/ baris' = [baris EXCEPT ![latar[i].aktif].tanda = baris[latar[i].aktif].ada]
       \/ gangguan /\ UNCHANGED baris
    /\ latar' = Sisa(i)
    /\ UNCHANGED <<ambang, hitung, proses, keadaan>>

-----------------------------------------------------------------------------
RelasiTypeOK ==
    /\ Len(baris) <= MaxBaris
    /\ \A i \in DOMAIN baris :
          /\ baris[i].dari \in Pengguna \cup Seller \cup Kurir
          /\ baris[i].ke \in Nama \cup Seller \cup {0}
          /\ \A n \in DOMAIN baris[i].rujuk : baris[i].rujuk[n] \in DOMAIN baris
    /\ ambang \subseteq {i \in DOMAIN baris : baris[i].tabel \in BerAmbang}
    /\ \A k \in DOMAIN hitung : hitung[k] \in Int \ {0}
    /\ Len(latar) <= MaxLatar
=============================================================================
