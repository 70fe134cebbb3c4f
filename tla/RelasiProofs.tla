---------------------------- MODULE RelasiProofs ----------------------------
(***************************************************************************)
(* Proofs about RelasiLayanan, for any people, names, concurrent requests   *)
(* and bounds.  Every request is reduced to what its row and its goroutine  *)
(* must satisfy when it has read (Awal, Minta); the steps of the            *)
(* transactions and of the goroutines then preserve Inv whatever the        *)
(* request was.                                                             *)
(***************************************************************************)
EXTENDS RelasiLayanan, JumlahProofs, SequenceTheorems

\* How many rows a row refers to.
Panjang(t) ==
    IF t \in {"barang_disukai", "komentar", "komentar_child", "review", "review_like"} THEN 1
    ELSE IF t \in {"keranjang", "barang_ke_etalase"} THEN 2
    ELSE IF t \in {"barang_di_diskon", "kategori_barang", "tagihan"} THEN 3
    ELSE IF t = "pesanan" THEN 4 ELSE 0

Tabel == BerAmbang \cup {"barang_disukai", "komentar_child", "keranjang", "review_like", "follower",
                         "barang_ke_etalase", "barang_di_diskon", "alamat_kurir", "rekening_kurir",
                         "tagihan", "pesanan"}
TabelNama == {"alamat_pengguna", "etalase", "diskon_produk", "rekening_seller", "alamat_gudang",
              "barang_induk"}
TabelIkut == {"barang_ke_etalase", "barang_di_diskon", "kategori_barang"}
Tugas == {"", "buat", "masukan", "hapus", "ganti", "tandai", "pindah"}
BarisLepas == {Baris("", 0, k, << >>) : k \in Nama \cup {0}}

\* The counters that KolomBenar speaks of, of people and of threshold rows, those that move by a
\* number of categories, and the others that are not of threshold rows.
KolomOrang == {"pengguna_keranjang", "pengguna_following", "seller_follower", "pengguna_review",
               "pengguna_alamat", "seller_etalase", "seller_diskon", "seller_rekening",
               "seller_gudang", "seller_barang_induk", "seller_distributor", "seller_brand",
               "kurir_alamat", "kurir_kendaraan", "kurir_informasi"}
KolomRujuk == {"barang_keranjang", "barang_review", "etalase_barang", "diskon_barang", "barang_kategori"}
KolomKali == {"gudang_kategori", "rekening_kategori"}
KolomLain == {"pengguna_disukai", "seller_kategori", "seller_barang_di_diskon", "kurir_rekening"}
Kolom == KolomOrang \cup KolomAmbang \cup KolomLain

TipeBaris(n) ==
    [tabel : Tabel, dari : Pengguna \cup Seller \cup Kurir, ke : Nama \cup Seller \cup {0},
     rujuk : Seq(1 .. n), tanda : BOOLEAN, ada : BOOLEAN]
Perubahan == Kolom \X Nat \X Int
TipeLatar(n) ==
    [ubah : SUBSET Perubahan, kali : SUBSET Perubahan, barang : 0 .. n,
     buat : SUBSET (1 .. n), buang : SUBSET (1 .. n), aktif : 0 .. n]
TipeAnak(n) == [banyak : Nat, gudang : 0 .. n, rekening : 0 .. n]
TipeProses(n) ==
    [tugas : Tugas, baris : TipeBaris(n) \cup BarisLepas,
     anak : TipeAnak(n), id : 0 .. n, pilih : SUBSET (1 .. n), ikut : TabelIkut \cup {""}, latar : TipeLatar(n)]

\* Row r of the table b refers to rows of the right kind, and a category belongs to the seller of
\* its product.
Rujukan(b, r) ==
    /\ Len(r.rujuk) = Panjang(r.tabel)
    /\ r.tabel = "kategori_barang" =>
           /\ b[r.rujuk[1]].tabel = "barang_induk" /\ b[r.rujuk[1]].dari = r.dari
           /\ b[r.rujuk[2]].tabel = "alamat_gudang" /\ b[r.rujuk[3]].tabel = "rekening_seller"
    /\ r.tabel \in {"tagihan", "pesanan"} =>
           /\ b[r.rujuk[1]].tabel = "kategori_barang"
           /\ b[r.rujuk[2]].tabel = "alamat_gudang" /\ b[r.rujuk[3]].tabel = "alamat_pengguna"

BarisSah(b) == b \in Seq(TipeBaris(Len(b))) /\ \A i \in DOMAIN b : Rujukan(b, b[i])

LatarSah(b, l) ==
    /\ l \in TipeLatar(Len(b))
    /\ IsFiniteSet(l.ubah) /\ IsFiniteSet(l.kali)
    /\ \A u \in l.kali : u[1] \in KolomKali
    /\ l.kali # {} => \A u \in l.ubah : u[1] \in KolomKali
    /\ \A i \in l.buat : b[i].tabel \in BerAmbang
    /\ l.aktif # 0 => /\ b[l.aktif].tabel = "diskon_produk"
                      /\ l.ubah = {} /\ l.kali = {} /\ l.buat = {} /\ l.buang = {}

ProsesSah(b, r) ==
    /\ r \in TipeProses(Len(b))
    /\ LatarSah(b, r.latar) /\ r.latar.buat = {} /\ r.latar.aktif = 0
    /\ r.tugas # "pindah" => r.latar.kali = {}
    /\ r.tugas \in {"buat", "masukan"} => r.baris \in TipeBaris(Len(b)) /\ r.baris.ada /\ Rujukan(b, r.baris)
    /\ r.tugas = "masukan" => /\ r.baris.tabel = "barang_induk" /\ r.anak.gudang # 0 /\ r.anak.rekening # 0
                              /\ b[r.anak.gudang].tabel = "alamat_gudang"
                              /\ b[r.anak.rekening].tabel = "rekening_seller"
    /\ r.tugas \in {"hapus", "ganti", "tandai", "pindah"} => r.id # 0
    /\ r.tugas = "ganti" => b[r.id].tabel \in TabelNama /\ r.baris.ke \in Nama
    /\ r.tugas = "tandai" => b[r.id].tabel = "rekening_seller"
    /\ r.tugas = "pindah" => b[r.id].tabel \in {"alamat_gudang", "rekening_seller"}

HitungSah(h) == \A k \in DOMAIN h : h[k] \in Int \ {0}

AmbangSah(b, a) == a \subseteq {i \in DOMAIN b : b[i].tabel \in BerAmbang}
LatarSemua(b, lt) == lt \in Seq(TipeLatar(Len(b))) /\ \A i \in DOMAIN lt : LatarSah(b, lt[i])
ProsesSemua(b, pr) == pr \in [Proses -> TipeProses(Len(b))] /\ \A p \in Proses : ProsesSah(b, pr[p])

TypeInv ==
    /\ BarisSah(baris) /\ Len(baris) <= MaxBaris
    /\ AmbangSah(baris, ambang)
    /\ HitungSah(hitung)
    /\ LatarSemua(baris, latar) /\ Len(latar) <= MaxLatar
    /\ ProsesSemua(baris, proses)

\* What a step may do to a row: it takes another name or, a category, another warehouse or
\* account, it is flagged, or deleted.
Turunan(r, s) ==
    /\ s.tabel = r.tabel /\ s.dari = r.dari /\ (s.ada => r.ada)
    /\ r.tabel \in TabelNama \/ s.ke = r.ke
    /\ Len(s.rujuk) = Len(r.rujuk)
    /\ IF r.tabel = "kategori_barang" THEN s.rujuk[1] = r.rujuk[1] ELSE s.rujuk = r.rujuk
\* And to the rows: it adds some.
Lanjut(b, c) ==
    /\ BarisSah(c) /\ Len(b) \in Nat /\ Len(c) \in Nat /\ Len(b) <= Len(c)
    /\ \A i \in DOMAIN b : Turunan(b[i], c[i])

\* Row r is counted by counter c of x.
Menghitung(r, c, x) ==
    /\ KolomBenar[c].tabel = r.tabel
    /\ x = IF KolomBenar[c].oleh = "rujuk" THEN r.rujuk[1] ELSE r[KolomBenar[c].oleh]

Terhitung(b, c, x) == {i \in DOMAIN b : b[i].ada /\ Menghitung(b[i], c, x)}

Naik == 1
Turun == -1

\* As far as the columns S are concerned, the changes U move the counters of row r by n.
Cocokan(S, U, r, n) ==
    /\ \A u \in U : u[1] \in S => u[3] = n /\ Menghitung(r, u[1], u[2])
    /\ \A c \in S, x \in Nat : Menghitung(r, c, x) => <<c, x, n>> \in U

\* What a request will write, and the counters its goroutine will move.
Hitungan(b, r) ==
    /\ r.tugas \in {"buat", "masukan"} => Cocokan(DOMAIN KolomBenar, r.latar.ubah, r.baris, Naik)
    /\ r.tugas = "hapus" => Cocokan(KolomOrang, r.latar.ubah, b[r.id], Turun)
    /\ r.tugas = "pindah" => \A u \in r.latar.ubah : u[1] \in KolomKali

-----------------------------------------------------------------------------
(* What a request has read is still true when it is alone.                  *)

\* The tables of which one row is enough, and what tells two rows apart.
Tunggal == {"barang_disukai", "keranjang", "follower", "review_like", "barang_ke_etalase",
            "barang_di_diskon", "distributor_data", "brand_data", "alamat_kurir", "rekening_kurir",
            "informasi_kendaraan_kurir", "informasi_kurir"}
Ciri(r) ==
    IF r.tabel = "barang_ke_etalase" THEN r.rujuk
    ELSE IF r.tabel = "barang_di_diskon" THEN <<r.dari, r.rujuk[3]>>
    ELSE <<r.dari, r.ke, r.rujuk>>

\* Two rows that may not both be there.
Sama(r, s) == r.tabel = s.tabel /\ r.tabel \in Tunggal /\ Ciri(r) = Ciri(s)

Punya(b, t, o) == {i \in DOMAIN b : b[i].ada /\ b[i].tabel = t /\ b[i].dari = o}
Terbatas == {"alamat_pengguna", "diskon_produk"}

\* An order that has not arrived.
Terbuka(r) == r.ada /\ r.tabel = "pesanan" /\ ~r.tanda

SegarBuat(b, r) ==
    /\ \A i \in DOMAIN b : b[i].ada => ~Sama(b[i], r)
    /\ r.tabel = "rekening_seller" /\ r.tanda => Punya(b, r.tabel, r.dari) = {}
    /\ r.tabel \in Terbatas => Cardinality(Punya(b, r.tabel, r.dari)) < Batas

\* No order that has not arrived refers to row i of the warehouses or of the buyers' addresses.
SegarGanti(b, i) ==
    /\ b[i].tabel = "alamat_gudang" => \A j \in DOMAIN b : Terbuka(b[j]) => b[j].rujuk[2] # i
    /\ b[i].tabel = "alamat_pengguna" => \A j \in DOMAIN b : Terbuka(b[j]) => b[j].rujuk[3] # i

SegarHapus(b, i, U) ==
    /\ b[i].ada
    /\ SegarGanti(b, i)
    /\ b[i].tabel = "alamat_gudang" =>
           \A j \in DOMAIN b : b[j].ada /\ b[j].tabel = "kategori_barang" => b[j].rujuk[2] # i
    /\ Cocokan(KolomRujuk, U, b[i], Turun)

SegarTandai(b, i, S) ==
    /\ \A j \in S : b[j].tabel = "rekening_seller"
    /\ \A j \in Punya(b, "rekening_seller", b[i].dari) : b[j].tanda => j \in S

\* The categories that a request moves are of the owner of what they will refer to.
Pindah(b, r) == {j \in DOMAIN b : /\ b[j].ada /\ b[j].tabel = "kategori_barang"
                                  /\ j \in r.pilih \/ b[j].rujuk[1] = r.latar.barang}
SegarPindah(b, r) == b[r.id].ada /\ \A j \in Pindah(b, r) : b[j].dari = b[r.id].dari

Segar(b, r) ==
    /\ r.tugas = "buat" => SegarBuat(b, r.baris)
    /\ r.tugas = "hapus" => SegarHapus(b, r.id, r.latar.ubah)
    /\ r.tugas = "ganti" => SegarGanti(b, r.id)
    /\ r.tugas = "tandai" => SegarTandai(b, r.id, r.pilih)
    /\ r.tugas = "pindah" => SegarPindah(b, r)

-----------------------------------------------------------------------------
(* The invariant.                                                           *)

\* For owners who wait: one request, or one goroutine but for those that activate discounts.
Sendiri(pr, lt) ==
    /\ \A p, q \in Proses : pr[p].tugas # "" /\ pr[q].tugas # "" => p = q
    /\ \A p \in Proses, i \in DOMAIN lt : pr[p].tugas # "" => lt[i].aktif # 0
    /\ \A i, j \in DOMAIN lt : lt[i].aktif = 0 /\ lt[j].aktif = 0 => i = j

TanpaGandaB(b) ==
    /\ \A i, j \in DOMAIN b : b[i].ada /\ b[j].ada /\ Sama(b[i], b[j]) => i = j
    /\ \A o \in Seller : \A i, j \in Punya(b, "rekening_seller", o) : b[i].tanda /\ b[j].tanda => i = j
BatasB(b) ==
    \A o \in Pengguna \cup Seller \cup Kurir, t \in Terbatas : Cardinality(Punya(b, t, o)) <= Batas

\* Counters of threshold rows that are not there are zero.
AmbangInv == \A k \in DOMAIN hitung : k[1] \in KolomAmbang => k[2] \in ambang

OrangInv ==
    \A c \in KolomOrang, x \in Nat \ {0} :
        /\ Isi(<<c, x>>) + AkanDatang(<<c, x>>) <= Cardinality(Terhitung(baris, c, x))
        /\ tertib => Isi(<<c, x>>) + AkanDatang(<<c, x>>) = Cardinality(Terhitung(baris, c, x))

\* For owners who wait only one goroutine is left to run, discounts that wait for their time
\* apart: when it has made its threshold rows and moved its counters, they are right.
Nilai(h, k) == IF k \in DOMAIN h THEN h[k] ELSE 0
Rata(b, a, h) ==
    \A c \in KolomRujuk, x \in a : b[x].ada => Nilai(h, <<c, x>>) = Cardinality(Terhitung(b, c, x))
Melunasi(b, a, h, l) ==
    \A c \in KolomRujuk, x \in a \cup l.buat :
        b[x].ada => Nilai(h, <<c, x>>) + Tambahan(l.ubah, <<c, x>>) = Cardinality(Terhitung(b, c, x))
SemuaAktif(lt) == \A i \in DOMAIN lt : lt[i].aktif # 0
Rujuk(b, a, h, lt) ==
    /\ SemuaAktif(lt) => Rata(b, a, h)
    /\ \A i \in DOMAIN lt : lt[i].aktif = 0 => Melunasi(b, a, h, lt[i])
RujukInv == Rujuk(baris, ambang, hitung, latar)

TertibInv ==
    /\ Sendiri(proses, latar)
    /\ \A p \in Proses : Segar(baris, proses[p])
    /\ TanpaGandaB(baris) /\ BatasB(baris)

\* A request: what it holds when it has read.
Awal(r) == /\ ProsesSah(baris, r) /\ r.tugas # "" /\ Hitungan(baris, r)
           /\ tertib => Segar(baris, r)
Minta(p) == \E r : Awal(r) /\ Mulai(p, r)

\* Every goroutine writes to the counters what its request does to the rows; no counter is there
\* without its threshold row; and what holds of requests that are alone, of counters while no
\* step fails, and of both.
Inv ==
    /\ TypeInv
    /\ \A p \in Proses : Hitungan(baris, proses[p])
    /\ AmbangInv
    /\ tertib => TertibInv
    /\ ~gangguan => OrangInv
    /\ tertib /\ ~gangguan => RujukInv

-----------------------------------------------------------------------------
(* Data.                                                                    *)

LEMMA KolomDomain ==
    /\ DOMAIN KolomBenar = KolomOrang \cup KolomRujuk
    /\ KolomOrang \cap KolomAmbang = {} /\ KolomRujuk \subseteq KolomAmbang
    /\ KolomKali \cap DOMAIN KolomBenar = {} /\ KolomKali \subseteq KolomAmbang
<1>1. DOMAIN KolomBenar = KolomOrang \cup KolomRujuk
  BY DEF KolomBenar, KolomOrang, KolomRujuk
<1>2. KolomOrang \cap KolomAmbang = {} /\ KolomRujuk \subseteq KolomAmbang
  BY DEF KolomOrang, KolomRujuk, KolomAmbang
<1>3. KolomKali \cap (KolomOrang \cup KolomRujuk) = {} /\ KolomKali \subseteq KolomAmbang
  BY DEF KolomOrang, KolomRujuk, KolomKali, KolomAmbang
<1> QED BY <1>1, <1>2, <1>3

LEMMA BarisDomain ==
    ASSUME NEW b, BarisSah(b)
    PROVE  /\ Len(b) \in Nat /\ DOMAIN b = 1 .. Len(b)
           /\ \A i \in DOMAIN b : b[i] \in TipeBaris(Len(b)) /\ Rujukan(b, b[i])
<1>1. b \in Seq(TipeBaris(Len(b)))
  BY DEF BarisSah
<1> DEFINE T == TipeBaris(Len(b))
<1> HIDE DEF T
<1>2. b \in Seq(T)
  BY <1>1 DEF T
<1>3. Len(b) \in Nat /\ DOMAIN b = 1 .. Len(b) /\ \A i \in DOMAIN b : b[i] \in T
  BY <1>2
<1> QED BY <1>3 DEF BarisSah, T

\* The types grow with the number of rows.
LEMMA TipeTumbuh ==
    ASSUME NEW n \in Nat, NEW m \in Nat, n <= m
    PROVE  /\ TipeBaris(n) \subseteq TipeBaris(m)
           /\ TipeLatar(n) \subseteq TipeLatar(m)
           /\ TipeProses(n) \subseteq TipeProses(m)
<1>1. 1 .. n \subseteq 1 .. m /\ 0 .. n \subseteq 0 .. m
  OBVIOUS
<1> DEFINE A == 1 .. n
           B == 1 .. m
           C == 0 .. n
           D == 0 .. m
<1>2. A \subseteq B /\ C \subseteq D
  BY <1>1
<1>3. TipeBaris(n) \subseteq TipeBaris(m)
  <2> HIDE DEF A, B
  <2>1. Seq(A) \subseteq Seq(B)
    BY <1>2
  <2>2. Seq(1 .. n) \subseteq Seq(1 .. m)
    BY <2>1 DEF A, B
  <2> QED BY <2>2 DEF TipeBaris
<1>4. TipeLatar(n) \subseteq TipeLatar(m)
  BY <1>1 DEF TipeLatar
<1>5. TipeProses(n) \subseteq TipeProses(m)
  <2>1. TipeAnak(n) \subseteq TipeAnak(m)
    BY <1>1 DEF TipeAnak
  <2> QED BY <1>1, <1>3, <1>4, <2>1 DEF TipeProses
<1> QED BY <1>3, <1>4, <1>5

LEMMA SeqTumbuh ==
    ASSUME NEW S, NEW T, S \subseteq T, NEW s \in Seq(S)
    PROVE  s \in Seq(T)
OBVIOUS

\* What a row refers to, one by one.
LEMMA RujukIndeks ==
    ASSUME NEW n \in Nat, NEW r \in TipeBaris(n)
    PROVE  /\ Len(r.rujuk) \in Nat /\ \A k \in 1 .. Len(r.rujuk) : r.rujuk[k] \in 1 .. n
           /\ Len(r.rujuk) \in {1, 2, 3, 4} => r.rujuk[1] \in 1 .. n
           /\ Len(r.rujuk) \in {2, 3, 4} => r.rujuk[2] \in 1 .. n
           /\ Len(r.rujuk) \in {3, 4} => r.rujuk[3] \in 1 .. n
           /\ Len(r.rujuk) = 4 => r.rujuk[4] \in 1 .. n
<1> DEFINE u == r.rujuk
           S == 1 .. n
<1>1. u \in Seq(S)
  BY DEF TipeBaris
<1> HIDE DEF u, S
<1>2. Len(u) \in Nat /\ \A k \in 1 .. Len(u) : u[k] \in S
  BY <1>1
<1>3. /\ Len(u) \in {1, 2, 3, 4} => u[1] \in S
      /\ Len(u) \in {2, 3, 4} => u[2] \in S
      /\ Len(u) \in {3, 4} => u[3] \in S
      /\ Len(u) = 4 => u[4] \in S
  BY <1>2
<1> QED BY <1>2, <1>3 DEF u, S

LEMMA PanjangIsi ==
    /\ \A t \in {"barang_disukai", "komentar", "komentar_child", "review", "review_like"} : Panjang(t) = 1
    /\ \A t \in {"keranjang", "barang_ke_etalase"} : Panjang(t) = 2
    /\ \A t \in {"barang_di_diskon", "kategori_barang", "tagihan"} : Panjang(t) = 3
    /\ Panjang("pesanan") = 4
    /\ \A t \in TabelNama \cup {"follower", "distributor_data", "brand_data", "alamat_kurir", "rekening_kurir",
                                 "informasi_kendaraan_kurir", "informasi_kurir"} : Panjang(t) = 0
BY DEF Panjang, TabelNama

\* What was well formed stays so while the rows are of the same tables and owners.
LEMMA RujukanSerupa ==
    ASSUME NEW b, NEW c, Len(b) \in Nat, NEW r \in TipeBaris(Len(b)), Rujukan(b, r),
           \A i \in 1 .. Len(b) : c[i].tabel = b[i].tabel /\ c[i].dari = b[i].dari
    PROVE  Rujukan(c, r)
<1> DEFINE n == Len(b)
<1>1. /\ Len(r.rujuk) \in {1, 2, 3, 4} => r.rujuk[1] \in 1 .. n
      /\ Len(r.rujuk) \in {2, 3, 4} => r.rujuk[2] \in 1 .. n
      /\ Len(r.rujuk) \in {3, 4} => r.rujuk[3] \in 1 .. n
  BY RujukIndeks
<1>2. r.tabel \in {"kategori_barang", "tagihan", "pesanan"} => Len(r.rujuk) \in {3, 4}
  BY PanjangIsi DEF Rujukan
<1>3. r.tabel \in {"kategori_barang", "tagihan", "pesanan"} =>
          r.rujuk[1] \in 1 .. n /\ r.rujuk[2] \in 1 .. n /\ r.rujuk[3] \in 1 .. n
  BY <1>1, <1>2
<1> QED BY <1>3 DEF Rujukan

LEMMA RujukanTetap ==
    ASSUME NEW b, NEW c, BarisSah(b), Lanjut(b, c), NEW r \in TipeBaris(Len(b)), Rujukan(b, r)
    PROVE  Rujukan(c, r)
<1>1. /\ DOMAIN b = 1 .. Len(b) /\ Len(b) \in Nat
      /\ \A i \in DOMAIN b : c[i].tabel = b[i].tabel /\ c[i].dari = b[i].dari
  BY BarisDomain DEF Lanjut, Turunan
<1> QED BY <1>1, RujukanSerupa

LEMMA LatarTetap ==
    ASSUME NEW b, NEW c, BarisSah(b), Lanjut(b, c), NEW l, LatarSah(b, l)
    PROVE  LatarSah(c, l)
<1>1. /\ DOMAIN b = 1 .. Len(b) /\ Len(b) \in Nat /\ Len(c) \in Nat /\ Len(b) <= Len(c)
      /\ \A i \in DOMAIN b : c[i].tabel = b[i].tabel
  BY BarisDomain DEF Lanjut, Turunan
<1>2. l \in TipeLatar(Len(b)) /\ l \in TipeLatar(Len(c))
  BY <1>1, TipeTumbuh DEF LatarSah
<1>3. l.buat \subseteq DOMAIN b /\ l.aktif \in 0 .. Len(b)
  BY <1>1, <1>2 DEF TipeLatar
<1> QED BY <1>1, <1>2, <1>3 DEF LatarSah

LEMMA ProsesTetap ==
    ASSUME NEW b, NEW c, BarisSah(b), Lanjut(b, c), NEW r, ProsesSah(b, r)
    PROVE  ProsesSah(c, r)
<1>1. /\ DOMAIN b = 1 .. Len(b) /\ Len(b) \in Nat /\ Len(c) \in Nat /\ Len(b) <= Len(c)
      /\ \A i \in DOMAIN b : c[i].tabel = b[i].tabel
  BY BarisDomain DEF Lanjut, Turunan
<1>2. r \in TipeProses(Len(b)) /\ r \in TipeProses(Len(c))
  BY <1>1, TipeTumbuh DEF ProsesSah
<1>3. r.id \in 0 .. Len(b) /\ r.anak.gudang \in 0 .. Len(b) /\ r.anak.rekening \in 0 .. Len(b)
  BY <1>2 DEF TipeProses, TipeAnak
<1>4. \A i \in {r.id, r.anak.gudang, r.anak.rekening} : i # 0 => c[i].tabel = b[i].tabel
  BY <1>1, <1>3
<1>5. LatarSah(c, r.latar)
  BY LatarTetap DEF ProsesSah
<1>6. r.tugas \in {"buat", "masukan"} => r.baris \in TipeBaris(Len(c)) /\ r.baris.ada /\ Rujukan(c, r.baris)
  <2> SUFFICES ASSUME r.tugas \in {"buat", "masukan"}
               PROVE r.baris \in TipeBaris(Len(c)) /\ r.baris.ada /\ Rujukan(c, r.baris)
    OBVIOUS
  <2>1. r.baris \in TipeBaris(Len(b)) /\ r.baris.ada /\ Rujukan(b, r.baris)
    BY DEF ProsesSah
  <2> QED BY <2>1, <1>1, TipeTumbuh, RujukanTetap
<1>7. r.latar.buat = {} /\ r.latar.aktif = 0 /\ (r.tugas # "pindah" => r.latar.kali = {})
  BY DEF ProsesSah
<1>8. r.tugas = "tandai" => c[r.id].tabel = "rekening_seller"
  BY <1>4 DEF ProsesSah
<1>9. r.tugas = "pindah" => c[r.id].tabel \in {"alamat_gudang", "rekening_seller"}
  BY <1>4 DEF ProsesSah
<1>10. r.tugas \in {"hapus", "ganti", "tandai", "pindah"} => r.id # 0
  BY DEF ProsesSah
<1>11. r.tugas = "ganti" => c[r.id].tabel \in TabelNama /\ r.baris.ke \in Nama
  BY <1>4 DEF ProsesSah
<1>12. r.tugas = "masukan" => /\ r.baris.tabel = "barang_induk" /\ r.anak.gudang # 0 /\ r.anak.rekening # 0
                              /\ c[r.anak.gudang].tabel = "alamat_gudang"
                              /\ c[r.anak.rekening].tabel = "rekening_seller"
  BY <1>4 DEF ProsesSah
<1> QED BY <1>2, <1>5, <1>6, <1>7, <1>8, <1>9, <1>10, <1>11, <1>12 DEF ProsesSah

\* A request, field by field.
IsiProses(q, g, b, a, i, S, t, l) ==
    q = [tugas |-> g, baris |-> b, anak |-> a, id |-> i, pilih |-> S, ikut |-> t, latar |-> l]
BagianProses(n, g, b, a, i, S, t, l) ==
    /\ n \in Nat /\ g \in Tugas /\ b \in TipeBaris(n) \cup BarisLepas /\ a \in TipeAnak(n)
    /\ i \in 0 .. n /\ S \in SUBSET (1 .. n) /\ t \in TabelIkut \cup {""} /\ l \in TipeLatar(n)

LEMMA RekamProses ==
    ASSUME NEW n, NEW g, NEW b, NEW a, NEW i, NEW S, NEW t, NEW l, NEW q,
           BagianProses(n, g, b, a, i, S, t, l), IsiProses(q, g, b, a, i, S, t, l)
    PROVE  /\ q \in TipeProses(n) /\ q.tugas = g /\ q.baris = b /\ q.anak = a /\ q.id = i
           /\ q.pilih = S /\ q.ikut = t /\ q.latar = l
BY DEF TipeProses, IsiProses, BagianProses

LEMMA BebasSah ==
    ASSUME NEW b, Len(b) \in Nat
    PROVE  ProsesSah(b, ProsesBebas) /\ ProsesBebas.tugas = "" /\ ProsesBebas.latar = LatarKosong
<1>1. /\ ProsesBebas.latar = LatarKosong /\ ProsesBebas.baris = Baris("", 0, 0, << >>) /\ ProsesBebas.tugas = ""
      /\ ProsesBebas.anak = AnakKosong /\ ProsesBebas.baris \in BarisLepas
  BY DEF ProsesBebas, BarisLepas
<1>2. LatarSah(b, LatarKosong)
  BY FS_EmptySet DEF LatarSah, LatarKosong, TipeLatar
<1>3. ProsesBebas \in TipeProses(Len(b))
  <2>0. PICK n \in Nat : n = Len(b)
    OBVIOUS
  <2>1. PICK a, l, k : a = AnakKosong /\ l = LatarKosong /\ k = Baris("", 0, 0, << >>)
    OBVIOUS
  <2>2. a \in TipeAnak(n)
    <3>1. AnakKosong \in TipeAnak(n)
      BY DEF AnakKosong, TipeAnak
    <3> QED BY <2>1, <3>1
  <2>3. l \in TipeLatar(n) /\ k \in BarisLepas
    BY <2>0, <2>1, <1>1, <1>2 DEF LatarSah
  <2>4. PICK t, z, S : t = "" /\ z = 0 /\ S = {}
    OBVIOUS
  <2>5. IsiProses(ProsesBebas, t, k, a, z, S, t, l)
    BY <2>1, <2>4 DEF ProsesBebas, IsiProses
  <2>6. BagianProses(n, t, k, a, z, S, t, l)
    <3>1. z \in 0 .. n /\ S \in SUBSET (1 .. n) /\ t \in TabelIkut \cup {""} /\ t \in Tugas
      <4>1. 0 \in 0 .. n /\ {} \in SUBSET (1 .. n)
        OBVIOUS
      <4>2. "" \in TabelIkut \cup {""} /\ "" \in Tugas
        BY DEF Tugas
      <4> QED BY <2>4, <4>1, <4>2, Zenon
    <3>2. k \in TipeBaris(n) \cup BarisLepas
      BY <2>3
    <3> QED BY <2>2, <2>3, <3>1, <3>2 DEF BagianProses
  <2> QED BY <2>0, <2>5, <2>6, RekamProses
<1>4. LatarKosong.buat = {} /\ LatarKosong.aktif = 0 /\ LatarKosong.kali = {}
  BY DEF LatarKosong
<1> QED BY <1>1, <1>2, <1>3, <1>4 DEF ProsesSah

LEMMA InvTipe == TypeInv => TypeOK
<1> SUFFICES ASSUME TypeInv PROVE TypeOK
  OBVIOUS
<1>1. Len(baris) \in Nat /\ DOMAIN baris = 1 .. Len(baris) /\ \A i \in DOMAIN baris : baris[i] \in TipeBaris(Len(baris))
  BY BarisDomain DEF TypeInv
<1>2. ASSUME NEW i \in DOMAIN baris
      PROVE  /\ baris[i].dari \in Pengguna \cup Seller \cup Kurir
             /\ baris[i].ke \in Nama \cup Seller \cup {0}
             /\ \A n \in DOMAIN baris[i].rujuk : baris[i].rujuk[n] \in DOMAIN baris
  <2>1. baris[i] \in TipeBaris(Len(baris))
    BY <1>1
  <2>2. /\ baris[i].dari \in Pengguna \cup Seller \cup Kurir
        /\ baris[i].ke \in Nama \cup Seller \cup {0}
        /\ baris[i].rujuk \in Seq(1 .. Len(baris))
    BY <2>1 DEF TipeBaris
  <2> DEFINE S == 1 .. Len(baris)
             r == baris[i].rujuk
  <2> HIDE DEF S, r
  <2>3. r \in Seq(S)
    BY <2>2 DEF S, r
  <2>4. \A n \in DOMAIN r : r[n] \in S
    BY <2>3
  <2> QED BY <1>1, <2>2, <2>4 DEF S, r
<1> QED BY <1>2 DEF TypeInv, TypeOK, RelasiTypeOK, HitungSah, AmbangSah

LEMMA InitTipe == Init => TypeInv
<1> SUFFICES ASSUME Init PROVE TypeInv
  OBVIOUS
<1>1. baris = << >> /\ latar = << >> /\ ambang = {} /\ hitung = << >> /\ Len(baris) = 0 /\ Len(latar) = 0
      /\ DOMAIN baris = {} /\ DOMAIN latar = {} /\ DOMAIN hitung = {}
  BY DEF Init
<1>2. BarisSah(baris) /\ LatarSemua(baris, latar)
  BY <1>1 DEF BarisSah, LatarSemua
<1>3. ProsesSah(baris, ProsesBebas)
  BY <1>1, BebasSah
<1>4. ProsesBebas \in TipeProses(Len(baris))
  BY <1>3 DEF ProsesSah
<1>5. proses = [p \in Proses |-> ProsesBebas]
  BY DEF Init
<1>6. ProsesSemua(baris, proses)
  BY <1>3, <1>4, <1>5 DEF ProsesSemua
<1>7. HitungSah(hitung) /\ AmbangSah(baris, ambang)
  BY <1>1 DEF HitungSah, AmbangSah
<1>8. 0 <= MaxBaris /\ 0 <= MaxLatar
  BY RelasiAssumption DEF RelasiAssumption
<1> QED BY <1>1, <1>2, <1>6, <1>7, <1>8 DEF TypeInv

\* One request becomes another well-formed one.
Ganti(pr, ps, p, r) == \A q \in Proses : ps[q] = IF q = p THEN r ELSE pr[q]

LEMMA ProsesBaru ==
    ASSUME NEW b, NEW c, NEW pr, NEW ps, BarisSah(b), Lanjut(b, c), ProsesSemua(b, pr),
           NEW p \in Proses, NEW r, ProsesSah(c, r), ps = [pr EXCEPT ![p] = r]
    PROVE  ProsesSemua(c, ps) /\ Ganti(pr, ps, p, r)
<1>1. /\ \A q \in Proses : ProsesSah(b, pr[q]) /\ DOMAIN pr = Proses /\ pr \in [Proses -> TipeProses(Len(b))]
  BY DEF ProsesSemua
<1>2. \A q \in Proses : ps[q] = IF q = p THEN r ELSE pr[q]
  BY <1>1
<1>3. \A q \in Proses : ProsesSah(c, pr[q])
  BY <1>1, ProsesTetap
<1>4. \A q \in Proses : ProsesSah(c, ps[q])
  BY <1>2, <1>3
<1>5. \A q \in Proses : ps[q] \in TipeProses(Len(c))
  BY <1>4 DEF ProsesSah
<1>6. ps = [q \in Proses |-> ps[q]]
  BY <1>1
<1>7. ps \in [Proses -> TipeProses(Len(c))]
  BY <1>5, <1>6
<1> QED BY <1>2, <1>4, <1>7 DEF ProsesSemua, Ganti

\* Goroutines: those there are, a new one, and one that ends.
LEMMA LatarLanjut ==
    ASSUME NEW b, NEW c, BarisSah(b), Lanjut(b, c), NEW lt, LatarSemua(b, lt)
    PROVE  LatarSemua(c, lt)
<1>1. Len(b) \in Nat /\ Len(c) \in Nat /\ Len(b) <= Len(c)
  BY DEF Lanjut
<1>2. lt \in Seq(TipeLatar(Len(b))) /\ \A i \in DOMAIN lt : LatarSah(b, lt[i])
  BY DEF LatarSemua
<1>3. lt \in Seq(TipeLatar(Len(c)))
  BY <1>1, <1>2, TipeTumbuh, SeqTumbuh
<1>4. \A i \in DOMAIN lt : LatarSah(c, lt[i])
  BY <1>2, LatarTetap
<1> QED BY <1>3, <1>4 DEF LatarSemua

LEMMA LatarTambah ==
    ASSUME NEW b, NEW lt, LatarSemua(b, lt), NEW l, LatarSah(b, l)
    PROVE  /\ LatarSemua(b, Append(lt, l))
           /\ Len(lt) \in Nat /\ DOMAIN lt = 1 .. Len(lt) /\ DOMAIN Append(lt, l) = 1 .. Len(lt) + 1
           /\ \A i \in 1 .. Len(lt) : Append(lt, l)[i] = lt[i]
           /\ Append(lt, l)[Len(lt) + 1] = l
<1> DEFINE T == TipeLatar(Len(b))
<1>1. lt \in Seq(T) /\ l \in T /\ \A i \in DOMAIN lt : LatarSah(b, lt[i])
  BY DEF LatarSemua, LatarSah
<1> HIDE DEF T
<1>2. /\ Append(lt, l) \in Seq(T)
      /\ Len(lt) \in Nat /\ DOMAIN lt = 1 .. Len(lt) /\ DOMAIN Append(lt, l) = 1 .. Len(lt) + 1
      /\ \A i \in 1 .. Len(lt) : Append(lt, l)[i] = lt[i]
      /\ Append(lt, l)[Len(lt) + 1] = l
  BY <1>1
<1>3. \A i \in DOMAIN Append(lt, l) : LatarSah(b, Append(lt, l)[i])
  <2> SUFFICES ASSUME NEW i \in DOMAIN Append(lt, l) PROVE LatarSah(b, Append(lt, l)[i])
    OBVIOUS
  <2>1. CASE i = Len(lt) + 1
    BY <2>1, <1>2
  <2>2. CASE i \in 1 .. Len(lt)
    BY <2>2, <1>1, <1>2
  <2> QED BY <2>1, <2>2, <1>2
<1> QED BY <1>2, <1>3 DEF LatarSemua, T

\* Which goroutine of the old ones each of those that are left is.
Asal(i, j) == IF j < i THEN j ELSE j + 1

LEMMA SisaIsi ==
    ASSUME NEW b, LatarSemua(b, latar), NEW i \in DOMAIN latar
    PROVE  /\ LatarSemua(b, Sisa(i))
           /\ Len(latar) \in Nat /\ DOMAIN latar = 1 .. Len(latar) /\ i \in 1 .. Len(latar)
           /\ Len(Sisa(i)) = Len(latar) - 1 /\ DOMAIN Sisa(i) = 1 .. Len(latar) - 1
           /\ \A j \in 1 .. Len(latar) - 1 : Sisa(i)[j] = latar[Asal(i, j)]
<1> DEFINE T == TipeLatar(Len(b))
<1>1. latar \in Seq(T) /\ \A k \in DOMAIN latar : LatarSah(b, latar[k])
  BY DEF LatarSemua
<1> HIDE DEF T
<1>2. Len(latar) \in Nat /\ DOMAIN latar = 1 .. Len(latar) /\ i \in 1 .. Len(latar)
  BY <1>1
<1> DEFINE s == SubSeq(latar, 1, i - 1)
           t == SubSeq(latar, i + 1, Len(latar))
<1>3. s \in Seq(T) /\ Len(s) = i - 1 /\ \A k \in 1 .. i - 1 : s[k] = latar[k]
  BY <1>1, <1>2
<1>4. t \in Seq(T) /\ Len(t) = Len(latar) - i /\ \A k \in 1 .. Len(latar) - i : t[k] = latar[i + k]
  BY <1>1, <1>2
<1> HIDE DEF s, t
<1>5. Sisa(i) = s \o t
  BY DEF Sisa, s, t
<1>6. /\ Sisa(i) \in Seq(T) /\ Len(Sisa(i)) = Len(latar) - 1
      /\ \A j \in 1 .. Len(latar) - 1 : Sisa(i)[j] = IF j <= i - 1 THEN s[j] ELSE t[j - (i - 1)]
  <2>1. PICK u, v, m, n : u = s /\ v = t /\ m = i - 1 /\ n = Len(latar) - i
    OBVIOUS
  <2>2. /\ u \in Seq(T) /\ v \in Seq(T) /\ Len(u) = m /\ Len(v) = n
        /\ m \in Nat /\ n \in Nat /\ m + n = Len(latar) - 1
    BY <2>1, <1>2, <1>3, <1>4
  <2>3. /\ u \o v \in Seq(T) /\ Len(u \o v) = Len(u) + Len(v)
        /\ \A j \in 1 .. Len(u) + Len(v) : (u \o v)[j] = IF j <= Len(u) THEN u[j] ELSE v[j - Len(u)]
    BY <2>2
  <2>4. Sisa(i) = u \o v
    BY <2>1, <1>5
  <2> QED BY <2>1, <2>2, <2>3, <2>4
<1>7. DOMAIN Sisa(i) = 1 .. Len(latar) - 1
  BY <1>6
<1>8. \A j \in 1 .. Len(latar) - 1 : Sisa(i)[j] = latar[Asal(i, j)]
  <2> SUFFICES ASSUME NEW j \in 1 .. Len(latar) - 1 PROVE Sisa(i)[j] = latar[Asal(i, j)]
    OBVIOUS
  <2>1. CASE j <= i - 1
    <3>1. Sisa(i)[j] = s[j] /\ j \in 1 .. i - 1 /\ j < i
      BY <2>1, <1>2, <1>6
    <3> QED BY <3>1, <1>3 DEF Asal
  <2>2. CASE ~(j <= i - 1)
    <3>1. Sisa(i)[j] = t[j - (i - 1)] /\ j - (i - 1) \in 1 .. Len(latar) - i /\ ~(j < i)
      BY <2>2, <1>2, <1>6
    <3>2. t[j - (i - 1)] = latar[i + (j - (i - 1))] /\ i + (j - (i - 1)) = j + 1
      BY <3>1, <1>2, <1>4
    <3> QED BY <3>1, <3>2 DEF Asal
  <2> QED BY <2>1, <2>2
<1>9. \A j \in 1 .. Len(latar) - 1 : Asal(i, j) \in DOMAIN latar
  BY <1>2 DEF Asal
<1>10. \A j \in DOMAIN Sisa(i) : LatarSah(b, Sisa(i)[j])
  BY <1>1, <1>7, <1>8, <1>9
<1> QED BY <1>2, <1>6, <1>7, <1>8, <1>10 DEF LatarSemua, T

-----------------------------------------------------------------------------
(* What the steps do to the rows.                                           *)

LEMMA TurunanSama == \A r : Turunan(r, r)
BY DEF Turunan

LEMMA LanjutSama == ASSUME NEW b, BarisSah(b) PROVE Lanjut(b, b)
BY BarisDomain, TurunanSama DEF Lanjut

LEMMA SambungIsi ==
    ASSUME NEW S, NEW s \in Seq(S), NEW t \in Seq(S), NEW c, c = s \o t
    PROVE  /\ c \in Seq(S) /\ Len(s) \in Nat /\ Len(t) \in Nat /\ Len(c) = Len(s) + Len(t)
           /\ DOMAIN c = 1 .. Len(s) + Len(t)
           /\ \A j \in 1 .. Len(s) : c[j] = s[j]
           /\ \A j \in 1 .. Len(t) : c[Len(s) + j] = t[j]
OBVIOUS

\* New rows at the end.
LEMMA BarisSambung ==
    ASSUME NEW b, BarisSah(b), NEW c, c \in Seq(TipeBaris(Len(c))), Len(b) <= Len(c),
           \A i \in DOMAIN b : c[i] = b[i],
           \A i \in DOMAIN c : i \notin DOMAIN b => Rujukan(c, c[i])
    PROVE  Lanjut(b, c)
<1>1. /\ Len(b) \in Nat /\ DOMAIN b = 1 .. Len(b)
      /\ \A i \in DOMAIN b : b[i] \in TipeBaris(Len(b)) /\ Rujukan(b, b[i])
  BY BarisDomain
<1>2. Len(c) \in Nat
  OBVIOUS
<1>3. \A i \in DOMAIN b : Rujukan(c, b[i])
  <2>1. \A i \in 1 .. Len(b) : c[i].tabel = b[i].tabel /\ c[i].dari = b[i].dari
    BY <1>1
  <2> QED BY <1>1, <2>1, RujukanSerupa
<1>4. BarisSah(c)
  BY <1>3 DEF BarisSah
<1> QED BY <1>1, <1>2, <1>4, TurunanSama DEF Lanjut

LEMMA BarisTambah ==
    ASSUME NEW b, BarisSah(b), NEW r \in TipeBaris(Len(b)), Rujukan(b, r)
    PROVE  /\ Lanjut(b, Append(b, r))
           /\ Len(Append(b, r)) = Len(b) + 1 /\ DOMAIN Append(b, r) = 1 .. Len(b) + 1
           /\ \A i \in DOMAIN b : Append(b, r)[i] = b[i]
           /\ Append(b, r)[Len(b) + 1] = r
<1> DEFINE T == TipeBaris(Len(b))
           c == Append(b, r)
<1>1. /\ Len(b) \in Nat /\ DOMAIN b = 1 .. Len(b)
      /\ \A i \in DOMAIN b : b[i] \in TipeBaris(Len(b)) /\ Rujukan(b, b[i])
  BY BarisDomain
<1>2. b \in Seq(T) /\ r \in T
  BY DEF BarisSah
<1> HIDE DEF T
<1>3. /\ c \in Seq(T) /\ Len(c) = Len(b) + 1 /\ DOMAIN c = 1 .. Len(b) + 1
      /\ \A i \in 1 .. Len(b) : c[i] = b[i]
      /\ c[Len(b) + 1] = r
  BY <1>1, <1>2
<1> HIDE DEF c
<1>4. T \subseteq TipeBaris(Len(c))
  BY <1>1, <1>3, TipeTumbuh DEF T
<1>5. c \in Seq(TipeBaris(Len(c)))
  BY <1>3, <1>4, SeqTumbuh
<1>6. Rujukan(c, r)
  <2>1. \A i \in 1 .. Len(b) : c[i].tabel = b[i].tabel /\ c[i].dari = b[i].dari
    BY <1>3
  <2> QED BY <1>1, <2>1, RujukanSerupa
<1>7. Lanjut(b, c)
  <2>1. \A i \in DOMAIN c : i \notin DOMAIN b => i = Len(b) + 1
    BY <1>1, <1>3
  <2> QED BY <1>1, <1>3, <1>5, <1>6, <2>1, BarisSambung
<1> QED BY <1>1, <1>3, <1>7 DEF c

\* Rows that change and remain what they are.
LEMMA BarisUbah ==
    ASSUME NEW b, BarisSah(b), NEW c, c = [j \in DOMAIN b |-> c[j]],
           \A j \in DOMAIN b :
               /\ c[j] \in TipeBaris(Len(b)) /\ Rujukan(b, c[j])
               /\ Turunan(b[j], c[j])
    PROVE  Lanjut(b, c) /\ Len(c) = Len(b) /\ DOMAIN c = DOMAIN b
<1>1. Len(b) \in Nat /\ DOMAIN b = 1 .. Len(b)
  BY BarisDomain
<1> DEFINE T == TipeBaris(Len(b))
           n == Len(b)
<1>2. \A j \in 1 .. n : c[j] \in T
  BY <1>1
<1> HIDE DEF T, n
<1>3. c = [j \in 1 .. n |-> c[j]] /\ n \in Nat
  BY <1>1 DEF n
<1>4. c \in [1 .. n -> T]
  BY <1>2, <1>3
<1>5. c \in Seq(T) /\ Len(c) = n
  BY <1>3, <1>4
<1>6. c \in Seq(TipeBaris(Len(c))) /\ Len(c) = Len(b) /\ DOMAIN c = DOMAIN b
  BY <1>1, <1>3, <1>5 DEF T, n
<1>7. \A j \in DOMAIN b : Rujukan(c, c[j])
  <2>1. \A i \in 1 .. Len(b) : c[i].tabel = b[i].tabel /\ c[i].dari = b[i].dari
    BY <1>1 DEF Turunan
  <2> QED BY <1>1, <2>1, RujukanSerupa
<1>8. BarisSah(c)
  BY <1>6, <1>7 DEF BarisSah
<1> QED BY <1>1, <1>6, <1>8 DEF Lanjut

LEMMA IsiBaris ==
    ASSUME NEW n, NEW r \in TipeBaris(n)
    PROVE  /\ [r EXCEPT !.ada = FALSE] \in TipeBaris(n)
           /\ [r EXCEPT !.ada = FALSE].tabel = r.tabel /\ [r EXCEPT !.ada = FALSE].dari = r.dari
           /\ [r EXCEPT !.ada = FALSE].ke = r.ke /\ [r EXCEPT !.ada = FALSE].rujuk = r.rujuk
           /\ [r EXCEPT !.ada = FALSE].tanda = r.tanda /\ ~[r EXCEPT !.ada = FALSE].ada
BY DEF TipeBaris

LEMMA IsiTanda ==
    ASSUME NEW n, NEW r \in TipeBaris(n), NEW t \in BOOLEAN
    PROVE  /\ [r EXCEPT !.tanda = t] \in TipeBaris(n)
           /\ [r EXCEPT !.tanda = t].tabel = r.tabel /\ [r EXCEPT !.tanda = t].dari = r.dari
           /\ [r EXCEPT !.tanda = t].ke = r.ke /\ [r EXCEPT !.tanda = t].rujuk = r.rujuk
           /\ [r EXCEPT !.tanda = t].tanda = t /\ [r EXCEPT !.tanda = t].ada = r.ada
BY DEF TipeBaris

LEMMA IsiNama ==
    ASSUME NEW n, NEW r \in TipeBaris(n), NEW k \in Nama
    PROVE  /\ [r EXCEPT !.ke = k] \in TipeBaris(n)
           /\ [r EXCEPT !.ke = k].tabel = r.tabel /\ [r EXCEPT !.ke = k].dari = r.dari
           /\ [r EXCEPT !.ke = k].rujuk = r.rujuk /\ [r EXCEPT !.ke = k].tanda = r.tanda
           /\ [r EXCEPT !.ke = k].ada = r.ada
BY DEF TipeBaris

LEMMA IsiRujuk ==
    ASSUME NEW n, NEW r \in TipeBaris(n), NEW k \in {2, 3}, NEW g \in 1 .. n, Len(r.rujuk) = 3
    PROVE  /\ [r EXCEPT !.rujuk[k] = g] \in TipeBaris(n)
           /\ [r EXCEPT !.rujuk[k] = g].tabel = r.tabel /\ [r EXCEPT !.rujuk[k] = g].dari = r.dari
           /\ [r EXCEPT !.rujuk[k] = g].ke = r.ke /\ [r EXCEPT !.rujuk[k] = g].tanda = r.tanda
           /\ [r EXCEPT !.rujuk[k] = g].ada = r.ada /\ Len([r EXCEPT !.rujuk[k] = g].rujuk) = 3
           /\ [r EXCEPT !.rujuk[k] = g].rujuk[k] = g
           /\ \A m \in {1, 2, 3} : m # k => [r EXCEPT !.rujuk[k] = g].rujuk[m] = r.rujuk[m]
<1> DEFINE S == 1 .. n
           u == r.rujuk
           v == [u EXCEPT ![k] = g]
           s == [r EXCEPT !.rujuk[k] = g]
<1>1. u \in Seq(S) /\ g \in S /\ Len(u) = 3
  BY DEF TipeBaris
<1>2. s = [r EXCEPT !.rujuk = v]
  BY DEF TipeBaris
<1> HIDE DEF S, u
<1>3. /\ v \in Seq(S) /\ Len(v) = 3 /\ v[k] = g
      /\ \A m \in {1, 2, 3} : m # k => v[m] = u[m]
  BY <1>1
<1> HIDE DEF v
<1>4. /\ s \in TipeBaris(n) /\ s.tabel = r.tabel /\ s.dari = r.dari /\ s.ke = r.ke /\ s.tanda = r.tanda
      /\ s.ada = r.ada /\ s.rujuk = v
  BY <1>2, <1>3 DEF TipeBaris, S
<1> QED BY <1>3, <1>4 DEF u

-----------------------------------------------------------------------------
(* Types, step by step.                                                     *)

LEMMA TipeAkhir ==
    ASSUME TypeInv, NEW b, NEW a, NEW h, NEW lt, NEW pr,
           b = baris', a = ambang', h = hitung', lt = latar', pr = proses',
           BarisSah(b), Len(b) <= MaxBaris, AmbangSah(b, a), HitungSah(h),
           LatarSemua(b, lt), Len(lt) <= MaxLatar, ProsesSemua(b, pr)
    PROVE  TypeInv'
BY DEF TypeInv

LEMMA AmbangLanjut ==
    ASSUME NEW b, NEW c, BarisSah(b), Lanjut(b, c), NEW a, AmbangSah(b, a)
    PROVE  AmbangSah(c, a)
<1>1. /\ DOMAIN b = 1 .. Len(b) /\ DOMAIN c = 1 .. Len(c) /\ Len(b) <= Len(c)
      /\ Len(b) \in Nat /\ Len(c) \in Nat /\ \A i \in DOMAIN b : c[i].tabel = b[i].tabel
  BY BarisDomain DEF Lanjut, Turunan
<1> QED BY <1>1 DEF AmbangSah

LEMMA MintaTipe ==
    ASSUME TypeInv, NEW p \in Proses, Minta(p)
    PROVE  /\ TypeInv'
           /\ \E r : /\ Awal(r) /\ proses[p] = ProsesBebas /\ (tertib => Tenang)
                     /\ Ganti(proses, proses', p, r)
           /\ UNCHANGED <<baris, ambang, hitung, latar>> /\ UNCHANGED <<gangguan, tertib>>
<1>1. PICK r : Awal(r) /\ Mulai(p, r)
  BY DEF Minta
<1>2. /\ proses' = [proses EXCEPT ![p] = r] /\ proses[p] = ProsesBebas /\ (tertib => Tenang)
      /\ UNCHANGED <<baris, ambang, hitung, latar>>
  BY <1>1 DEF Mulai
<1>3. UNCHANGED <<gangguan, tertib>>
  BY <1>1 DEF Mulai, keadaan
<1>4. BarisSah(baris) /\ ProsesSemua(baris, proses) /\ Lanjut(baris, baris)
  BY LanjutSama DEF TypeInv
<1>5. ProsesSah(baris, r)
  BY <1>1 DEF Awal
<1>6. PICK pr, ps, b : pr = proses /\ ps = proses' /\ b = baris
  OBVIOUS
<1>7. ProsesSemua(b, ps) /\ Ganti(pr, ps, p, r)
  <2>1. /\ BarisSah(b) /\ Lanjut(b, b) /\ ProsesSemua(b, pr) /\ ProsesSah(b, r)
        /\ ps = [pr EXCEPT ![p] = r]
    BY <1>2, <1>4, <1>5, <1>6
  <2> QED BY <2>1, ProsesBaru
<1>8. TypeInv'
  BY <1>2, <1>6, <1>7 DEF TypeInv
<1> QED BY <1>1, <1>2, <1>3, <1>6, <1>7, <1>8

\* What a step of a request does.
LEMMA LangkahUmum ==
    ASSUME TypeInv, NEW p \in Proses, Langkah(p), NEW c, c = baris', NEW lt, lt = latar',
           Lanjut(baris, c), Len(c) <= MaxBaris, LatarSemua(c, lt)
    PROVE  /\ TypeInv'
           /\ Ganti(proses, proses', p, ProsesBebas)
           /\ UNCHANGED <<ambang, hitung>> /\ UNCHANGED <<gangguan, tertib>>
<1>1. /\ proses' = [proses EXCEPT ![p] = ProsesBebas] /\ UNCHANGED <<ambang, hitung>> /\ Len(lt) <= MaxLatar
  BY DEF Langkah
<1>2. UNCHANGED <<gangguan, tertib>>
  BY DEF Langkah, keadaan
<1>3. BarisSah(baris) /\ ProsesSemua(baris, proses) /\ AmbangSah(baris, ambang) /\ HitungSah(hitung)
  BY DEF TypeInv
<1>4. PICK pr, ps, b, a, h : pr = proses /\ ps = proses' /\ b = baris /\ a = ambang /\ h = hitung
  OBVIOUS
<1>5. Lanjut(b, c) /\ BarisSah(b) /\ BarisSah(c) /\ Len(c) \in Nat
  BY <1>3, <1>4 DEF Lanjut
<1>6. ProsesSah(c, ProsesBebas)
  BY <1>5, BebasSah
<1>7. ProsesSemua(c, ps) /\ Ganti(pr, ps, p, ProsesBebas)
  <2>1. ProsesSemua(b, pr) /\ ps = [pr EXCEPT ![p] = ProsesBebas]
    BY <1>1, <1>3, <1>4
  <2> QED BY <2>1, <1>5, <1>6, ProsesBaru
<1>8. AmbangSah(c, a)
  BY <1>3, <1>4, <1>5, AmbangLanjut
<1>9. TypeInv'
  BY <1>1, <1>3, <1>4, <1>5, <1>7, <1>8, TipeAkhir
<1> QED BY <1>1, <1>2, <1>4, <1>7, <1>9

LEMMA BarisProses ==
    ASSUME TypeInv, NEW p \in Proses
    PROVE  /\ proses[p] \in TipeProses(Len(baris)) /\ ProsesSah(baris, proses[p])
           /\ LatarSah(baris, proses[p].latar)
           /\ DOMAIN baris = 1 .. Len(baris) /\ Len(baris) \in Nat /\ Len(baris) <= MaxBaris
           /\ \A i \in DOMAIN baris : baris[i] \in TipeBaris(Len(baris)) /\ Rujukan(baris, baris[i])
           /\ LatarSemua(baris, latar) /\ BarisSah(baris)
<1>1. ProsesSah(baris, proses[p]) /\ BarisSah(baris) /\ LatarSemua(baris, latar) /\ Len(baris) <= MaxBaris
  BY DEF TypeInv, ProsesSemua
<1> QED BY <1>1, BarisDomain DEF ProsesSah

\* The goroutines a new row leaves.
LatarBuat(r, i) == [r.latar EXCEPT !.buat = IF r.baris.tabel \in BerAmbang THEN {i} ELSE {}]

LatarMenunggu(i) == [LatarKosong EXCEPT !.aktif = i]

LEMMA BuatIsi ==
    ASSUME TypeInv, NEW p \in Proses, BuatTulis(p)
    PROVE  /\ proses[p].tugas = "buat" /\ Len(baris) + 1 <= MaxBaris
           /\ baris' = Append(baris, proses[p].baris)
           /\ proses[p].baris \in TipeBaris(Len(baris)) /\ Rujukan(baris, proses[p].baris)
           /\ proses[p].baris.ada
           /\ latar' = IF proses[p].baris.tabel = "diskon_produk"
                       THEN Append(Append(latar, LatarBuat(proses[p], Len(baris) + 1)),
                                   LatarMenunggu(Len(baris) + 1))
                       ELSE Append(latar, LatarBuat(proses[p], Len(baris) + 1))
<1>1. proses[p].tugas = "buat" /\ Len(baris) + 1 <= MaxBaris /\ baris' = Append(baris, proses[p].baris)
  BY DEF BuatTulis
<1>2. /\ proses[p].baris \in TipeBaris(Len(baris)) /\ Rujukan(baris, proses[p].baris)
      /\ proses[p].baris.ada
  BY <1>1, BarisProses DEF ProsesSah
<1>3. PICK l : l = LatarBuat(proses[p], Len(baris) + 1)
  OBVIOUS
<1>4. PICK a : a = LatarMenunggu(Len(baris) + 1)
  OBVIOUS
<1>5. latar' = latar \o IF proses[p].baris.tabel = "diskon_produk" THEN <<l, a>> ELSE <<l>>
  BY <1>3, <1>4 DEF BuatTulis, LatarBuat, LatarMenunggu
<1> DEFINE T == TipeLatar(Len(baris)) \cup {l, a}
<1>6. latar \in Seq(T)
  <2>1. latar \in Seq(TipeLatar(Len(baris)))
    BY DEF TypeInv, LatarSemua
  <2>2. TipeLatar(Len(baris)) \subseteq T
    OBVIOUS
  <2> QED BY <2>1, <2>2, SeqTumbuh
<1>7. l \in T /\ a \in T
  OBVIOUS
<1> HIDE DEF T
<1>8. latar \o <<l>> = Append(latar, l)
  BY <1>6, <1>7
<1>9. latar \o <<l, a>> = Append(Append(latar, l), a)
  BY <1>6, <1>7
<1> QED BY <1>1, <1>2, <1>3, <1>4, <1>5, <1>8, <1>9

LEMMA BuatTipe ==
    ASSUME TypeInv, NEW p \in Proses, BuatTulis(p)
    PROVE  /\ Lanjut(baris, baris') /\ Len(baris') <= MaxBaris /\ LatarSemua(baris', latar')
           /\ LatarSah(baris', LatarBuat(proses[p], Len(baris) + 1))
           /\ LatarSah(baris', LatarMenunggu(Len(baris) + 1)) \/ proses[p].baris.tabel # "diskon_produk"
<1>1. PICK b, c, r, lt, ls, n : b = baris /\ c = baris' /\ r = proses[p] /\ lt = latar /\ ls = latar'
                                /\ n = Len(baris) + 1
  OBVIOUS
<1>2. /\ r.tugas = "buat" /\ n <= MaxBaris /\ c = Append(b, r.baris)
      /\ r.baris \in TipeBaris(Len(b)) /\ Rujukan(b, r.baris)
      /\ ls = IF r.baris.tabel = "diskon_produk" THEN Append(Append(lt, LatarBuat(r, n)), LatarMenunggu(n))
              ELSE Append(lt, LatarBuat(r, n))
  BY <1>1, BuatIsi
<1>3. /\ r \in TipeProses(Len(b)) /\ ProsesSah(b, r) /\ LatarSah(b, r.latar) /\ r.latar.aktif = 0
      /\ Len(b) \in Nat /\ LatarSemua(b, lt) /\ BarisSah(b)
  BY <1>1, BarisProses DEF ProsesSah
<1>4. Lanjut(b, c) /\ Len(c) = n /\ DOMAIN c = 1 .. n /\ c[n] = r.baris
  BY <1>1, <1>2, <1>3, BarisTambah
<1>5. LatarSemua(c, lt) /\ LatarSah(c, r.latar)
  BY <1>3, <1>4, LatarLanjut, LatarTetap
<1>6. LatarSah(c, LatarBuat(r, n))
  <2>1. r.latar \in TipeLatar(n) /\ n \in DOMAIN c
    BY <1>1, <1>3, <1>4, <1>5 DEF LatarSah
  <2> DEFINE l == LatarBuat(r, n)
  <2>2. /\ l \in TipeLatar(n) /\ l.ubah = r.latar.ubah /\ l.kali = r.latar.kali /\ l.aktif = r.latar.aktif
        /\ l.buat = IF r.baris.tabel \in BerAmbang THEN {n} ELSE {}
    BY <1>4, <2>1 DEF LatarBuat, TipeLatar
  <2> HIDE DEF l
  <2>3. \A i \in l.buat : c[i].tabel \in BerAmbang
    BY <1>4, <2>2
  <2> QED BY <1>3, <1>4, <1>5, <2>2, <2>3 DEF LatarSah, l
<1>7. r.baris.tabel = "diskon_produk" => LatarSah(c, LatarMenunggu(n))
  <2>1. n \in 0 .. n /\ n # 0
    BY <1>1, <1>3
  <2> DEFINE a == LatarMenunggu(n)
  <2>2. /\ a \in TipeLatar(n) /\ a.ubah = {} /\ a.kali = {} /\ a.buat = {} /\ a.buang = {} /\ a.aktif = n
    BY <2>1 DEF LatarMenunggu, LatarKosong, TipeLatar
  <2> HIDE DEF a
  <2> QED BY <1>4, <2>2, FS_EmptySet DEF LatarSah, a
<1>8. LatarSemua(c, Append(lt, LatarBuat(r, n)))
  BY <1>5, <1>6, LatarTambah
<1>9. r.baris.tabel = "diskon_produk" =>
          LatarSemua(c, Append(Append(lt, LatarBuat(r, n)), LatarMenunggu(n)))
  BY <1>7, <1>8, LatarTambah
<1>10. LatarSemua(c, ls)
  BY <1>2, <1>8, <1>9
<1> QED BY <1>1, <1>2, <1>4, <1>6, <1>7, <1>10

\* The categories of a new product, and its goroutine.
AnakBaris(r, i) == Baris("kategori_barang", r.baris.dari, 0, <<i, r.anak.gudang, r.anak.rekening>>)
LatarMasukan(r, i) ==
    [r.latar EXCEPT !.buat = i .. i + r.anak.banyak, !.ubah = @ \cup {<<"barang_kategori", i, r.anak.banyak>>}]

Beranak(b, c, r) ==
    LET n == Len(b) + 1
        m == r.anak.banyak
    IN  /\ m \in Nat /\ Len(c) = n + m /\ DOMAIN c = 1 .. n + m
        /\ \A i \in DOMAIN b : c[i] = b[i]
        /\ c[n] = r.baris
        /\ \A j \in n + 1 .. n + m : c[j] = AnakBaris(r, n)

LEMMA AnakIsi ==
    ASSUME NEW b, BarisSah(b), NEW r, ProsesSah(b, r), r.tugas = "masukan"
    PROVE  LET n == Len(b) + 1
               k == AnakBaris(r, n)
           IN  /\ k.tabel = "kategori_barang" /\ k.dari = r.baris.dari /\ k.ke = 0 /\ ~k.tanda /\ k.ada
               /\ k.rujuk = <<n, r.anak.gudang, r.anak.rekening>>
               /\ k.rujuk[1] = n /\ k.rujuk[2] = r.anak.gudang /\ k.rujuk[3] = r.anak.rekening
               /\ Len(k.rujuk) = 3 /\ k \in TipeBaris(n)
               /\ r.anak.gudang \in DOMAIN b /\ r.anak.rekening \in DOMAIN b /\ r.anak.banyak \in Nat
<1>1. PICK n, k, g, a, S : n = Len(b) + 1 /\ k = AnakBaris(r, n) /\ g = r.anak.gudang /\ a = r.anak.rekening
                           /\ S = 1 .. n
  OBVIOUS
<1>2. Len(b) \in Nat /\ DOMAIN b = 1 .. Len(b)
  BY BarisDomain
<1>3. g \in 0 .. Len(b) /\ a \in 0 .. Len(b) /\ g # 0 /\ a # 0 /\ r.anak.banyak \in Nat
  BY <1>1 DEF ProsesSah, TipeProses, TipeAnak
<1>4. g \in DOMAIN b /\ a \in DOMAIN b /\ n \in S /\ g \in S /\ a \in S
  BY <1>1, <1>2, <1>3
<1>5. k = [tabel |-> "kategori_barang", dari |-> r.baris.dari, ke |-> 0, rujuk |-> <<n, g, a>>, tanda |-> FALSE, ada |-> TRUE]
  BY <1>1 DEF AnakBaris, Baris
<1>6. PICK u : u = <<n, g, a>>
  OBVIOUS
<1>7. u \in Seq(S) /\ Len(u) = 3 /\ u[1] = n /\ u[2] = g /\ u[3] = a
  BY <1>4, <1>6
<1>8. r.baris.dari \in Pengguna \cup Seller \cup Kurir
  BY DEF ProsesSah, TipeBaris
<1>9. k = [tabel |-> "kategori_barang", dari |-> r.baris.dari, ke |-> 0, rujuk |-> u, tanda |-> FALSE, ada |-> TRUE]
  BY <1>5, <1>6
<1>10. "kategori_barang" \in Tabel
  BY DEF Tabel, BerAmbang
<1>11. /\ k.tabel = "kategori_barang" /\ k.dari = r.baris.dari /\ k.ke = 0 /\ ~k.tanda /\ k.ada /\ k.rujuk = u
       /\ k \in TipeBaris(n)
  <2>1. u \in Seq(1 .. n)
    BY <1>1, <1>7
  <2> QED BY <2>1, <1>8, <1>9, <1>10 DEF TipeBaris
<1> QED BY <1>1, <1>3, <1>4, <1>6, <1>7, <1>11

LEMMA MasukanIsi ==
    ASSUME TypeInv, NEW p \in Proses, MasukanTulis(p)
    PROVE  /\ proses[p].tugas = "masukan" /\ Len(baris') <= MaxBaris
           /\ proses[p].baris \in TipeBaris(Len(baris)) /\ Rujukan(baris, proses[p].baris)
           /\ proses[p].baris.ada /\ proses[p].baris.tabel = "barang_induk"
           /\ Beranak(baris, baris', proses[p])
           /\ latar' = Append(latar, LatarMasukan(proses[p], Len(baris) + 1))
           /\ Lanjut(baris, baris')
<1>1. PICK b, c, r, n, m, k : b = baris /\ c = baris' /\ r = proses[p] /\ n = Len(baris) + 1
                              /\ m = proses[p].anak.banyak /\ k = AnakBaris(proses[p], Len(baris) + 1)
  OBVIOUS
<1>2. /\ r.tugas = "masukan" /\ n + m <= MaxBaris
      /\ c = Append(b, r.baris) \o [j \in 1 .. m |-> k]
      /\ latar' = Append(latar, LatarMasukan(r, n))
  BY <1>1 DEF MasukanTulis, AnakBaris, LatarMasukan
<1>3. /\ ProsesSah(b, r) /\ BarisSah(b) /\ Len(b) \in Nat /\ DOMAIN b = 1 .. Len(b)
  BY <1>1, BarisProses
<1>4. /\ r.baris \in TipeBaris(Len(b)) /\ Rujukan(b, r.baris) /\ r.baris.ada /\ r.baris.tabel = "barang_induk"
      /\ b[r.anak.gudang].tabel = "alamat_gudang" /\ b[r.anak.rekening].tabel = "rekening_seller"
  BY <1>2, <1>3 DEF ProsesSah
<1>5. PICK d : d = Append(b, r.baris)
  OBVIOUS
<1>6. /\ Lanjut(b, d) /\ Len(d) = n /\ DOMAIN d = 1 .. n /\ d[n] = r.baris /\ \A i \in DOMAIN b : d[i] = b[i]
  BY <1>1, <1>3, <1>4, <1>5, BarisTambah
<1>7. /\ k.tabel = "kategori_barang" /\ k.dari = r.baris.dari /\ k.rujuk[1] = n
      /\ k.rujuk[2] = r.anak.gudang /\ k.rujuk[3] = r.anak.rekening /\ Len(k.rujuk) = 3
      /\ k \in TipeBaris(n) /\ r.anak.gudang \in DOMAIN b /\ r.anak.rekening \in DOMAIN b /\ m \in Nat
  BY <1>1, <1>2, <1>3, AnakIsi
<1>8. PICK T, e : T = TipeBaris(n) /\ e = [j \in 1 .. m |-> k]
  OBVIOUS
<1>9. d \in Seq(T)
  BY <1>6, <1>8 DEF Lanjut, BarisSah
<1>10. e \in Seq(T) /\ Len(e) = m /\ \A j \in 1 .. m : e[j] = k
  BY <1>7, <1>8
<1>11. /\ c \in Seq(T) /\ Len(c) = n + m /\ DOMAIN c = 1 .. n + m
       /\ \A j \in 1 .. n : c[j] = d[j]
       /\ \A j \in 1 .. m : c[n + j] = k
  <2>1. c = d \o e
    BY <1>2, <1>5, <1>8
  <2>2. d \in Seq(T) /\ e \in Seq(T)
    BY <1>9, <1>10
  <2>3. /\ c \in Seq(T) /\ Len(c) = Len(d) + Len(e) /\ DOMAIN c = 1 .. Len(d) + Len(e)
        /\ \A j \in 1 .. Len(d) : c[j] = d[j]
        /\ \A j \in 1 .. Len(e) : c[Len(d) + j] = e[j]
    BY <2>1, <2>2, SambungIsi
  <2> QED BY <2>1, <2>3, <1>6, <1>10
<1>12. n \in Nat /\ n + m \in Nat /\ n <= n + m
  BY <1>1, <1>3, <1>7
<1>13. \A i \in DOMAIN b : c[i] = b[i]
  BY <1>1, <1>3, <1>6, <1>11
<1>14. c[n] = r.baris
  BY <1>1, <1>3, <1>6, <1>11
<1>15. \A j \in n + 1 .. n + m : c[j] = k
  <2> SUFFICES ASSUME NEW j \in n + 1 .. n + m PROVE c[j] = k
    OBVIOUS
  <2>1. j - n \in 1 .. m /\ n + (j - n) = j
    BY <1>7, <1>12
  <2> QED BY <1>11, <2>1
<1>16. c \in Seq(TipeBaris(Len(c)))
  <2>1. T \subseteq TipeBaris(n + m)
    BY <1>8, <1>12, TipeTumbuh
  <2> QED BY <1>11, <2>1, SeqTumbuh
<1>17. \A i \in 1 .. Len(b) : c[i].tabel = b[i].tabel /\ c[i].dari = b[i].dari
  BY <1>3, <1>13
<1>18. Rujukan(c, r.baris)
  BY <1>3, <1>4, <1>17, RujukanSerupa
<1>19. Rujukan(c, k)
  <2>1. /\ c[k.rujuk[1]].tabel = "barang_induk" /\ c[k.rujuk[1]].dari = k.dari
        /\ c[k.rujuk[2]].tabel = "alamat_gudang" /\ c[k.rujuk[3]].tabel = "rekening_seller"
    BY <1>4, <1>7, <1>13, <1>14
  <2>2. Len(k.rujuk) = Panjang(k.tabel)
    BY <1>7, PanjangIsi
  <2> QED BY <1>7, <2>1, <2>2 DEF Rujukan
<1>20. \A i \in DOMAIN c : i \notin DOMAIN b => Rujukan(c, c[i])
  <2> SUFFICES ASSUME NEW i \in DOMAIN c, i \notin DOMAIN b PROVE Rujukan(c, c[i])
    OBVIOUS
  <2>1. i = n \/ i \in n + 1 .. n + m
    BY <1>1, <1>3, <1>7, <1>11
  <2> QED BY <2>1, <1>14, <1>15, <1>18, <1>19
<1>21. Lanjut(b, c)
  BY <1>1, <1>3, <1>11, <1>12, <1>13, <1>16, <1>20, BarisSambung
<1>22. Beranak(b, c, r)
  BY <1>1, <1>7, <1>11, <1>13, <1>14, <1>15 DEF Beranak
<1> QED BY <1>1, <1>2, <1>4, <1>11, <1>21, <1>22

LEMMA MasukanTipe ==
    ASSUME TypeInv, NEW p \in Proses, MasukanTulis(p)
    PROVE  /\ Lanjut(baris, baris') /\ Len(baris') <= MaxBaris /\ LatarSemua(baris', latar')
           /\ LatarSah(baris', LatarMasukan(proses[p], Len(baris) + 1))
<1>1. PICK b, c, r, lt, ls, n, m : b = baris /\ c = baris' /\ r = proses[p] /\ lt = latar /\ ls = latar'
                                   /\ n = Len(baris) + 1 /\ m = proses[p].anak.banyak
  OBVIOUS
<1>2. /\ r.tugas = "masukan" /\ Lanjut(b, c) /\ Len(c) <= MaxBaris /\ Beranak(b, c, r) /\ r.baris.tabel = "barang_induk"
      /\ ls = Append(lt, LatarMasukan(r, n))
  BY <1>1, MasukanIsi
<1>3. /\ ProsesSah(b, r) /\ LatarSah(b, r.latar) /\ r.latar.aktif = 0 /\ r.latar.kali = {}
      /\ Len(b) \in Nat /\ LatarSemua(b, lt) /\ BarisSah(b)
  BY <1>1, <1>2, BarisProses DEF ProsesSah
<1>4. LatarSemua(c, lt) /\ LatarSah(c, r.latar)
  BY <1>2, <1>3, LatarLanjut, LatarTetap
<1>5. /\ m \in Nat /\ Len(c) = n + m /\ n \in Nat /\ n # 0 /\ \A j \in n .. n + m : c[j].tabel \in BerAmbang
  <2>1. /\ m \in Nat /\ Len(c) = n + m /\ c[n] = r.baris /\ \A j \in n + 1 .. n + m : c[j] = AnakBaris(r, n)
    BY <1>1, <1>2 DEF Beranak
  <2>2. AnakBaris(r, n).tabel = "kategori_barang"
    BY DEF AnakBaris, Baris
  <2>3. "kategori_barang" \in BerAmbang /\ "barang_induk" \in BerAmbang
    BY DEF BerAmbang
  <2>4. n \in Nat /\ n # 0
    BY <1>1, <1>3
  <2>5. \A j \in n .. n + m : j = n \/ j \in n + 1 .. n + m
    BY <2>1, <2>4
  <2> QED BY <1>2, <2>1, <2>2, <2>3, <2>4, <2>5
<1>6. PICK u : u = <<"barang_kategori", n, m>>
  OBVIOUS
<1>7. u \in Perubahan
  BY <1>5, <1>6 DEF Perubahan, Kolom, KolomAmbang
<1>8. PICK l, W, B : l = LatarMasukan(r, n) /\ W = r.latar.ubah \cup {u} /\ B = n .. n + m
  OBVIOUS
<1>9. r.latar \in TipeLatar(Len(c)) /\ IsFiniteSet(r.latar.ubah)
  BY <1>4 DEF LatarSah
<1>10. W \subseteq Perubahan /\ B \subseteq 1 .. Len(c) /\ IsFiniteSet(W)
  <2>1. r.latar.ubah \subseteq Perubahan
    BY <1>9 DEF TipeLatar
  <2>2. IsFiniteSet(W)
    BY <1>8, <1>9, FS_AddElement
  <2> QED BY <2>1, <2>2, <1>5, <1>7, <1>8
<1>11. /\ l \in TipeLatar(Len(c)) /\ l.ubah = W /\ l.kali = r.latar.kali /\ l.aktif = r.latar.aktif /\ l.buat = B
  <2>1. l = [r.latar EXCEPT !.buat = B, !.ubah = W]
    BY <1>1, <1>6, <1>8 DEF LatarMasukan
  <2> QED BY <2>1, <1>9, <1>10 DEF TipeLatar
<1>12. LatarSah(c, l)
  BY <1>3, <1>5, <1>8, <1>10, <1>11, FS_EmptySet DEF LatarSah
<1>13. LatarSemua(c, ls)
  BY <1>2, <1>4, <1>8, <1>12, LatarTambah
<1> QED BY <1>1, <1>2, <1>8, <1>12, <1>13

\* What a deletion leaves of row j.
Sasaran(b, r) == {j \in DOMAIN b : b[j].ada /\ b[j].tabel = r.ikut /\ b[j].rujuk[1] = r.id} \cup {r.id}

LEMMA HapusIsi ==
    ASSUME TypeInv, NEW p \in Proses, HapusTulis(p)
    PROVE  /\ proses[p].tugas = "hapus" /\ proses[p].id \in DOMAIN baris
           /\ baris' = [j \in DOMAIN baris |-> IF j \in Sasaran(baris, proses[p])
                                               THEN [baris[j] EXCEPT !.ada = FALSE] ELSE baris[j]]
           /\ latar' = Append(latar, proses[p].latar)
           /\ Lanjut(baris, baris') /\ Len(baris') <= MaxBaris /\ LatarSemua(baris', latar')
           /\ DOMAIN baris' = DOMAIN baris
<1>1. /\ proses[p].tugas = "hapus" /\ latar' = Append(latar, proses[p].latar)
      /\ baris' = [j \in DOMAIN baris |-> IF j \in Sasaran(baris, proses[p])
                                          THEN [baris[j] EXCEPT !.ada = FALSE] ELSE baris[j]]
  <2>1. Sasaran(baris, proses[p]) =
            {j \in BarisAda(proses[p].ikut) : baris[j].rujuk[1] = proses[p].id} \cup {proses[p].id}
    BY DEF Sasaran, BarisAda, Pernah
  <2> QED BY <2>1 DEF HapusTulis
<1>2. PICK b, c, r, lt, ls, S : b = baris /\ c = baris' /\ r = proses[p] /\ lt = latar /\ ls = latar'
                                /\ S = Sasaran(baris, proses[p])
  OBVIOUS
<1>3. /\ r \in TipeProses(Len(b)) /\ ProsesSah(b, r) /\ LatarSah(b, r.latar) /\ Len(b) <= MaxBaris
      /\ DOMAIN b = 1 .. Len(b) /\ Len(b) \in Nat /\ LatarSemua(b, lt) /\ BarisSah(b)
      /\ \A i \in DOMAIN b : b[i] \in TipeBaris(Len(b)) /\ Rujukan(b, b[i])
  BY <1>2, BarisProses
<1>4. r.id \in DOMAIN b
  <2>1. r.tugas = "hapus" /\ r.id # 0
    BY <1>1, <1>2, <1>3 DEF ProsesSah
  <2>2. r.id \in 0 .. Len(b)
    BY <1>3 DEF TipeProses
  <2> QED BY <1>3, <2>1, <2>2
<1>5. c = [j \in DOMAIN b |-> IF j \in S THEN [b[j] EXCEPT !.ada = FALSE] ELSE b[j]]
  BY <1>1, <1>2
<1>6. ASSUME NEW j \in DOMAIN b
      PROVE  /\ c[j] \in TipeBaris(Len(b)) /\ Rujukan(b, c[j])
             /\ Turunan(b[j], c[j])
  <2>1. b[j] \in TipeBaris(Len(b)) /\ Rujukan(b, b[j])
    BY <1>3
  <2>2. CASE j \in S
    <3>1. c[j] = [b[j] EXCEPT !.ada = FALSE]
      BY <1>5, <2>2
    <3>2. /\ c[j] \in TipeBaris(Len(b)) /\ c[j].tabel = b[j].tabel /\ c[j].dari = b[j].dari
          /\ c[j].ke = b[j].ke /\ c[j].rujuk = b[j].rujuk /\ ~c[j].ada
      BY <2>1, <3>1, IsiBaris
    <3> QED BY <2>1, <3>2 DEF Rujukan, Turunan
  <2>3. CASE j \notin S
    BY <2>1, <2>3, <1>5, TurunanSama
  <2> QED BY <2>2, <2>3
<1>7. c = [j \in DOMAIN b |-> c[j]]
  BY <1>5
<1>8. Lanjut(b, c) /\ Len(c) = Len(b) /\ DOMAIN c = DOMAIN b
  BY <1>3, <1>6, <1>7, BarisUbah
<1>9. LatarSemua(c, lt) /\ LatarSah(c, r.latar)
  BY <1>3, <1>8, LatarLanjut, LatarTetap
<1>10. LatarSemua(c, ls)
  BY <1>1, <1>2, <1>9, LatarTambah
<1> QED BY <1>1, <1>2, <1>3, <1>4, <1>8, <1>10

\* A row gets another name.
Berganti(b, c, i) ==
    /\ \A j \in DOMAIN b : j # i => c[j] = b[j]
    /\ c[i].tabel = b[i].tabel /\ c[i].dari = b[i].dari /\ c[i].rujuk = b[i].rujuk
    /\ c[i].tanda = b[i].tanda /\ c[i].ada = b[i].ada

LEMMA GantiIsi ==
    ASSUME TypeInv, NEW p \in Proses, GantiTulis(p)
    PROVE  /\ proses[p].tugas = "ganti" /\ proses[p].id \in DOMAIN baris
           /\ baris[proses[p].id].tabel \in TabelNama
           /\ Berganti(baris, baris', proses[p].id)
           /\ UNCHANGED latar
           /\ Lanjut(baris, baris') /\ Len(baris') <= MaxBaris /\ LatarSemua(baris', latar')
           /\ DOMAIN baris' = DOMAIN baris
<1>1. PICK b, c, r, lt, i : b = baris /\ c = baris' /\ r = proses[p] /\ lt = latar /\ i = proses[p].id
  OBVIOUS
<1>2. /\ r.tugas = "ganti" /\ UNCHANGED latar
      /\ c = [b EXCEPT ![i].ke = IF b[i].ada THEN r.baris.ke ELSE @]
  BY <1>1 DEF GantiTulis
<1>3. /\ r \in TipeProses(Len(b)) /\ ProsesSah(b, r) /\ Len(b) <= MaxBaris
      /\ DOMAIN b = 1 .. Len(b) /\ Len(b) \in Nat /\ LatarSemua(b, lt) /\ BarisSah(b)
      /\ \A j \in DOMAIN b : b[j] \in TipeBaris(Len(b)) /\ Rujukan(b, b[j])
  BY <1>1, BarisProses
<1>4. i \in DOMAIN b /\ b[i].tabel \in TabelNama /\ r.baris.ke \in Nama
  <2>1. i # 0 /\ b[i].tabel \in TabelNama /\ r.baris.ke \in Nama
    BY <1>1, <1>2, <1>3 DEF ProsesSah
  <2>2. i \in 0 .. Len(b)
    BY <1>1, <1>3 DEF TipeProses
  <2> QED BY <1>3, <2>1, <2>2
<1>5. b = [j \in DOMAIN b |-> b[j]] /\ b[i] \in TipeBaris(Len(b))
  <2>1. b \in Seq(TipeBaris(Len(b)))
    BY <1>3 DEF BarisSah
  <2> QED BY <1>3, <1>4, <2>1
<1>6. PICK s : s = [b[i] EXCEPT !.ke = IF b[i].ada THEN r.baris.ke ELSE b[i].ke]
  OBVIOUS
<1>7. c = [j \in DOMAIN b |-> IF j = i THEN s ELSE b[j]]
  BY <1>2, <1>4, <1>5, <1>6
<1>8. /\ s \in TipeBaris(Len(b)) /\ s.tabel = b[i].tabel /\ s.dari = b[i].dari /\ s.rujuk = b[i].rujuk
      /\ s.tanda = b[i].tanda /\ s.ada = b[i].ada
  <2>1. CASE b[i].ada
    <3>1. PICK k \in Nama : k = r.baris.ke
      BY <1>4
    <3>2. s = [b[i] EXCEPT !.ke = k]
      BY <2>1, <3>1, <1>6
    <3> QED BY <3>2, <1>5, IsiNama
  <2>2. CASE ~b[i].ada
    <3>1. s = b[i]
      BY <2>2, <1>5, <1>6 DEF TipeBaris
    <3> QED BY <3>1, <1>5
  <2> QED BY <2>1, <2>2
<1>9. c[i] = s /\ \A j \in DOMAIN b : j # i => c[j] = b[j]
  BY <1>4, <1>7
<1>10. Berganti(b, c, i)
  BY <1>8, <1>9 DEF Berganti
<1>11. ASSUME NEW j \in DOMAIN b
       PROVE  c[j] \in TipeBaris(Len(b)) /\ Rujukan(b, c[j]) /\ Turunan(b[j], c[j])
  <2>1. CASE j = i
    <3>1. Rujukan(b, b[i])
      BY <1>3, <1>4
    <3> QED BY <2>1, <3>1, <1>4, <1>8, <1>9 DEF Rujukan, Turunan
  <2>2. CASE j # i
    BY <2>2, <1>3, <1>9, TurunanSama
  <2> QED BY <2>1, <2>2
<1>12. c = [j \in DOMAIN b |-> c[j]]
  BY <1>7
<1>13. Lanjut(b, c) /\ Len(c) = Len(b) /\ DOMAIN c = DOMAIN b
  BY <1>3, <1>11, <1>12, BarisUbah
<1>14. LatarSemua(c, lt)
  BY <1>3, <1>13, LatarLanjut
<1> QED BY <1>1, <1>2, <1>3, <1>4, <1>10, <1>13, <1>14

\* A flag moves within an owner.
LEMMA TandaiIsi ==
    ASSUME TypeInv, NEW p \in Proses, TandaiTulis(p)
    PROVE  /\ proses[p].tugas = "tandai" /\ proses[p].id \in DOMAIN baris
           /\ baris[proses[p].id].tabel = "rekening_seller"
           /\ baris' = [j \in DOMAIN baris |->
                           IF ~baris[j].ada \/ j \notin proses[p].pilih \cup {proses[p].id} THEN baris[j]
                           ELSE [baris[j] EXCEPT !.tanda = j = proses[p].id]]
           /\ UNCHANGED latar
           /\ Lanjut(baris, baris') /\ Len(baris') <= MaxBaris /\ LatarSemua(baris', latar')
           /\ DOMAIN baris' = DOMAIN baris
<1>1. /\ proses[p].tugas = "tandai" /\ UNCHANGED latar
      /\ baris' = [j \in DOMAIN baris |->
                      IF ~baris[j].ada \/ j \notin proses[p].pilih \cup {proses[p].id} THEN baris[j]
                      ELSE [baris[j] EXCEPT !.tanda = j = proses[p].id]]
  BY DEF TandaiTulis
<1>2. PICK b, c, r, lt, S : b = baris /\ c = baris' /\ r = proses[p] /\ lt = latar
                            /\ S = proses[p].pilih \cup {proses[p].id}
  OBVIOUS
<1>3. /\ r \in TipeProses(Len(b)) /\ ProsesSah(b, r) /\ Len(b) <= MaxBaris
      /\ DOMAIN b = 1 .. Len(b) /\ Len(b) \in Nat /\ LatarSemua(b, lt) /\ BarisSah(b)
      /\ \A i \in DOMAIN b : b[i] \in TipeBaris(Len(b)) /\ Rujukan(b, b[i])
  BY <1>2, BarisProses
<1>4. r.id \in DOMAIN b /\ b[r.id].tabel = "rekening_seller"
  <2>1. r.tugas = "tandai" /\ r.id # 0 /\ b[r.id].tabel = "rekening_seller"
    BY <1>1, <1>2, <1>3 DEF ProsesSah
  <2>2. r.id \in 0 .. Len(b)
    BY <1>3 DEF TipeProses
  <2> QED BY <1>3, <2>1, <2>2
<1>5. c = [j \in DOMAIN b |-> IF ~b[j].ada \/ j \notin S THEN b[j] ELSE [b[j] EXCEPT !.tanda = j = r.id]]
  BY <1>1, <1>2
<1>6. ASSUME NEW j \in DOMAIN b
      PROVE  /\ c[j] \in TipeBaris(Len(b)) /\ Rujukan(b, c[j])
             /\ Turunan(b[j], c[j])
  <2>1. b[j] \in TipeBaris(Len(b)) /\ Rujukan(b, b[j])
    BY <1>3
  <2>2. CASE ~b[j].ada \/ j \notin S
    BY <2>1, <2>2, <1>5, TurunanSama
  <2>3. CASE ~(~b[j].ada \/ j \notin S)
    <3>1. PICK t \in BOOLEAN : t = (j = r.id)
      OBVIOUS
    <3>2. c[j] = [b[j] EXCEPT !.tanda = t]
      BY <1>5, <2>3, <3>1
    <3>3. /\ c[j] \in TipeBaris(Len(b)) /\ c[j].tabel = b[j].tabel /\ c[j].dari = b[j].dari
          /\ c[j].ke = b[j].ke /\ c[j].rujuk = b[j].rujuk /\ c[j].ada = b[j].ada
      BY <2>1, <3>2, IsiTanda
    <3> QED BY <2>1, <3>3 DEF Rujukan, Turunan
  <2> QED BY <2>2, <2>3
<1>7. c = [j \in DOMAIN b |-> c[j]]
  BY <1>5
<1>8. Lanjut(b, c) /\ Len(c) = Len(b) /\ DOMAIN c = DOMAIN b
  BY <1>3, <1>6, <1>7, BarisUbah
<1>9. LatarSemua(c, lt)
  BY <1>3, <1>8, LatarLanjut
<1> QED BY <1>1, <1>2, <1>3, <1>4, <1>8, <1>9

\* Categories refer to another warehouse (the second of their references) or account.
Tempat(b, r) == IF b[r.id].tabel = "alamat_gudang" THEN 2 ELSE 3

Berpindah(b, c, r) ==
    \A j \in DOMAIN b :
        /\ j \notin Pindah(b, r) => c[j] = b[j]
        /\ j \in Pindah(b, r) => \A m \in 1 .. 3 : c[j].rujuk[m] = IF m = Tempat(b, r) THEN r.id ELSE b[j].rujuk[m]
        /\ Len(c[j].rujuk) = Len(b[j].rujuk)
        /\ c[j].tabel = b[j].tabel /\ c[j].dari = b[j].dari /\ c[j].ke = b[j].ke
        /\ c[j].ada = b[j].ada /\ c[j].tanda = b[j].tanda

LEMMA PindahIsi ==
    ASSUME TypeInv, NEW p \in Proses, PindahTulis(p)
    PROVE  /\ proses[p].tugas = "pindah" /\ proses[p].id \in DOMAIN baris
           /\ baris[proses[p].id].tabel \in {"alamat_gudang", "rekening_seller"}
           /\ latar' = Append(latar, proses[p].latar)
           /\ Berpindah(baris, baris', proses[p])
           /\ Lanjut(baris, baris') /\ Len(baris') <= MaxBaris /\ LatarSemua(baris', latar')
           /\ DOMAIN baris' = DOMAIN baris
<1>1. /\ proses[p].tugas = "pindah" /\ latar' = Append(latar, proses[p].latar)
      /\ baris' = [j \in DOMAIN baris |-> IF j \in Pindah(baris, proses[p])
                       THEN [baris[j] EXCEPT !.rujuk[Tempat(baris, proses[p])] = proses[p].id]
                       ELSE baris[j]]
  <2>1. Pindah(baris, proses[p]) =
            {j \in BarisAda("kategori_barang") : j \in proses[p].pilih} \cup KategoriDari(proses[p].latar.barang)
    BY DEF Pindah, BarisAda, Pernah, KategoriDari
  <2> QED BY <2>1 DEF PindahTulis, Tempat
<1>2. PICK b, c, r, lt, ls, S, k : b = baris /\ c = baris' /\ r = proses[p] /\ lt = latar /\ ls = latar'
                                   /\ S = Pindah(baris, proses[p]) /\ k = Tempat(baris, proses[p])
  OBVIOUS
<1>3. /\ r \in TipeProses(Len(b)) /\ ProsesSah(b, r) /\ LatarSah(b, r.latar) /\ Len(b) <= MaxBaris
      /\ DOMAIN b = 1 .. Len(b) /\ Len(b) \in Nat /\ LatarSemua(b, lt) /\ BarisSah(b)
      /\ \A i \in DOMAIN b : b[i] \in TipeBaris(Len(b)) /\ Rujukan(b, b[i])
  BY <1>2, BarisProses
<1>4. r.id \in DOMAIN b /\ b[r.id].tabel \in {"alamat_gudang", "rekening_seller"}
  <2>1. r.tugas = "pindah" /\ r.id # 0 /\ b[r.id].tabel \in {"alamat_gudang", "rekening_seller"}
    BY <1>1, <1>2, <1>3 DEF ProsesSah
  <2>2. r.id \in 0 .. Len(b)
    BY <1>3 DEF TipeProses
  <2> QED BY <1>3, <2>1, <2>2
<1>5. /\ k \in {2, 3} /\ (k = 2 => b[r.id].tabel = "alamat_gudang")
      /\ (k = 3 => b[r.id].tabel = "rekening_seller")
  BY <1>2, <1>4 DEF Tempat
<1>6. c = [j \in DOMAIN b |-> IF j \in S THEN [b[j] EXCEPT !.rujuk[k] = r.id] ELSE b[j]]
  BY <1>1, <1>2
<1>7. ASSUME NEW j \in DOMAIN b
      PROVE  /\ c[j] \in TipeBaris(Len(b)) /\ Rujukan(b, c[j]) /\ Turunan(b[j], c[j])
             /\ c[j].tabel = b[j].tabel /\ c[j].dari = b[j].dari /\ c[j].ke = b[j].ke
             /\ c[j].ada = b[j].ada /\ c[j].tanda = b[j].tanda /\ Len(c[j].rujuk) = Len(b[j].rujuk)
             /\ j \notin S => c[j] = b[j]
             /\ j \in S => \A m \in 1 .. 3 : c[j].rujuk[m] = IF m = k THEN r.id ELSE b[j].rujuk[m]
  <2>1. b[j] \in TipeBaris(Len(b)) /\ Rujukan(b, b[j])
    BY <1>3
  <2>2. CASE j \notin S
    BY <2>1, <2>2, <1>6, TurunanSama
  <2>3. CASE j \in S
    <3>1. b[j].tabel = "kategori_barang"
      BY <2>3, <1>2 DEF Pindah
    <3>2. /\ Len(b[j].rujuk) = 3 /\ b[b[j].rujuk[1]].tabel = "barang_induk" /\ b[b[j].rujuk[1]].dari = b[j].dari
          /\ b[b[j].rujuk[2]].tabel = "alamat_gudang" /\ b[b[j].rujuk[3]].tabel = "rekening_seller"
      BY <2>1, <3>1, PanjangIsi DEF Rujukan
    <3>3. c[j] = [b[j] EXCEPT !.rujuk[k] = r.id]
      BY <1>6, <2>3
    <3>4. r.id \in 1 .. Len(b)
      BY <1>3, <1>4
    <3>5. /\ c[j] \in TipeBaris(Len(b)) /\ c[j].tabel = b[j].tabel /\ c[j].dari = b[j].dari
          /\ c[j].ke = b[j].ke /\ c[j].tanda = b[j].tanda /\ c[j].ada = b[j].ada
          /\ Len(c[j].rujuk) = 3 /\ c[j].rujuk[k] = r.id
          /\ \A m \in {1, 2, 3} : m # k => c[j].rujuk[m] = b[j].rujuk[m]
      BY <2>1, <1>5, <3>2, <3>3, <3>4, IsiRujuk
    <3>6. /\ c[j].rujuk[1] = b[j].rujuk[1]
          /\ b[c[j].rujuk[2]].tabel = "alamat_gudang" /\ b[c[j].rujuk[3]].tabel = "rekening_seller"
      BY <1>5, <3>2, <3>5
    <3>7. Rujukan(b, c[j])
      BY <3>1, <3>2, <3>5, <3>6, PanjangIsi DEF Rujukan
    <3>8. Turunan(b[j], c[j])
      BY <3>1, <3>2, <3>5, <3>6 DEF Turunan
    <3>9. \A m \in 1 .. 3 : c[j].rujuk[m] = IF m = k THEN r.id ELSE b[j].rujuk[m]
      BY <3>5
    <3> QED BY <2>3, <3>2, <3>5, <3>7, <3>8, <3>9
  <2> QED BY <2>2, <2>3
<1>8. c = [j \in DOMAIN b |-> c[j]]
  BY <1>6
<1>10. Lanjut(b, c) /\ Len(c) = Len(b) /\ DOMAIN c = DOMAIN b
  BY <1>3, <1>7, <1>8, BarisUbah
<1>11. LatarSemua(c, lt) /\ LatarSah(c, r.latar)
  BY <1>3, <1>10, LatarLanjut, LatarTetap
<1>12. LatarSemua(c, ls)
  BY <1>1, <1>2, <1>11, LatarTambah
<1>13. Berpindah(b, c, r)
  BY <1>2, <1>7 DEF Berpindah
<1> QED BY <1>1, <1>2, <1>3, <1>4, <1>10, <1>12, <1>13

LEMMA LangkahTipe ==
    ASSUME TypeInv, NEW p \in Proses, Langkah(p)
    PROVE  /\ TypeInv' /\ Lanjut(baris, baris')
           /\ Ganti(proses, proses', p, ProsesBebas)
           /\ UNCHANGED <<ambang, hitung>> /\ UNCHANGED <<gangguan, tertib>>
<1>1. Lanjut(baris, baris') /\ Len(baris') <= MaxBaris /\ LatarSemua(baris', latar')
  <2>1. CASE BuatTulis(p)
    BY <2>1, BuatTipe
  <2>2. CASE HapusTulis(p)
    BY <2>2, HapusIsi
  <2>3. CASE TandaiTulis(p)
    BY <2>3, TandaiIsi
  <2>4. CASE PindahTulis(p)
    BY <2>4, PindahIsi
  <2>5. CASE Putus(p)
    BY <2>5, LanjutSama DEF Putus, TypeInv
  <2>6. CASE MasukanTulis(p)
    BY <2>6, MasukanTipe
  <2>7. CASE GantiTulis(p)
    BY <2>7, GantiIsi
  <2> QED BY <2>1, <2>2, <2>3, <2>4, <2>5, <2>6, <2>7 DEF Langkah
<1>2. PICK c, lt : c = baris' /\ lt = latar'
  OBVIOUS
<1>3. Lanjut(baris, c) /\ Len(c) <= MaxBaris /\ LatarSemua(c, lt)
  BY <1>1, <1>2
<1> QED BY <1>1, <1>2, <1>3, LangkahUmum

-----------------------------------------------------------------------------
(* Sums and counters.                                                       *)

Sebab(U, k) == {u \in U : <<u[1], u[2]>> = k}

LEMMA TambahanTipe ==
    ASSUME NEW U, IsFiniteSet(U), \A u \in U : u[3] \in Int, NEW k
    PROVE  Tambahan(U, k) \in Int
<1> DEFINE f == [u \in U |-> u[3]]
           S == Sebab(U, k)
<1>1. S \subseteq U
  BY DEF Sebab
<1>2. IsFiniteSet(S) /\ Bilangan(f, S)
  BY <1>1, FS_Subset DEF Bilangan
<1>3. Tambahan(U, k) = SumFunctionOnSet(f, S)
  BY DEF Tambahan, Sebab
<1> HIDE DEF f, S
<1> QED BY <1>2, <1>3, JumlahTipe

LEMMA TambahanNol ==
    ASSUME NEW U, NEW k, \A u \in U : <<u[1], u[2]>> # k
    PROVE  Tambahan(U, k) = 0
<1>1. {u \in U : <<u[1], u[2]>> = k} = {}
  OBVIOUS
<1> QED BY <1>1, JumlahKosong DEF Tambahan

LEMMA TambahanSatu ==
    ASSUME NEW U, NEW k, NEW e \in U, <<e[1], e[2]>> = k, e[3] \in Int,
           \A u \in U : <<u[1], u[2]>> = k => u = e
    PROVE  Tambahan(U, k) = e[3]
<1> DEFINE f == [u \in U |-> u[3]]
<1>1. {u \in U : <<u[1], u[2]>> = k} = {e}
  OBVIOUS
<1>2. Tambahan(U, k) = SumFunctionOnSet(f, {e})
  BY <1>1 DEF Tambahan
<1>3. f[e] = e[3] /\ Bilangan(f, {e}) /\ IsFiniteSet({e}) /\ {e} \ {e} = {}
  BY FS_Singleton DEF Bilangan
<1> HIDE DEF f
<1>4. SumFunctionOnSet(f, {e}) = f[e] + SumFunctionOnSet(f, {e} \ {e})
  BY <1>3, JumlahSatu
<1>5. SumFunctionOnSet(f, {}) = 0
  BY JumlahKosong
<1> QED BY <1>2, <1>3, <1>4, <1>5

LEMMA IsiNilai == \A k : Isi(k) = Nilai(hitung, k)
BY DEF Isi, Nilai

LEMMA NilaiTipe == ASSUME NEW h, HitungSah(h), NEW k PROVE Nilai(h, k) \in Int
BY DEF HitungSah, Nilai

LEMMA GeserNilai ==
    ASSUME NEW h, HitungSah(h), NEW U, IsFiniteSet(U), \A u \in U : u[3] \in Int
    PROVE  /\ HitungSah(Geser(h, U))
           /\ \A k : Nilai(Geser(h, U), k) = Nilai(h, k) + Tambahan(U, k)
           /\ DOMAIN Geser(h, U) \subseteq DOMAIN h \cup {<<u[1], u[2]>> : u \in U}
<1> DEFINE K == DOMAIN h \cup {<<u[1], u[2]>> : u \in U}
           Baru(k) == Nilai(h, k) + Tambahan(U, k)
           D == {j \in K : Baru(j) # 0}
           g == Geser(h, U)
<1>1. g = [k \in D |-> Baru(k)]
  BY DEF Geser, Nilai
<1>2. \A k : Baru(k) \in Int
  BY NilaiTipe, TambahanTipe
<1>3. \A k : k \notin K => Baru(k) = 0
  <2> SUFFICES ASSUME NEW k, k \notin K PROVE Baru(k) = 0
    OBVIOUS
  <2>1. \A u \in U : <<u[1], u[2]>> # k
    OBVIOUS
  <2>2. Tambahan(U, k) = 0 /\ Nilai(h, k) = 0
    BY <2>1, TambahanNol DEF Nilai
  <2> QED BY <2>2
<1> HIDE DEF g, K, Baru
<1>4. DOMAIN g = D /\ \A k \in D : g[k] = Baru(k)
  BY <1>1
<1>5. HitungSah(g)
  BY <1>2, <1>4 DEF HitungSah
<1>6. \A k : Nilai(g, k) = Baru(k)
  BY <1>3, <1>4 DEF Nilai
<1>7. DOMAIN g \subseteq K
  BY <1>4
<1> QED BY <1>5, <1>6, <1>7 DEF g, K, Baru

\* What goroutine l adds to counters by the number of the categories of its product.
Kali(l) == {<<u[1], u[2], u[3] * Isi(<<"barang_kategori", l.barang>>)>> : u \in l.kali}

\* What a goroutine does, with the statements U, V, B and H that succeed.
Hasil(l, U, V, B, H) ==
    /\ U \subseteq l.ubah /\ V \subseteq Kali(l) /\ B \subseteq l.buat /\ H \subseteq l.buang
    /\ ~gangguan => U = l.ubah /\ V = Kali(l) /\ B = l.buat /\ H = l.buang
    /\ ambang' = (ambang \cup B) \ H
    /\ LET h == Geser(Geser(hitung, Kena(U, ambang \cup B)), Kena(V, ambang))
       IN  hitung' = [k \in {j \in DOMAIN h : j[1] \in KolomAmbang => j[2] \notin H} |-> h[k]]

LEMMA HitungIsi ==
    ASSUME NEW i \in DOMAIN latar, LatarHitung(i)
    PROVE  /\ latar[i].aktif = 0 /\ latar' = Sisa(i) /\ UNCHANGED <<baris, proses>> /\ UNCHANGED <<gangguan, tertib>>
           /\ \E U, V, B, H : Hasil(latar[i], U, V, B, H)
<1>1. /\ latar[i].aktif = 0 /\ latar' = Sisa(i) /\ UNCHANGED <<baris, proses>>
  BY DEF LatarHitung
<1>2. UNCHANGED <<gangguan, tertib>>
  BY DEF LatarHitung, keadaan
<1> DEFINE n == Isi(<<"barang_kategori", latar[i].barang>>)
<1>3. PICK U \in Sebagian(latar[i].ubah), V \in Sebagian(Kali(latar[i])), B \in Sebagian(latar[i].buat),
           H \in Sebagian(latar[i].buang) :
              /\ latar[i].kali # {} /\ n < 0 => U = {} /\ V = {}
              /\ LET h == Geser(Geser(hitung, Kena(U, ambang \cup B)), Kena(V, ambang))
                 IN  hitung' = [k \in {j \in DOMAIN h : j[1] \in KolomAmbang => j[2] \notin H} |-> h[k]]
              /\ ambang' = (ambang \cup B) \ H
  BY Zenon DEF LatarHitung, Kali
<1>4. /\ U \subseteq latar[i].ubah /\ V \subseteq Kali(latar[i])
      /\ B \subseteq latar[i].buat /\ H \subseteq latar[i].buang
      /\ ~gangguan => U = latar[i].ubah /\ V = Kali(latar[i]) /\ B = latar[i].buat /\ H = latar[i].buang
  BY <1>3 DEF Sebagian
<1>5. Hasil(latar[i], U, V, B, H)
  BY <1>3, <1>4 DEF Hasil
<1> QED BY <1>1, <1>2, <1>5

LEMMA CitraHingga ==
    ASSUME NEW S, IsFiniteSet(S), NEW T, NEW f \in [S -> T], \A t \in T : \E s \in S : f[s] = t
    PROVE  IsFiniteSet(T)
BY FS_Surjection DEF Surjection

LEMMA UbahSah ==
    ASSUME NEW b, NEW l, LatarSah(b, l)
    PROVE  /\ IsFiniteSet(l.ubah) /\ IsFiniteSet(l.kali)
           /\ \A u \in l.ubah \cup l.kali : u = <<u[1], u[2], u[3]>> /\ u[1] \in Kolom /\ u[2] \in Nat /\ u[3] \in Int
           /\ l.barang \in 0 .. Len(b) /\ l.buat \subseteq 1 .. Len(b) /\ l.buang \subseteq 1 .. Len(b)
           /\ l.aktif \in 0 .. Len(b)
<1>1. l \in TipeLatar(Len(b)) /\ IsFiniteSet(l.ubah) /\ IsFiniteSet(l.kali)
  BY DEF LatarSah
<1>2. /\ l.ubah \in SUBSET Perubahan /\ l.kali \in SUBSET Perubahan
      /\ l.barang \in 0 .. Len(b) /\ l.buat \subseteq 1 .. Len(b) /\ l.buang \subseteq 1 .. Len(b)
      /\ l.aktif \in 0 .. Len(b)
  BY <1>1 DEF TipeLatar
<1>3. \A u \in Perubahan : u = <<u[1], u[2], u[3]>> /\ u[1] \in Kolom /\ u[2] \in Nat /\ u[3] \in Int
  BY DEF Perubahan
<1> QED BY <1>1, <1>2, <1>3

LEMMA KaliSah ==
    ASSUME NEW b, HitungSah(hitung), NEW l, LatarSah(b, l)
    PROVE  /\ IsFiniteSet(Kali(l))
           /\ \A u \in Kali(l) : /\ u = <<u[1], u[2], u[3]>> /\ u[3] \in Int /\ u[2] \in Nat
                                 /\ u[1] \in KolomAmbang
<1>1. /\ IsFiniteSet(l.kali)
      /\ \A u \in l.kali : u[1] \in KolomAmbang /\ u[2] \in Nat /\ u[3] \in Int
  BY UbahSah DEF LatarSah, KolomKali, KolomAmbang
<1>2. PICK m \in Int : m = Isi(<<"barang_kategori", l.barang>>)
  BY NilaiTipe, IsiNilai
<1> DEFINE S == {<<u[1], u[2], u[3] * m>> : u \in l.kali}
<1>3. Kali(l) = S
  BY <1>2 DEF Kali
<1>4. \A u \in l.kali : u[3] * m \in Int
  BY <1>1
<1>5. \A u \in S : u = <<u[1], u[2], u[3]>> /\ u[3] \in Int /\ u[2] \in Nat /\ u[1] \in KolomAmbang
  BY <1>1, <1>4
<1>6. IsFiniteSet(S)
  <2> DEFINE f == [u \in l.kali |-> <<u[1], u[2], u[3] * m>>]
  <2>1. f \in [l.kali -> S] /\ \A t \in S : \E u \in l.kali : f[u] = t
    OBVIOUS
  <2> HIDE DEF f, S
  <2> QED BY <1>1, <2>1, CitraHingga
<1> QED BY <1>3, <1>5, <1>6

DomainHasil(B, H) ==
    \A k \in DOMAIN hitung' :
        /\ k[1] \in KolomAmbang => k[2] \notin H
        /\ k \in DOMAIN hitung \/ (k[1] \in KolomAmbang => k[2] \in ambang \cup B)

LEMMA HasilIsi ==
    ASSUME TypeInv, NEW l, LatarSah(baris, l), NEW U, NEW V, NEW B, NEW H, Hasil(l, U, V, B, H)
    PROVE  /\ HitungSah(hitung') /\ AmbangSah(baris, ambang')
           /\ \A k : (k[1] \in KolomAmbang => k[2] \notin H) =>
                 Nilai(hitung', k) = Nilai(hitung, k) + Tambahan(Kena(U, ambang \cup B), k)
                                    + Tambahan(Kena(V, ambang), k)
           /\ DomainHasil(B, H)
<1> DEFINE A == Kena(U, ambang \cup B)
           C == Kena(V, ambang)
           h == Geser(hitung, A)
           g == Geser(h, C)
           D == {j \in DOMAIN g : j[1] \in KolomAmbang => j[2] \notin H}
<1>1. /\ U \subseteq l.ubah /\ V \subseteq Kali(l) /\ B \subseteq l.buat
      /\ ambang' = (ambang \cup B) \ H /\ hitung' = [k \in D |-> g[k]]
  BY DEF Hasil
<1>2. HitungSah(hitung) /\ AmbangSah(baris, ambang)
  BY DEF TypeInv
<1>3. IsFiniteSet(A) /\ \A u \in A : u[3] \in Int
  <2>1. A \subseteq l.ubah
    BY <1>1 DEF Kena
  <2> QED BY <2>1, UbahSah, FS_Subset
<1>4. IsFiniteSet(C) /\ \A u \in C : u[3] \in Int
  <2>1. C \subseteq Kali(l)
    BY <1>1 DEF Kena
  <2> QED BY <2>1, <1>2, KaliSah, FS_Subset
<1> HIDE DEF A, C
<1>5. /\ HitungSah(h) /\ \A k : Nilai(h, k) = Nilai(hitung, k) + Tambahan(A, k)
      /\ DOMAIN h \subseteq DOMAIN hitung \cup {<<u[1], u[2]>> : u \in A}
  BY <1>2, <1>3, GeserNilai
<1> HIDE DEF h
<1>6. /\ HitungSah(g) /\ \A k : Nilai(g, k) = Nilai(h, k) + Tambahan(C, k)
      /\ DOMAIN g \subseteq DOMAIN h \cup {<<u[1], u[2]>> : u \in C}
  BY <1>4, <1>5, GeserNilai
<1> HIDE DEF g
<1>7. DOMAIN hitung' = D /\ \A k \in D : hitung'[k] = g[k]
  BY <1>1
<1>8. HitungSah(hitung')
  BY <1>6, <1>7 DEF HitungSah
<1>9. \A k : (k[1] \in KolomAmbang => k[2] \notin H) => Nilai(hitung', k) = Nilai(g, k)
  BY <1>7 DEF Nilai
<1>10. \A k : Nilai(g, k) = Nilai(hitung, k) + Tambahan(A, k) + Tambahan(C, k)
  BY <1>5, <1>6
<1>11. AmbangSah(baris, ambang')
  <2>1. \A i \in B : i \in DOMAIN baris /\ baris[i].tabel \in BerAmbang
    BY <1>1, UbahSah, BarisDomain DEF LatarSah, TypeInv
  <2> QED BY <1>1, <1>2, <2>1 DEF AmbangSah
<1>12. \A k \in DOMAIN hitung' :
          /\ k[1] \in KolomAmbang => k[2] \notin H
          /\ k \in DOMAIN hitung \/ \E u \in A \cup C : k = <<u[1], u[2]>>
  BY <1>5, <1>6, <1>7
<1>13. \A u \in A \cup C : u[1] \in KolomAmbang => u[2] \in ambang \cup B
  BY DEF A, C, Kena
<1>14. \A k \in DOMAIN hitung' :
          /\ k[1] \in KolomAmbang => k[2] \notin H
          /\ k \in DOMAIN hitung \/ (k[1] \in KolomAmbang => k[2] \in ambang \cup B)
  BY <1>12, <1>13
<1> QED BY <1>8, <1>9, <1>10, <1>11, <1>14 DEF A, C, DomainHasil

LEMMA HitungTipe ==
    ASSUME TypeInv, NEW i \in DOMAIN latar, LatarHitung(i)
    PROVE  TypeInv'
<1>1. /\ latar' = Sisa(i) /\ UNCHANGED <<baris, proses>>
      /\ \E U, V, B, H : Hasil(latar[i], U, V, B, H)
  BY HitungIsi
<1>2. LatarSah(baris, latar[i]) /\ LatarSemua(baris, latar) /\ Len(latar) <= MaxLatar
  BY DEF TypeInv, LatarSemua
<1>3. HitungSah(hitung') /\ AmbangSah(baris, ambang')
  BY <1>1, <1>2, HasilIsi
<1>4. LatarSemua(baris, latar') /\ Len(latar') <= MaxLatar
  <2>1. LatarSemua(baris, Sisa(i)) /\ Len(Sisa(i)) = Len(latar) - 1 /\ Len(latar) \in Nat
    BY <1>2, SisaIsi
  <2>2. MaxLatar \in Nat
    BY RelasiAssumption DEF RelasiAssumption
  <2> QED BY <1>1, <1>2, <2>1, <2>2
<1> QED BY <1>1, <1>3, <1>4 DEF TypeInv

\* A row of which only the flag moves.
Tandai(b, c, i) ==
    /\ DOMAIN c = DOMAIN b
    /\ \A j \in DOMAIN b : j # i => c[j] = b[j]
    /\ i \in DOMAIN b
    /\ c[i].tabel = b[i].tabel /\ c[i].dari = b[i].dari /\ c[i].ke = b[i].ke
    /\ c[i].rujuk = b[i].rujuk /\ c[i].ada = b[i].ada

Bertanda(b, c, i, t) == c = [b EXCEPT ![i].tanda = t]

LEMMA TandaiSatu ==
    ASSUME NEW b, BarisSah(b), NEW i \in DOMAIN b, NEW t \in BOOLEAN, NEW c, Bertanda(b, c, i, t)
    PROVE  Lanjut(b, c) /\ Len(c) = Len(b) /\ Tandai(b, c, i) /\ c[i].tanda = t
<1>1. /\ DOMAIN b = 1 .. Len(b) /\ Len(b) \in Nat
      /\ \A j \in DOMAIN b : b[j] \in TipeBaris(Len(b)) /\ Rujukan(b, b[j])
  BY BarisDomain
<1>2. b = [j \in DOMAIN b |-> b[j]]
  BY DEF BarisSah
<1>3. c = [j \in DOMAIN b |-> IF j = i THEN [b[j] EXCEPT !.tanda = t] ELSE b[j]]
  BY <1>2 DEF Bertanda
<1>4. ASSUME NEW j \in DOMAIN b
      PROVE  /\ c[j] \in TipeBaris(Len(b)) /\ Rujukan(b, c[j])
             /\ c[j].tabel = b[j].tabel /\ c[j].dari = b[j].dari /\ c[j].ke = b[j].ke
             /\ c[j].rujuk = b[j].rujuk /\ c[j].ada = b[j].ada
             /\ Turunan(b[j], c[j])
             /\ j # i => c[j] = b[j]
             /\ j = i => c[j].tanda = t
  <2>1. CASE j # i
    BY <2>1, <1>1, <1>3, TurunanSama
  <2>2. CASE j = i
    <3>1. c[j] = [b[j] EXCEPT !.tanda = t] /\ b[j] \in TipeBaris(Len(b)) /\ Rujukan(b, b[j])
      BY <2>2, <1>1, <1>3
    <3>2. PICK r, s : r = b[j] /\ s = c[j]
      OBVIOUS
    <3>3. s = [r EXCEPT !.tanda = t] /\ r \in TipeBaris(Len(b))
      BY <3>1, <3>2
    <3>4. /\ s \in TipeBaris(Len(b)) /\ s.tabel = r.tabel /\ s.dari = r.dari
          /\ s.ke = r.ke /\ s.rujuk = r.rujuk /\ s.ada = r.ada /\ s.tanda = t
      BY <3>3, IsiTanda
    <3> QED BY <2>2, <3>1, <3>2, <3>4 DEF Rujukan, Turunan
  <2> QED BY <2>1, <2>2
<1>5. c = [j \in DOMAIN b |-> c[j]]
  BY <1>3
<1>6. \A j \in DOMAIN b : /\ c[j] \in TipeBaris(Len(b)) /\ Rujukan(b, c[j])
                          /\ Turunan(b[j], c[j])
  BY <1>4
<1>7. Lanjut(b, c) /\ Len(c) = Len(b) /\ DOMAIN c = DOMAIN b
  BY <1>5, <1>6, BarisUbah
<1> QED BY <1>4, <1>7 DEF Tandai

LEMMA ProsesLanjut ==
    ASSUME NEW b, NEW c, BarisSah(b), Lanjut(b, c), NEW pr, ProsesSemua(b, pr)
    PROVE  ProsesSemua(c, pr)
<1>1. Len(b) \in Nat /\ Len(c) \in Nat /\ Len(b) <= Len(c)
  BY DEF Lanjut
<1>2. pr \in [Proses -> TipeProses(Len(c))]
  BY <1>1, TipeTumbuh DEF ProsesSemua
<1>3. \A p \in Proses : ProsesSah(c, pr[p])
  BY ProsesTetap DEF ProsesSemua
<1> QED BY <1>2, <1>3 DEF ProsesSemua

LEMMA AktifTipe ==
    ASSUME TypeInv, NEW i \in DOMAIN latar, LatarAktif(i)
    PROVE  /\ TypeInv' /\ latar[i].aktif # 0 /\ latar' = Sisa(i)
           /\ latar[i].aktif \in DOMAIN baris /\ baris[latar[i].aktif].tabel = "diskon_produk"
           /\ baris' = baris \/ Tandai(baris, baris', latar[i].aktif)
           /\ UNCHANGED <<ambang, hitung, proses>> /\ UNCHANGED <<gangguan, tertib>>
<1>1. /\ latar[i].aktif # 0 /\ latar' = Sisa(i) /\ UNCHANGED <<ambang, hitung, proses>>
      /\ baris' = [baris EXCEPT ![latar[i].aktif].tanda = baris[latar[i].aktif].ada] \/ baris' = baris
  BY DEF LatarAktif
<1>2. UNCHANGED <<gangguan, tertib>>
  BY DEF LatarAktif, keadaan
<1>3. LatarSah(baris, latar[i]) /\ LatarSemua(baris, latar) /\ Len(latar) <= MaxLatar /\ BarisSah(baris)
  BY DEF TypeInv, LatarSemua
<1>4. PICK a : a = latar[i].aktif
  OBVIOUS
<1>5. a \in DOMAIN baris /\ baris[a].tabel = "diskon_produk"
  <2>1. a \in 0 .. Len(baris) /\ a # 0 /\ baris[a].tabel = "diskon_produk"
    BY <1>1, <1>3, <1>4, UbahSah DEF LatarSah
  <2>2. DOMAIN baris = 1 .. Len(baris) /\ Len(baris) \in Nat
    BY <1>3, BarisDomain
  <2> QED BY <2>1, <2>2
<1>6. baris[a].ada \in BOOLEAN
  BY <1>3, <1>5, BarisDomain DEF TipeBaris
<1>7. Lanjut(baris, baris') /\ Len(baris') = Len(baris) /\ (baris' = baris \/ Tandai(baris, baris', a))
  <2>1. CASE baris' = baris
    BY <2>1, <1>3, LanjutSama
  <2>2. CASE baris' # baris
    <3>1. PICK b, c, t : b = baris /\ c = baris' /\ t = baris[a].ada
      OBVIOUS
    <3>2. BarisSah(b) /\ a \in DOMAIN b /\ t \in BOOLEAN /\ Bertanda(b, c, a, t)
      BY <1>1, <1>3, <1>4, <1>5, <1>6, <2>2, <3>1 DEF Bertanda
    <3>3. Lanjut(b, c) /\ Len(c) = Len(b) /\ Tandai(b, c, a)
      BY <3>2, TandaiSatu
    <3> QED BY <3>1, <3>3
  <2> QED BY <2>1, <2>2
<1>8. PICK b, c, pr, lt, am, ls : b = baris /\ c = baris' /\ pr = proses /\ lt = latar /\ am = ambang /\ ls = latar'
  OBVIOUS
<1>9. BarisSah(b) /\ Lanjut(b, c) /\ ProsesSemua(b, pr) /\ LatarSemua(b, lt) /\ AmbangSah(b, am)
  BY <1>7, <1>8 DEF TypeInv
<1>10. LatarSemua(c, ls) /\ Len(ls) <= MaxLatar
  <2>1. LatarSemua(b, Sisa(i)) /\ Len(Sisa(i)) = Len(latar) - 1 /\ Len(latar) \in Nat
    BY <1>3, <1>8, SisaIsi
  <2>2. MaxLatar \in Nat
    BY RelasiAssumption DEF RelasiAssumption
  <2>3. LatarSemua(b, ls) /\ Len(ls) <= MaxLatar
    BY <1>1, <1>3, <1>8, <2>1, <2>2
  <2> QED BY <2>3, <1>9, LatarLanjut
<1>11. ProsesSemua(c, pr)
  BY <1>9, ProsesLanjut
<1>12. AmbangSah(c, am)
  BY <1>9, AmbangLanjut
<1>13. TypeInv'
  BY <1>1, <1>7, <1>8, <1>9, <1>10, <1>11, <1>12 DEF TypeInv, Lanjut
<1> QED BY <1>1, <1>2, <1>4, <1>5, <1>7, <1>13

LEMMA SampaiTipe ==
    ASSUME TypeInv, NEW i, Sampai(i)
    PROVE  /\ TypeInv' /\ i \in DOMAIN baris /\ baris[i].tabel = "pesanan" /\ baris[i].ada
           /\ ~baris[i].tanda /\ (tertib => Tenang)
           /\ Tandai(baris, baris', i) /\ baris'[i].tanda
           /\ UNCHANGED <<ambang, hitung, latar, proses>> /\ UNCHANGED <<gangguan, tertib>>
<1>1. /\ i \in BarisAda("pesanan") /\ ~baris[i].tanda /\ (tertib => Tenang)
      /\ UNCHANGED <<ambang, hitung, latar, proses>>
      /\ baris' = [baris EXCEPT ![i].tanda = TRUE]
  BY DEF Sampai
<1>2. UNCHANGED <<gangguan, tertib>>
  BY DEF Sampai, keadaan
<1>3. PICK b, c, pr, lt, am : b = baris /\ c = baris' /\ pr = proses /\ lt = latar /\ am = ambang
  OBVIOUS
<1>4. BarisSah(b) /\ ProsesSemua(b, pr) /\ LatarSemua(b, lt) /\ AmbangSah(b, am)
  BY <1>3 DEF TypeInv
<1>5. i \in DOMAIN b /\ Bertanda(b, c, i, TRUE)
  BY <1>1, <1>3 DEF BarisAda, Pernah, Bertanda
<1>6. Lanjut(b, c) /\ Len(c) = Len(b) /\ Tandai(b, c, i) /\ c[i].tanda = TRUE
  BY <1>4, <1>5, TandaiSatu
<1>7. ProsesSemua(c, pr) /\ LatarSemua(c, lt) /\ AmbangSah(c, am)
  BY <1>4, <1>6, ProsesLanjut, LatarLanjut, AmbangLanjut
<1>8. TypeInv'
  BY <1>1, <1>3, <1>4, <1>6, <1>7 DEF TypeInv, Lanjut
<1>9. baris[i].tabel = "pesanan" /\ baris[i].ada
  BY <1>1 DEF BarisAda, Pernah
<1> QED BY <1>1, <1>2, <1>3, <1>5, <1>6, <1>8, <1>9

-----------------------------------------------------------------------------
(* What the handlers read.                                                  *)

LEMMA Penghitungan ==
    ASSUME NEW r, NEW c \in DOMAIN KolomBenar, NEW x
    PROVE  Menghitung(r, c, x) <=>
              \/ r.tabel = "keranjang" /\ c = "pengguna_keranjang" /\ x = r.dari
              \/ r.tabel = "keranjang" /\ c = "barang_keranjang" /\ x = r.rujuk[1]
              \/ r.tabel = "follower" /\ c = "pengguna_following" /\ x = r.dari
              \/ r.tabel = "follower" /\ c = "seller_follower" /\ x = r.ke
              \/ r.tabel = "review" /\ c = "pengguna_review" /\ x = r.dari
              \/ r.tabel = "review" /\ c = "barang_review" /\ x = r.rujuk[1]
              \/ r.tabel = "alamat_pengguna" /\ c = "pengguna_alamat" /\ x = r.dari
              \/ r.tabel = "etalase" /\ c = "seller_etalase" /\ x = r.dari
              \/ r.tabel = "barang_ke_etalase" /\ c = "etalase_barang" /\ x = r.rujuk[1]
              \/ r.tabel = "diskon_produk" /\ c = "seller_diskon" /\ x = r.dari
              \/ r.tabel = "barang_di_diskon" /\ c = "diskon_barang" /\ x = r.rujuk[1]
              \/ r.tabel = "rekening_seller" /\ c = "seller_rekening" /\ x = r.dari
              \/ r.tabel = "alamat_gudang" /\ c = "seller_gudang" /\ x = r.dari
              \/ r.tabel = "barang_induk" /\ c = "seller_barang_induk" /\ x = r.dari
              \/ r.tabel = "kategori_barang" /\ c = "barang_kategori" /\ x = r.rujuk[1]
              \/ r.tabel = "distributor_data" /\ c = "seller_distributor" /\ x = r.dari
              \/ r.tabel = "brand_data" /\ c = "seller_brand" /\ x = r.dari
              \/ r.tabel = "alamat_kurir" /\ c = "kurir_alamat" /\ x = r.dari
              \/ r.tabel = "informasi_kendaraan_kurir" /\ c = "kurir_kendaraan" /\ x = r.dari
              \/ r.tabel = "informasi_kurir" /\ c = "kurir_informasi" /\ x = r.dari
BY DEF Menghitung, KolomBenar, Dihitung

LEMMA UbahHingga == \A a, b, c, d : IsFiniteSet({a, b, c, d})
<1> TAKE a, b, c, d
<1>1. IsFiniteSet({}) /\ IsFiniteSet({} \cup {a})
  BY FS_EmptySet, FS_AddElement
<1>2. IsFiniteSet({a})
  <2>1. {} \cup {a} = {a}
    OBVIOUS
  <2> QED BY <1>1, <2>1
<1>3. IsFiniteSet(({a} \cup {b}) \cup {c})
  BY <1>2, FS_AddElement
<1>4. IsFiniteSet((({a} \cup {b}) \cup {c}) \cup {d})
  BY <1>3, FS_AddElement
<1>5. (({a} \cup {b}) \cup {c}) \cup {d} = {a, b, c, d}
  OBVIOUS
<1> QED BY <1>4, <1>5

LEMMA HinggaKecil ==
    \A a, b, c, d : IsFiniteSet({}) /\ IsFiniteSet({a}) /\ IsFiniteSet({a, b}) /\ IsFiniteSet({a, b, c}) /\ IsFiniteSet({a, b, c, d})
<1> TAKE a, b, c, d
<1>1. IsFiniteSet({a, a, a, a}) /\ IsFiniteSet({a, b, b, b}) /\ IsFiniteSet({a, b, c, c}) /\ IsFiniteSet({a, b, c, d})
  BY UbahHingga
<1>2. {a, a, a, a} = {a} /\ {a, b, b, b} = {a, b} /\ {a, b, c, c} = {a, b, c}
  OBVIOUS
<1> QED BY <1>1, <1>2, FS_EmptySet

LEMMA Id == Pengguna \subseteq Nat /\ Seller \subseteq Nat /\ Kurir \subseteq Nat /\ Nama \subseteq Nat
BY RelasiAssumption DEF RelasiAssumption

\* A goroutine that moves counters and deletes threshold rows.
BagianLatar(n, U, H) == n \in Nat /\ U \subseteq Perubahan /\ IsFiniteSet(U) /\ H \in SUBSET (1 .. n)
IsiLatar(l, U, H) == l = [ubah |-> U, kali |-> {}, barang |-> 0, buat |-> {}, buang |-> H, aktif |-> 0]

LEMMA RekamLatar ==
    ASSUME NEW b, NEW U, NEW H, NEW l, BagianLatar(Len(b), U, H), IsiLatar(l, U, H)
    PROVE  /\ LatarSah(b, l) /\ l \in TipeLatar(Len(b)) /\ l.ubah = U /\ l.kali = {} /\ l.buang = H
           /\ l.buat = {} /\ l.aktif = 0
<1>1. l \in TipeLatar(Len(b))
  BY DEF TipeLatar, IsiLatar, BagianLatar
<1>2. l.ubah = U /\ l.kali = {} /\ l.buang = H /\ l.buat = {} /\ l.aktif = 0
  BY DEF IsiLatar
<1> QED BY <1>1, <1>2, FS_EmptySet DEF LatarSah, BagianLatar

LEMMA UrutKecil ==
    ASSUME NEW n \in Nat, NEW a \in 1 .. n
    PROVE  /\ << >> \in Seq(1 .. n) /\ Len(<< >>) = 0
           /\ <<a>> \in Seq(1 .. n) /\ Len(<<a>>) = 1
           /\ \A b \in 1 .. n : <<a, b>> \in Seq(1 .. n) /\ Len(<<a, b>>) = 2
           /\ \A b, c \in 1 .. n : <<a, b, c>> \in Seq(1 .. n) /\ Len(<<a, b, c>>) = 3
OBVIOUS

LEMMA UrutKosong == ASSUME NEW n \in Nat PROVE << >> \in Seq(1 .. n) /\ Len(<< >>) = 0
OBVIOUS

LEMMA AnakTipe == ASSUME NEW n \in Nat PROVE AnakKosong \in TipeAnak(n)
BY DEF AnakKosong, TipeAnak

\* A request that makes a row.
PermintaanBuat(r, U) == [ProsesBebas EXCEPT !.tugas = "buat", !.baris = r, !.latar.ubah = U]

LEMMA MintaBuat ==
    ASSUME TypeInv, NEW p \in Proses, NEW r \in TipeBaris(Len(baris)), r.ada, Rujukan(baris, r),
           NEW U, U \subseteq Perubahan, IsFiniteSet(U), Cocokan(DOMAIN KolomBenar, U, r, Naik),
           tertib /\ Tenang => SegarBuat(baris, r), BuatBaca(p, r, U)
    PROVE  Minta(p)
<1>1. PICK q : q = PermintaanBuat(r, U)
  OBVIOUS
<1>2. Mulai(p, q)
  BY <1>1 DEF BuatBaca, PermintaanBuat
<1>3. PICK l : l = [LatarKosong EXCEPT !.ubah = U]
  OBVIOUS
<1>4. IsiLatar(l, U, {})
  BY <1>3 DEF LatarKosong, IsiLatar
<1>40. PICK n, g, e, z, w, a : n = Len(baris) /\ g = "buat" /\ e = {} /\ z = 0 /\ w = "" /\ a = AnakKosong
  OBVIOUS
<1>41. IsiProses(q, g, r, a, z, e, w, l)
  BY <1>1, <1>3, <1>40 DEF PermintaanBuat, ProsesBebas, IsiProses
<1>42. a \in TipeAnak(n)
  <2>1. Len(baris) \in Nat
    BY BarisDomain DEF TypeInv
  <2> QED BY <1>40, <2>1, AnakTipe
<1>5. Len(baris) \in Nat /\ 0 \in 0 .. Len(baris) /\ {} \in SUBSET (1 .. Len(baris))
  BY BarisDomain DEF TypeInv
<1>60. BagianLatar(Len(baris), U, {})
  BY <1>5 DEF BagianLatar
<1>6. /\ LatarSah(baris, l) /\ l \in TipeLatar(Len(baris)) /\ l.ubah = U /\ l.kali = {}
      /\ l.buat = {} /\ l.aktif = 0
  BY <1>4, <1>60, RekamLatar
<1>7. BagianProses(n, g, r, a, z, e, w, l)
  BY <1>40, <1>42, <1>5, <1>6 DEF BagianProses, Tugas
<1>70. /\ q \in TipeProses(n) /\ q.tugas = g /\ q.baris = r /\ q.latar = l
  BY <1>41, <1>7, RekamProses
<1>71. /\ q \in TipeProses(Len(baris)) /\ q.tugas = "buat" /\ q.baris = r /\ q.latar = l
  BY <1>40, <1>70
<1>8. ProsesSah(baris, q)
  BY <1>6, <1>71 DEF ProsesSah
<1>9. Hitungan(baris, q)
  BY <1>71, <1>6 DEF Hitungan
<1>10. tertib => Segar(baris, q)
  BY <1>2, <1>71 DEF Mulai, Segar
<1>11. Awal(q)
  BY <1>71, <1>8, <1>9, <1>10 DEF Awal
<1> QED BY <1>2, <1>11 DEF Minta

\* One that makes a product with its categories.
PermintaanMasukan(r, a, U) ==
    [ProsesBebas EXCEPT !.tugas = "masukan", !.baris = r, !.anak = a, !.latar.ubah = U]

LEMMA MintaMasukan ==
    ASSUME TypeInv, NEW p \in Proses, NEW r \in TipeBaris(Len(baris)), r.ada, Rujukan(baris, r),
           r.tabel = "barang_induk", NEW a \in TipeAnak(Len(baris)), a.gudang # 0, a.rekening # 0,
           baris[a.gudang].tabel = "alamat_gudang", baris[a.rekening].tabel = "rekening_seller",
           NEW U, U \subseteq Perubahan, IsFiniteSet(U), Cocokan(DOMAIN KolomBenar, U, r, Naik),
           MasukanBaca(p, r, a, U)
    PROVE  Minta(p)
<1>1. PICK q : q = PermintaanMasukan(r, a, U)
  OBVIOUS
<1>2. Mulai(p, q)
  BY <1>1 DEF MasukanBaca, PermintaanMasukan
<1>3. PICK l : l = [LatarKosong EXCEPT !.ubah = U]
  OBVIOUS
<1>4. IsiLatar(l, U, {})
  BY <1>3 DEF LatarKosong, IsiLatar
<1>40. PICK n, g, e, z, w : n = Len(baris) /\ g = "masukan" /\ e = {} /\ z = 0 /\ w = ""
  OBVIOUS
<1>41. IsiProses(q, g, r, a, z, e, w, l)
  BY <1>1, <1>3, <1>40 DEF PermintaanMasukan, ProsesBebas, IsiProses
<1>5. Len(baris) \in Nat /\ 0 \in 0 .. Len(baris) /\ {} \in SUBSET (1 .. Len(baris))
  BY BarisDomain DEF TypeInv
<1>60. BagianLatar(Len(baris), U, {})
  BY <1>5 DEF BagianLatar
<1>6. /\ LatarSah(baris, l) /\ l \in TipeLatar(Len(baris)) /\ l.ubah = U /\ l.kali = {}
      /\ l.buat = {} /\ l.aktif = 0
  BY <1>4, <1>60, RekamLatar
<1>7. BagianProses(n, g, r, a, z, e, w, l)
  BY <1>40, <1>5, <1>6 DEF BagianProses, Tugas
<1>70. /\ q \in TipeProses(n) /\ q.tugas = g /\ q.baris = r /\ q.anak = a /\ q.latar = l
  BY <1>41, <1>7, RekamProses
<1>71. /\ q \in TipeProses(Len(baris)) /\ q.tugas = "masukan" /\ q.baris = r /\ q.anak = a /\ q.latar = l
  BY <1>40, <1>70
<1>8. ProsesSah(baris, q)
  BY <1>6, <1>71 DEF ProsesSah
<1>9. Hitungan(baris, q)
  BY <1>71, <1>6 DEF Hitungan
<1>10. Segar(baris, q)
  BY <1>71 DEF Segar
<1>11. Awal(q)
  BY <1>71, <1>8, <1>9, <1>10 DEF Awal
<1> QED BY <1>2, <1>11 DEF Minta

\* One that deletes a row.
PermintaanHapus(i, U, H, t) ==
    [ProsesBebas EXCEPT !.tugas = "hapus", !.id = i, !.ikut = t, !.latar.ubah = U, !.latar.buang = H]

Bawaan(t) == t \in TabelIkut \cup {""}

LEMMA LepasNol == Baris("", 0, 0, << >>) \in BarisLepas
BY DEF BarisLepas

LEMMA MintaHapus ==
    ASSUME TypeInv, NEW p \in Proses, NEW i \in DOMAIN baris,
           NEW U, U \subseteq Perubahan, IsFiniteSet(U), Cocokan(KolomOrang, U, baris[i], Turun),
           NEW H, H \subseteq DOMAIN baris, NEW t, Bawaan(t),
           tertib /\ Tenang => SegarHapus(baris, i, U), HapusBaca(p, i, U, H, t)
    PROVE  Minta(p)
<1>1. PICK q : q = PermintaanHapus(i, U, H, t)
  OBVIOUS
<1>2. Mulai(p, q)
  BY <1>1 DEF HapusBaca, PermintaanHapus
<1>3. PICK l : l = [[LatarKosong EXCEPT !.ubah = U] EXCEPT !.buang = H]
  OBVIOUS
<1>4. IsiLatar(l, U, H)
  BY <1>3 DEF LatarKosong, IsiLatar
<1>40. PICK n, g, e, w, k : n = Len(baris) /\ g = "hapus" /\ e = {} /\ w = AnakKosong /\ k = Baris("", 0, 0, << >>)
  OBVIOUS
<1>41. IsiProses(q, g, k, w, i, e, t, l)
  BY <1>1, <1>3, <1>40 DEF PermintaanHapus, ProsesBebas, IsiProses
<1>50. DOMAIN baris = 1 .. Len(baris) /\ Len(baris) \in Nat
  BY BarisDomain DEF TypeInv
<1>5. Len(baris) \in Nat /\ i \in 1 .. Len(baris) /\ i \in 0 .. Len(baris) /\ i # 0
  BY <1>50
<1>42. w \in TipeAnak(n) /\ k \in BarisLepas
  BY <1>40, <1>5, AnakTipe, LepasNol
<1>51. H \in SUBSET (1 .. Len(baris))
  BY <1>50
<1>60. BagianLatar(Len(baris), U, H)
  BY <1>5, <1>51 DEF BagianLatar
<1>6. /\ LatarSah(baris, l) /\ l \in TipeLatar(Len(baris)) /\ l.ubah = U /\ l.kali = {}
      /\ l.buat = {} /\ l.aktif = 0
  BY <1>4, <1>60, RekamLatar
<1>7. BagianProses(n, g, k, w, i, e, t, l)
  BY <1>40, <1>42, <1>5, <1>6 DEF BagianProses, Tugas, Bawaan
<1>70. /\ q \in TipeProses(n) /\ q.tugas = g /\ q.id = i /\ q.latar = l
  BY <1>41, <1>7, RekamProses
<1>71. /\ q \in TipeProses(Len(baris)) /\ q.tugas = "hapus" /\ q.id = i /\ q.latar = l
  BY <1>40, <1>70
<1>8. ProsesSah(baris, q)
  BY <1>5, <1>6, <1>71 DEF ProsesSah
<1>9. Hitungan(baris, q)
  BY <1>71, <1>6 DEF Hitungan
<1>10. tertib => Segar(baris, q)
  BY <1>2, <1>6, <1>71 DEF Mulai, Segar
<1>11. Awal(q)
  BY <1>71, <1>8, <1>9, <1>10 DEF Awal
<1> QED BY <1>2, <1>11 DEF Minta

\* One that gives a row another name.
PermintaanGanti(i, b) == [ProsesBebas EXCEPT !.tugas = "ganti", !.id = i, !.baris = b]

LEMMA MintaGanti ==
    ASSUME TypeInv, NEW p \in Proses, NEW i \in DOMAIN baris, baris[i].tabel \in TabelNama, NEW k \in Nama,
           SegarGanti(baris, i), GantiBaca(p, i, k)
    PROVE  Minta(p)
<1>1. PICK b : b = Baris("", 0, k, << >>)
  OBVIOUS
<1>2. [ProsesBebas EXCEPT !.tugas = "ganti", !.id = i, !.baris.ke = k] = PermintaanGanti(i, b)
  <2>1. PICK c : c = Baris("", 0, 0, << >>)
    OBVIOUS
  <2>2. [c EXCEPT !.ke = k] = b
    <3>1. PICK e : e = << >>
      OBVIOUS
    <3>2. c = [tabel |-> "", dari |-> 0, ke |-> 0, rujuk |-> e, tanda |-> FALSE, ada |-> TRUE]
      BY <2>1, <3>1 DEF Baris
    <3>3. b = [tabel |-> "", dari |-> 0, ke |-> k, rujuk |-> e, tanda |-> FALSE, ada |-> TRUE]
      BY <1>1, <3>1 DEF Baris
    <3> DEFINE T == [tabel : {""}, dari : {0}, ke : Nama \cup {0}, rujuk : {e}, tanda : {FALSE}, ada : {TRUE}]
    <3>4. c \in T /\ b \in T
      BY <3>2, <3>3
    <3>5. [c EXCEPT !.ke = k] \in T
      BY <3>4
    <3>6. PICK d \in T : d = [c EXCEPT !.ke = k]
      BY <3>5
    <3>7. d.ke = k /\ b.ke = k
      BY <3>3, <3>4, <3>6
    <3>8. d = [tabel |-> d.tabel, dari |-> d.dari, ke |-> d.ke, rujuk |-> d.rujuk, tanda |-> d.tanda, ada |-> d.ada]
      OBVIOUS
    <3>9. d = b
      BY <3>3, <3>7, <3>8
    <3> QED BY <3>6, <3>9
  <2>3. ProsesBebas.baris = c
    BY <2>1 DEF ProsesBebas
  <2> QED BY <2>2, <2>3 DEF PermintaanGanti, ProsesBebas
<1>3. PICK q : q = PermintaanGanti(i, b)
  OBVIOUS
<1>4. Mulai(p, q)
  BY <1>2, <1>3 DEF GantiBaca
<1>5. PICK n, g, e, t, w, l : n = Len(baris) /\ g = "ganti" /\ e = {} /\ t = "" /\ w = AnakKosong /\ l = LatarKosong
  OBVIOUS
<1>6. IsiProses(q, g, b, w, i, e, t, l)
  BY <1>3, <1>5 DEF PermintaanGanti, ProsesBebas, IsiProses
<1>7. Len(baris) \in Nat /\ i \in 1 .. Len(baris) /\ i # 0 /\ i \in 0 .. Len(baris)
  <2>1. Len(baris) \in Nat /\ DOMAIN baris = 1 .. Len(baris)
    BY BarisDomain DEF TypeInv
  <2> QED BY <2>1
<1>8. b \in BarisLepas /\ b.ke = k
  BY <1>1 DEF BarisLepas, Baris
<1>9. /\ LatarSah(baris, l) /\ l.buat = {} /\ l.aktif = 0 /\ l.kali = {} /\ l.ubah = {} /\ l \in TipeLatar(n)
  <2>1. LatarSah(baris, LatarKosong)
    BY <1>7, BebasSah DEF ProsesSah
  <2> QED BY <2>1, <1>5 DEF LatarKosong, LatarSah
<1>10. BagianProses(n, g, b, w, i, e, t, l)
  BY <1>5, <1>7, <1>8, <1>9, AnakTipe DEF BagianProses, Tugas
<1>11. q \in TipeProses(n) /\ q.tugas = g /\ q.baris = b /\ q.id = i /\ q.latar = l
  BY <1>6, <1>10, RekamProses
<1>12. q \in TipeProses(Len(baris)) /\ q.tugas = "ganti" /\ q.baris.ke = k /\ q.id = i /\ q.latar = l
  BY <1>11, <1>5, <1>8
<1>13. ProsesSah(baris, q)
  BY <1>12, <1>7, <1>9 DEF ProsesSah
<1>14. Hitungan(baris, q) /\ Segar(baris, q)
  BY <1>12 DEF Hitungan, Segar
<1>15. Awal(q)
  BY <1>12, <1>13, <1>14 DEF Awal
<1> QED BY <1>4, <1>15 DEF Minta

\* One that makes an account the default.
PermintaanTandai(i, S) == [ProsesBebas EXCEPT !.tugas = "tandai", !.id = i, !.pilih = S]

LEMMA MintaTandai ==
    ASSUME TypeInv, NEW p \in Proses, NEW i \in DOMAIN baris, baris[i].tabel = "rekening_seller",
           TandaiBaca(p, i)
    PROVE  Minta(p)
<1> DEFINE S == {j \in Milik(baris[i].tabel, baris[i].dari) : baris[j].tanda}
<1>1. PICK q : q = PermintaanTandai(i, S)
  OBVIOUS
<1>2. Mulai(p, q)
  BY <1>1 DEF TandaiBaca, PermintaanTandai
<1>20. PICK n, g, e, z, w, k : n = Len(baris) /\ g = "tandai" /\ e = {} /\ z = AnakKosong /\ w = "" /\ k = Baris("", 0, 0, << >>)
  OBVIOUS
<1>21. PICK l : l = LatarKosong
  OBVIOUS
<1>3. IsiProses(q, g, k, z, i, S, w, l)
  BY <1>1, <1>20, <1>21 DEF PermintaanTandai, ProsesBebas, IsiProses
<1>5. Len(baris) \in Nat /\ i \in 1 .. Len(baris) /\ i # 0 /\ DOMAIN baris = 1 .. Len(baris)
  BY BarisDomain DEF TypeInv
<1>6. \A j \in S : j \in DOMAIN baris /\ baris[j].tabel = "rekening_seller"
  BY DEF Milik, BarisAda, Pernah
<1>7. \A j \in Punya(baris, "rekening_seller", baris[i].dari) : baris[j].tanda => j \in S
  BY DEF Milik, BarisAda, Pernah, Punya
<1> HIDE DEF S
<1>8. /\ LatarSah(baris, LatarKosong) /\ LatarKosong.buat = {} /\ LatarKosong.aktif = 0 /\ LatarKosong.kali = {}
      /\ LatarKosong \in TipeLatar(Len(baris))
  BY <1>5, BebasSah DEF ProsesSah, LatarKosong, LatarSah
<1>81. S \in SUBSET (1 .. Len(baris)) /\ i \in 0 .. Len(baris)
  BY <1>5, <1>6
<1>82. BagianProses(n, g, k, z, i, S, w, l)
  BY <1>20, <1>21, <1>5, <1>8, <1>81, AnakTipe, LepasNol DEF BagianProses, Tugas
<1>83. q \in TipeProses(n) /\ q.tugas = g /\ q.id = i /\ q.pilih = S /\ q.latar = l
  BY <1>3, <1>82, RekamProses
<1>9. /\ q \in TipeProses(Len(baris)) /\ q.tugas = "tandai" /\ q.id = i /\ q.pilih = S /\ q.latar = LatarKosong
  BY <1>20, <1>21, <1>83
<1>10. ProsesSah(baris, q)
  BY <1>5, <1>8, <1>9 DEF ProsesSah
<1>11. Hitungan(baris, q)
  BY <1>9, <1>8 DEF Hitungan
<1>12. Segar(baris, q)
  BY <1>9, <1>6, <1>7 DEF Segar, SegarTandai
<1>13. Awal(q)
  BY <1>9, <1>10, <1>11, <1>12 DEF Awal
<1> QED BY <1>2, <1>13 DEF Minta

\* One that moves categories to another warehouse or account.
PermintaanPindah(K, g, l) == [ProsesBebas EXCEPT !.tugas = "pindah", !.id = g, !.pilih = K, !.latar = l]

LEMMA MintaPindah ==
    ASSUME TypeInv, NEW p \in Proses, NEW K, K \subseteq DOMAIN baris, NEW g \in DOMAIN baris,
           baris[g].tabel \in {"alamat_gudang", "rekening_seller"}, NEW l, LatarSah(baris, l),
           l.buat = {}, l.aktif = 0, \A u \in l.ubah : u[1] \in KolomKali,
           \A r : r.id = g /\ r.pilih = K /\ r.latar = l /\ tertib /\ Tenang => SegarPindah(baris, r),
           PindahBaca(p, K, g, l)
    PROVE  Minta(p)
<1>1. PICK q : q = PermintaanPindah(K, g, l)
  OBVIOUS
<1>2. Mulai(p, q)
  BY <1>1 DEF PindahBaca, PermintaanPindah
<1>20. PICK n, h, w, k, z : n = Len(baris) /\ h = "pindah" /\ w = "" /\ k = Baris("", 0, 0, << >>) /\ z = AnakKosong
  OBVIOUS
<1>3. IsiProses(q, h, k, z, g, K, w, l)
  BY <1>1, <1>20 DEF PermintaanPindah, ProsesBebas, IsiProses
<1>5. Len(baris) \in Nat /\ g \in 1 .. Len(baris) /\ g # 0 /\ DOMAIN baris = 1 .. Len(baris)
  BY BarisDomain DEF TypeInv
<1>81. K \in SUBSET (1 .. Len(baris)) /\ g \in 0 .. Len(baris) /\ l \in TipeLatar(Len(baris))
  BY <1>5 DEF LatarSah
<1>82. BagianProses(n, h, k, z, g, K, w, l)
  BY <1>20, <1>5, <1>81, AnakTipe, LepasNol DEF BagianProses, Tugas
<1>83. q \in TipeProses(n) /\ q.tugas = h /\ q.id = g /\ q.pilih = K /\ q.latar = l
  BY <1>3, <1>82, RekamProses
<1>9. /\ q \in TipeProses(Len(baris)) /\ q.tugas = "pindah" /\ q.id = g /\ q.pilih = K /\ q.latar = l
  BY <1>20, <1>83
<1>10. ProsesSah(baris, q)
  BY <1>5, <1>9 DEF ProsesSah
<1>11. Hitungan(baris, q)
  BY <1>9 DEF Hitungan
<1>12. tertib => Segar(baris, q)
  BY <1>2, <1>9 DEF Segar, Mulai
<1>13. Awal(q)
  BY <1>9, <1>10, <1>11, <1>12 DEF Awal
<1> QED BY <1>2, <1>13 DEF Minta

\* A goroutine that activates a discount moves no counter.
LEMMA AktifDiam ==
    ASSUME NEW b, NEW l, LatarSah(b, l), l.aktif # 0
    PROVE  /\ l.ubah = {} /\ l.kali = {} /\ \A k : Tambahan(l.ubah, k) = 0
<1>1. l.ubah = {} /\ l.kali = {}
  BY DEF LatarSah
<1>2. \A k : Tambahan(l.ubah, k) = 0
  <2> TAKE k
  <2>1. \A u \in l.ubah : <<u[1], u[2]>> # k
    BY <1>1
  <2> QED BY <2>1, TambahanNol
<1> QED BY <1>1, <1>2

LEMMA DatangTenang ==
    ASSUME TypeInv, \A i \in DOMAIN latar : latar[i].aktif # 0
    PROVE  \A k : AkanDatang(k) = 0
<1>1. Len(latar) \in Nat /\ DOMAIN latar = 1 .. Len(latar) /\ \A i \in DOMAIN latar : LatarSah(baris, latar[i])
  <2> DEFINE T == TipeLatar(Len(baris))
  <2> HIDE DEF T
  <2>1. latar \in Seq(T) /\ \A i \in DOMAIN latar : LatarSah(baris, latar[i])
    BY DEF TypeInv, LatarSemua, T
  <2> QED BY <2>1
<1>2. IsFiniteSet(DOMAIN latar)
  BY <1>1, FS_Interval
<1>3. \A i \in DOMAIN latar : (\A k : Tambahan(latar[i].ubah, k) = 0)
  BY <1>1, AktifDiam
<1>4. ASSUME NEW k PROVE AkanDatang(k) = 0
  <2> DEFINE f == [i \in DOMAIN latar |-> Tambahan(latar[i].ubah, k)]
  <2>1. \A i \in DOMAIN latar : f[i] = 0
    BY <1>3
  <2> HIDE DEF f
  <2>2. SumFunctionOnSet(f, DOMAIN latar) = 0
    BY <1>2, <2>1, JumlahNol
  <2> QED BY <2>2 DEF f, AkanDatang
<1> QED BY <1>4

\* What a row refers to is there to be referred to.
LEMMA BarisNat ==
    ASSUME TypeInv, NEW i \in DOMAIN baris
    PROVE  /\ i \in Nat /\ DOMAIN baris = 1 .. Len(baris) /\ Len(baris) \in Nat
           /\ baris[i] \in TipeBaris(Len(baris)) /\ Rujukan(baris, baris[i])
           /\ baris[i].dari \in Nat /\ baris[i].ke \in Nat
           /\ baris[i].dari \in Pengguna \cup Seller \cup Kurir
           /\ Panjang(baris[i].tabel) \in {1, 2, 3, 4} => baris[i].rujuk[1] \in 1 .. Len(baris) /\ baris[i].rujuk[1] \in Nat
           /\ Panjang(baris[i].tabel) \in {2, 3, 4} => baris[i].rujuk[2] \in 1 .. Len(baris) /\ baris[i].rujuk[2] \in Nat
           /\ Panjang(baris[i].tabel) \in {3, 4} => baris[i].rujuk[3] \in 1 .. Len(baris) /\ baris[i].rujuk[3] \in Nat
<1>1. /\ DOMAIN baris = 1 .. Len(baris) /\ Len(baris) \in Nat
      /\ baris[i] \in TipeBaris(Len(baris)) /\ Rujukan(baris, baris[i])
  BY BarisDomain DEF TypeInv
<1>20. PICK n \in Nat : n = Len(baris)
  BY <1>1
<1>2. PICK r \in TipeBaris(n) : r = baris[i] /\ n = Len(baris)
  BY <1>1, <1>20
<1>3. r.dari \in Pengguna \cup Seller \cup Kurir /\ r.ke \in Nama \cup Seller \cup {0}
  BY DEF TipeBaris
<1>4. r.dari \in Nat /\ r.ke \in Nat
  <2>1. PICK d, k, N : d = r.dari /\ k = r.ke /\ N = Nat
    OBVIOUS
  <2>2. Pengguna \subseteq N /\ Seller \subseteq N /\ Kurir \subseteq N /\ Nama \subseteq N /\ {0} \subseteq N
    BY <2>1, Id
  <2>3. d \in N /\ k \in N
    BY <2>1, <2>2, <1>3
  <2> QED BY <2>1, <2>3
<1>5. Len(r.rujuk) = Panjang(r.tabel)
  BY <1>1, <1>2 DEF Rujukan
<1>6. /\ Len(r.rujuk) \in {1, 2, 3, 4} => r.rujuk[1] \in 1 .. n
      /\ Len(r.rujuk) \in {2, 3, 4} => r.rujuk[2] \in 1 .. n
      /\ Len(r.rujuk) \in {3, 4} => r.rujuk[3] \in 1 .. n
  BY RujukIndeks
<1>7. \A k \in 1 .. n : k \in Nat
  OBVIOUS
<1>8. i \in Nat
  BY <1>1
<1>9. PICK m : m = Panjang(r.tabel)
  OBVIOUS
<1>10. /\ m \in {1, 2, 3, 4} => r.rujuk[1] \in 1 .. n /\ r.rujuk[1] \in Nat
       /\ m \in {2, 3, 4} => r.rujuk[2] \in 1 .. n /\ r.rujuk[2] \in Nat
       /\ m \in {3, 4} => r.rujuk[3] \in 1 .. n /\ r.rujuk[3] \in Nat
  BY <1>5, <1>6, <1>7, <1>9, Zenon
<1> QED BY <1>1, <1>2, <1>3, <1>4, <1>8, <1>9, <1>10, Zenon

LEMMA KolomBebas ==
    \A c \in {"pengguna_disukai", "barang_disukai", "barang_komentar", "barang_ke_etalase", "barang_di_diskon",
               "seller_barang_di_diskon", "kategori_di_diskon", "kurir_rekening", "komentar_child",
               "review_like", "review_dislike", "kategori_keranjang", "seller_kategori", "gudang_kategori",
               "rekening_kategori"} : c \notin DOMAIN KolomBenar
BY KolomDomain DEF KolomOrang, KolomRujuk

LEMMA CocokanBagian ==
    ASSUME NEW U, NEW r, NEW n, Cocokan(DOMAIN KolomBenar, U, r, n)
    PROVE  Cocokan(KolomOrang, U, r, n) /\ Cocokan(KolomRujuk, U, r, n)
BY KolomDomain DEF Cocokan

-----------------------------------------------------------------------------
(* The handlers that make a row.                                            *)

LEMMA LikesBarangMinta == ASSUME TypeInv, NEW p \in Proses, LikesBarang(p) PROVE Minta(p)
<1>1. PICK o \in Pengguna, b \in Pernah("barang_induk") :
        /\ Merujuk("barang_disukai", o, <<b>>) = {}
        /\ BuatBaca(p, Baris("barang_disukai", o, 0, <<b>>),
                    {<<"pengguna_disukai", 0, 1>>, <<"barang_disukai", b, 1>>})
  BY DEF LikesBarang
<1>2. PICK r, U : /\ r = Baris("barang_disukai", o, 0, <<b>>)
                  /\ U = {<<"pengguna_disukai", 0, 1>>, <<"barang_disukai", b, 1>>}
  OBVIOUS
<1>3. PICK n \in Nat : n = Len(baris)
  BY BarisDomain DEF TypeInv
<1>4. b \in 1 .. n /\ b \in Nat
  <2>1. b \in DOMAIN baris
    BY DEF Pernah
  <2> QED BY <1>3, <2>1, BarisNat
<1>5. /\ r.tabel = "barang_disukai" /\ r.dari = o /\ r.ke = 0 /\ r.rujuk = <<b>> /\ ~r.tanda /\ r.ada
      /\ Len(r.rujuk) = 1 /\ r \in TipeBaris(n)
  <2>1. <<b>> \in Seq(1 .. n) /\ Len(<<b>>) = 1 /\ "barang_disukai" \in Tabel
    BY <1>3, <1>4, UrutKecil DEF Tabel, BerAmbang
  <2> QED BY <1>1, <1>2, <1>3, <1>4, <2>1 DEF Baris, TipeBaris
<1>6. Rujukan(baris, r)
  BY <1>5, PanjangIsi DEF Rujukan, TabelNama
<1>7. U \subseteq Perubahan
  <2>1. <<"pengguna_disukai", 0, 1>> \in Perubahan
    BY <1>1, <1>4, Id DEF Perubahan, Kolom, KolomOrang, KolomAmbang, KolomLain
  <2>2. <<"barang_disukai", b, 1>> \in Perubahan
    BY <1>1, <1>4, Id DEF Perubahan, Kolom, KolomOrang, KolomAmbang, KolomLain
  <2> QED BY <1>2, <2>1, <2>2
<1>8. IsFiniteSet(U)
  BY <1>2, HinggaKecil
<1>9. Cocokan(DOMAIN KolomBenar, U, r, Naik)
  <2>1. ASSUME NEW u \in U, u[1] \in DOMAIN KolomBenar PROVE u[3] = 1 /\ Menghitung(r, u[1], u[2])
    <3>1. u = <<"pengguna_disukai", 0, 1>> \/ u = <<"barang_disukai", b, 1>>
      BY <1>2
    <3>2. CASE u = <<"pengguna_disukai", 0, 1>>
      <4>1. u[1] = "pengguna_disukai" /\ u[2] = 0 /\ u[3] = 1
        BY <3>2
      <4> QED BY <2>1, <4>1, KolomBebas
    <3>3. CASE u = <<"barang_disukai", b, 1>>
      <4>1. u[1] = "barang_disukai" /\ u[2] = b /\ u[3] = 1
        BY <3>3
      <4> QED BY <2>1, <4>1, KolomBebas
    <3> QED BY <3>1, <3>2, <3>3
  <2>2. ASSUME NEW c \in DOMAIN KolomBenar, NEW x, Menghitung(r, c, x) PROVE <<c, x, 1>> \in U
    BY <2>2, <1>5, Penghitungan
  <2> QED BY <2>1, <2>2 DEF Cocokan, Naik
<1>10. SegarBuat(baris, r)
  <2>1. \A i \in DOMAIN baris : ~(baris[i].ada /\ baris[i].tabel = r.tabel /\ baris[i].dari = r.dari /\ baris[i].rujuk = r.rujuk)
    BY <1>1, <1>5 DEF Merujuk, Milik, BarisAda, Pernah
  <2> QED BY <2>1, <1>5 DEF SegarBuat, Sama, Tunggal, Terbatas, Ciri
<1>11. BuatBaca(p, r, U) /\ r \in TipeBaris(Len(baris))
  BY <1>1, <1>2, <1>3, <1>5
<1> QED BY <1>5, <1>6, <1>7, <1>8, <1>9, <1>10, <1>11, MintaBuat

LEMMA MasukanKomentarBarangMinta == ASSUME TypeInv, NEW p \in Proses, MasukanKomentarBarang(p) PROVE Minta(p)
<1>1. PICK o \in Pengguna, b \in Pernah("barang_induk") :
        /\ BuatBaca(p, Baris("komentar", o, 0, <<b>>),
                    {<<"barang_komentar", b, 1>>})
  BY DEF MasukanKomentarBarang
<1>2. PICK r, U : /\ r = Baris("komentar", o, 0, <<b>>)
                  /\ U = {<<"barang_komentar", b, 1>>}
  OBVIOUS
<1>3. PICK n \in Nat : n = Len(baris)
  BY BarisDomain DEF TypeInv
<1>4. b \in 1 .. n /\ b \in Nat
  <2>1. b \in DOMAIN baris
    BY DEF Pernah
  <2> QED BY <1>3, <2>1, BarisNat
<1>5. /\ r.tabel = "komentar" /\ r.dari = o /\ r.ke = 0 /\ r.rujuk = <<b>> /\ ~r.tanda /\ r.ada
      /\ Len(r.rujuk) = 1 /\ r \in TipeBaris(n)
  <2>1. <<b>> \in Seq(1 .. n) /\ Len(<<b>>) = 1 /\ "komentar" \in Tabel
    BY <1>3, <1>4, UrutKecil DEF Tabel, BerAmbang
  <2> QED BY <1>1, <1>2, <1>3, <1>4, <2>1 DEF Baris, TipeBaris
<1>6. Rujukan(baris, r)
  BY <1>5, PanjangIsi DEF Rujukan, TabelNama
<1>7. U \subseteq Perubahan
  <2>1. <<"barang_komentar", b, 1>> \in Perubahan
    BY <1>1, <1>4, Id DEF Perubahan, Kolom, KolomOrang, KolomAmbang, KolomLain
  <2> QED BY <1>2, <2>1
<1>8. IsFiniteSet(U)
  BY <1>2, HinggaKecil
<1>9. Cocokan(DOMAIN KolomBenar, U, r, Naik)
  <2>1. ASSUME NEW u \in U, u[1] \in DOMAIN KolomBenar PROVE u[3] = 1 /\ Menghitung(r, u[1], u[2])
    <3>1. u = <<"barang_komentar", b, 1>>
      BY <1>2
    <3>2. CASE u = <<"barang_komentar", b, 1>>
      <4>1. u[1] = "barang_komentar" /\ u[2] = b /\ u[3] = 1
        BY <3>2
      <4> QED BY <2>1, <4>1, KolomBebas
    <3> QED BY <3>1, <3>2
  <2>2. ASSUME NEW c \in DOMAIN KolomBenar, NEW x, Menghitung(r, c, x) PROVE <<c, x, 1>> \in U
    BY <2>2, <1>5, Penghitungan
  <2> QED BY <2>1, <2>2 DEF Cocokan, Naik
<1>10. SegarBuat(baris, r)
  BY <1>5 DEF SegarBuat, Sama, Tunggal, Terbatas
<1>11. BuatBaca(p, r, U) /\ r \in TipeBaris(Len(baris))
  BY <1>1, <1>2, <1>3, <1>5
<1> QED BY <1>5, <1>6, <1>7, <1>8, <1>9, <1>10, <1>11, MintaBuat

LEMMA MasukanKomentarSellerMinta == ASSUME TypeInv, NEW p \in Proses, MasukanKomentarSeller(p) PROVE Minta(p)
<1>1. PICK o \in Seller, b \in Pernah("barang_induk") :
        /\ BuatBaca(p, Baris("komentar", o, 0, <<b>>),
                    {<<"barang_komentar", b, 1>>})
  BY DEF MasukanKomentarSeller
<1>2. PICK r, U : /\ r = Baris("komentar", o, 0, <<b>>)
                  /\ U = {<<"barang_komentar", b, 1>>}
  OBVIOUS
<1>3. PICK n \in Nat : n = Len(baris)
  BY BarisDomain DEF TypeInv
<1>4. b \in 1 .. n /\ b \in Nat
  <2>1. b \in DOMAIN baris
    BY DEF Pernah
  <2> QED BY <1>3, <2>1, BarisNat
<1>5. /\ r.tabel = "komentar" /\ r.dari = o /\ r.ke = 0 /\ r.rujuk = <<b>> /\ ~r.tanda /\ r.ada
      /\ Len(r.rujuk) = 1 /\ r \in TipeBaris(n)
  <2>1. <<b>> \in Seq(1 .. n) /\ Len(<<b>>) = 1 /\ "komentar" \in Tabel
    BY <1>3, <1>4, UrutKecil DEF Tabel, BerAmbang
  <2> QED BY <1>1, <1>2, <1>3, <1>4, <2>1 DEF Baris, TipeBaris
<1>6. Rujukan(baris, r)
  BY <1>5, PanjangIsi DEF Rujukan, TabelNama
<1>7. U \subseteq Perubahan
  <2>1. <<"barang_komentar", b, 1>> \in Perubahan
    BY <1>1, <1>4, Id DEF Perubahan, Kolom, KolomOrang, KolomAmbang, KolomLain
  <2> QED BY <1>2, <2>1
<1>8. IsFiniteSet(U)
  BY <1>2, HinggaKecil
<1>9. Cocokan(DOMAIN KolomBenar, U, r, Naik)
  <2>1. ASSUME NEW u \in U, u[1] \in DOMAIN KolomBenar PROVE u[3] = 1 /\ Menghitung(r, u[1], u[2])
    <3>1. u = <<"barang_komentar", b, 1>>
      BY <1>2
    <3>2. CASE u = <<"barang_komentar", b, 1>>
      <4>1. u[1] = "barang_komentar" /\ u[2] = b /\ u[3] = 1
        BY <3>2
      <4> QED BY <2>1, <4>1, KolomBebas
    <3> QED BY <3>1, <3>2
  <2>2. ASSUME NEW c \in DOMAIN KolomBenar, NEW x, Menghitung(r, c, x) PROVE <<c, x, 1>> \in U
    BY <2>2, <1>5, Penghitungan
  <2> QED BY <2>1, <2>2 DEF Cocokan, Naik
<1>10. SegarBuat(baris, r)
  BY <1>5 DEF SegarBuat, Sama, Tunggal, Terbatas
<1>11. BuatBaca(p, r, U) /\ r \in TipeBaris(Len(baris))
  BY <1>1, <1>2, <1>3, <1>5
<1> QED BY <1>5, <1>6, <1>7, <1>8, <1>9, <1>10, <1>11, MintaBuat

LEMMA MasukanChildKomentarMinta == ASSUME TypeInv, NEW p \in Proses, MasukanChildKomentar(p) PROVE Minta(p)
<1>1. PICK o \in Pengguna, k \in Pernah("komentar") :
        /\ BuatBaca(p, Baris("komentar_child", o, 0, <<k>>),
                    {<<"komentar_child", k, 1>>})
  BY DEF MasukanChildKomentar, Jawab
<1>2. PICK r, U : /\ r = Baris("komentar_child", o, 0, <<k>>)
                  /\ U = {<<"komentar_child", k, 1>>}
  OBVIOUS
<1>3. PICK n \in Nat : n = Len(baris)
  BY BarisDomain DEF TypeInv
<1>4. k \in 1 .. n /\ k \in Nat
  <2>1. k \in DOMAIN baris
    BY DEF Pernah
  <2> QED BY <1>3, <2>1, BarisNat
<1>5. /\ r.tabel = "komentar_child" /\ r.dari = o /\ r.ke = 0 /\ r.rujuk = <<k>> /\ ~r.tanda /\ r.ada
      /\ Len(r.rujuk) = 1 /\ r \in TipeBaris(n)
  <2>1. <<k>> \in Seq(1 .. n) /\ Len(<<k>>) = 1 /\ "komentar_child" \in Tabel
    BY <1>3, <1>4, UrutKecil DEF Tabel, BerAmbang
  <2> QED BY <1>1, <1>2, <1>3, <1>4, <2>1 DEF Baris, TipeBaris
<1>6. Rujukan(baris, r)
  BY <1>5, PanjangIsi DEF Rujukan, TabelNama
<1>7. U \subseteq Perubahan
  <2>1. <<"komentar_child", k, 1>> \in Perubahan
    BY <1>1, <1>4, Id DEF Perubahan, Kolom, KolomOrang, KolomAmbang, KolomLain
  <2> QED BY <1>2, <2>1
<1>8. IsFiniteSet(U)
  BY <1>2, HinggaKecil
<1>9. Cocokan(DOMAIN KolomBenar, U, r, Naik)
  <2>1. ASSUME NEW u \in U, u[1] \in DOMAIN KolomBenar PROVE u[3] = 1 /\ Menghitung(r, u[1], u[2])
    <3>1. u = <<"komentar_child", k, 1>>
      BY <1>2
    <3>2. CASE u = <<"komentar_child", k, 1>>
      <4>1. u[1] = "komentar_child" /\ u[2] = k /\ u[3] = 1
        BY <3>2
      <4> QED BY <2>1, <4>1, KolomBebas
    <3> QED BY <3>1, <3>2
  <2>2. ASSUME NEW c \in DOMAIN KolomBenar, NEW x, Menghitung(r, c, x) PROVE <<c, x, 1>> \in U
    BY <2>2, <1>5, Penghitungan
  <2> QED BY <2>1, <2>2 DEF Cocokan, Naik
<1>10. SegarBuat(baris, r)
  BY <1>5 DEF SegarBuat, Sama, Tunggal, Terbatas
<1>11. BuatBaca(p, r, U) /\ r \in TipeBaris(Len(baris))
  BY <1>1, <1>2, <1>3, <1>5
<1> QED BY <1>5, <1>6, <1>7, <1>8, <1>9, <1>10, <1>11, MintaBuat

LEMMA MentionChildKomentarMinta == ASSUME TypeInv, NEW p \in Proses, MentionChildKomentar(p) PROVE Minta(p)
<1>1. PICK o \in Pengguna, k \in Pernah("komentar") :
        /\ BuatBaca(p, Baris("komentar_child", o, 0, <<k>>),
                    {<<"komentar_child", k, 1>>})
  BY DEF MentionChildKomentar, Jawab
<1>2. PICK r, U : /\ r = Baris("komentar_child", o, 0, <<k>>)
                  /\ U = {<<"komentar_child", k, 1>>}
  OBVIOUS
<1>3. PICK n \in Nat : n = Len(baris)
  BY BarisDomain DEF TypeInv
<1>4. k \in 1 .. n /\ k \in Nat
  <2>1. k \in DOMAIN baris
    BY DEF Pernah
  <2> QED BY <1>3, <2>1, BarisNat
<1>5. /\ r.tabel = "komentar_child" /\ r.dari = o /\ r.ke = 0 /\ r.rujuk = <<k>> /\ ~r.tanda /\ r.ada
      /\ Len(r.rujuk) = 1 /\ r \in TipeBaris(n)
  <2>1. <<k>> \in Seq(1 .. n) /\ Len(<<k>>) = 1 /\ "komentar_child" \in Tabel
    BY <1>3, <1>4, UrutKecil DEF Tabel, BerAmbang
  <2> QED BY <1>1, <1>2, <1>3, <1>4, <2>1 DEF Baris, TipeBaris
<1>6. Rujukan(baris, r)
  BY <1>5, PanjangIsi DEF Rujukan, TabelNama
<1>7. U \subseteq Perubahan
  <2>1. <<"komentar_child", k, 1>> \in Perubahan
    BY <1>1, <1>4, Id DEF Perubahan, Kolom, KolomOrang, KolomAmbang, KolomLain
  <2> QED BY <1>2, <2>1
<1>8. IsFiniteSet(U)
  BY <1>2, HinggaKecil
<1>9. Cocokan(DOMAIN KolomBenar, U, r, Naik)
  <2>1. ASSUME NEW u \in U, u[1] \in DOMAIN KolomBenar PROVE u[3] = 1 /\ Menghitung(r, u[1], u[2])
    <3>1. u = <<"komentar_child", k, 1>>
      BY <1>2
    <3>2. CASE u = <<"komentar_child", k, 1>>
      <4>1. u[1] = "komentar_child" /\ u[2] = k /\ u[3] = 1
        BY <3>2
      <4> QED BY <2>1, <4>1, KolomBebas
    <3> QED BY <3>1, <3>2
  <2>2. ASSUME NEW c \in DOMAIN KolomBenar, NEW x, Menghitung(r, c, x) PROVE <<c, x, 1>> \in U
    BY <2>2, <1>5, Penghitungan
  <2> QED BY <2>1, <2>2 DEF Cocokan, Naik
<1>10. SegarBuat(baris, r)
  BY <1>5 DEF SegarBuat, Sama, Tunggal, Terbatas
<1>11. BuatBaca(p, r, U) /\ r \in TipeBaris(Len(baris))
  BY <1>1, <1>2, <1>3, <1>5
<1> QED BY <1>5, <1>6, <1>7, <1>8, <1>9, <1>10, <1>11, MintaBuat

LEMMA MasukanChildKomentarSellerMinta == ASSUME TypeInv, NEW p \in Proses, MasukanChildKomentarSeller(p) PROVE Minta(p)
<1>1. PICK o \in Seller, k \in Pernah("komentar") :
        /\ BuatBaca(p, Baris("komentar_child", o, 0, <<k>>),
                    {<<"komentar_child", k, 1>>})
  BY DEF MasukanChildKomentarSeller
<1>2. PICK r, U : /\ r = Baris("komentar_child", o, 0, <<k>>)
                  /\ U = {<<"komentar_child", k, 1>>}
  OBVIOUS
<1>3. PICK n \in Nat : n = Len(baris)
  BY BarisDomain DEF TypeInv
<1>4. k \in 1 .. n /\ k \in Nat
  <2>1. k \in DOMAIN baris
    BY DEF Pernah
  <2> QED BY <1>3, <2>1, BarisNat
<1>5. /\ r.tabel = "komentar_child" /\ r.dari = o /\ r.ke = 0 /\ r.rujuk = <<k>> /\ ~r.tanda /\ r.ada
      /\ Len(r.rujuk) = 1 /\ r \in TipeBaris(n)
  <2>1. <<k>> \in Seq(1 .. n) /\ Len(<<k>>) = 1 /\ "komentar_child" \in Tabel
    BY <1>3, <1>4, UrutKecil DEF Tabel, BerAmbang
  <2> QED BY <1>1, <1>2, <1>3, <1>4, <2>1 DEF Baris, TipeBaris
<1>6. Rujukan(baris, r)
  BY <1>5, PanjangIsi DEF Rujukan, TabelNama
<1>7. U \subseteq Perubahan
  <2>1. <<"komentar_child", k, 1>> \in Perubahan
    BY <1>1, <1>4, Id DEF Perubahan, Kolom, KolomOrang, KolomAmbang, KolomLain
  <2> QED BY <1>2, <2>1
<1>8. IsFiniteSet(U)
  BY <1>2, HinggaKecil
<1>9. Cocokan(DOMAIN KolomBenar, U, r, Naik)
  <2>1. ASSUME NEW u \in U, u[1] \in DOMAIN KolomBenar PROVE u[3] = 1 /\ Menghitung(r, u[1], u[2])
    <3>1. u = <<"komentar_child", k, 1>>
      BY <1>2
    <3>2. CASE u = <<"komentar_child", k, 1>>
      <4>1. u[1] = "komentar_child" /\ u[2] = k /\ u[3] = 1
        BY <3>2
      <4> QED BY <2>1, <4>1, KolomBebas
    <3> QED BY <3>1, <3>2
  <2>2. ASSUME NEW c \in DOMAIN KolomBenar, NEW x, Menghitung(r, c, x) PROVE <<c, x, 1>> \in U
    BY <2>2, <1>5, Penghitungan
  <2> QED BY <2>1, <2>2 DEF Cocokan, Naik
<1>10. SegarBuat(baris, r)
  BY <1>5 DEF SegarBuat, Sama, Tunggal, Terbatas
<1>11. BuatBaca(p, r, U) /\ r \in TipeBaris(Len(baris))
  BY <1>1, <1>2, <1>3, <1>5
<1> QED BY <1>5, <1>6, <1>7, <1>8, <1>9, <1>10, <1>11, MintaBuat

LEMMA TambahKeranjangBarangMinta == ASSUME TypeInv, NEW p \in Proses, TambahKeranjangBarang(p) PROVE Minta(p)
<1>0. PICK o \in Pengguna, k \in Pernah("kategori_barang"), y \in Pengguna \cup {0} :
        LET b == baris[k].rujuk[1]
        IN  /\ Isi(<<"pengguna_keranjang", y>>) < Batas
            /\ Merujuk("keranjang", o, <<b, k>>) = {}
            /\ BuatBaca(p, Baris("keranjang", o, 0, <<b, k>>), HitungKeranjang(o, b, k, 1))
  BY Zenon DEF TambahKeranjangBarang
<1>1. PICK b : /\ b = baris[k].rujuk[1] /\ Merujuk("keranjang", o, <<b, k>>) = {}
               /\ BuatBaca(p, Baris("keranjang", o, 0, <<b, k>>), HitungKeranjang(o, b, k, 1))
  BY <1>0
<1>2. PICK r, U : /\ r = Baris("keranjang", o, 0, <<b, k>>)
                  /\ U = {<<"pengguna_keranjang", o, 1>>, <<"barang_keranjang", b, 1>>, <<"kategori_keranjang", k, 1>>}
  OBVIOUS
<1>3. PICK n \in Nat : n = Len(baris)
  BY BarisDomain DEF TypeInv
<1>4. k \in 1 .. n /\ k \in Nat /\ b \in 1 .. n /\ b \in Nat
  <2>1. k \in DOMAIN baris /\ Panjang(baris[k].tabel) = 3
    BY PanjangIsi DEF Pernah, BarisAda
  <2> QED BY <1>1, <1>3, <2>1, BarisNat
<1>5. /\ r.tabel = "keranjang" /\ r.dari = o /\ r.ke = 0 /\ r.rujuk = <<b, k>> /\ ~r.tanda /\ r.ada
      /\ Len(r.rujuk) = 2 /\ r \in TipeBaris(n)
  <2>1. <<b, k>> \in Seq(1 .. n) /\ Len(<<b, k>>) = 2 /\ "keranjang" \in Tabel
    BY <1>3, <1>4, UrutKecil DEF Tabel, BerAmbang
  <2> QED BY <1>1, <1>2, <1>3, <1>4, <2>1 DEF Baris, TipeBaris
<1>6. Rujukan(baris, r)
  BY <1>5, PanjangIsi DEF Rujukan, TabelNama
<1>7. U \subseteq Perubahan
  <2>1. <<"pengguna_keranjang", o, 1>> \in Perubahan
    BY <1>1, <1>4, Id, <1>4 DEF Perubahan, Kolom, KolomOrang, KolomAmbang, KolomLain
  <2>2. <<"barang_keranjang", b, 1>> \in Perubahan
    BY <1>1, <1>4, Id DEF Perubahan, Kolom, KolomOrang, KolomAmbang, KolomLain
  <2>3. <<"kategori_keranjang", k, 1>> \in Perubahan
    BY <1>1, <1>4, Id DEF Perubahan, Kolom, KolomOrang, KolomAmbang, KolomLain
  <2> QED BY <1>2, <2>1, <2>2, <2>3
<1>8. IsFiniteSet(U)
  BY <1>2, HinggaKecil
<1>9. Cocokan(DOMAIN KolomBenar, U, r, Naik)
  <2>1. ASSUME NEW u \in U, u[1] \in DOMAIN KolomBenar PROVE u[3] = 1 /\ Menghitung(r, u[1], u[2])
    <3>1. u = <<"pengguna_keranjang", o, 1>> \/ u = <<"barang_keranjang", b, 1>> \/ u = <<"kategori_keranjang", k, 1>>
      BY <1>2
    <3>2. CASE u = <<"pengguna_keranjang", o, 1>>
      <4>1. u[1] = "pengguna_keranjang" /\ u[2] = o /\ u[3] = 1
        BY <3>2
      <4>2. r.tabel = "keranjang" /\ r.dari = o
        BY <1>5
      <4> QED BY <2>1, <4>1, <4>2, Penghitungan
    <3>3. CASE u = <<"barang_keranjang", b, 1>>
      <4>1. u[1] = "barang_keranjang" /\ u[2] = b /\ u[3] = 1
        BY <3>3
      <4>2. r.tabel = "keranjang" /\ r.rujuk[1] = b
        BY <1>5
      <4> QED BY <2>1, <4>1, <4>2, Penghitungan
    <3>4. CASE u = <<"kategori_keranjang", k, 1>>
      <4>1. u[1] = "kategori_keranjang" /\ u[2] = k /\ u[3] = 1
        BY <3>4
      <4> QED BY <2>1, <4>1, KolomBebas
    <3> QED BY <3>1, <3>2, <3>3, <3>4
  <2>2. ASSUME NEW c \in DOMAIN KolomBenar, NEW x, Menghitung(r, c, x) PROVE <<c, x, 1>> \in U
    <3>0. r.tabel = "keranjang" /\ r.dari = o /\ r.ke = 0 /\ r.rujuk[1] = b
      BY <1>5
    <3>1. (c = "pengguna_keranjang" /\ x = o) \/ (c = "barang_keranjang" /\ x = b)
      BY <2>2, <3>0, Penghitungan
    <3> QED BY <1>2, <3>1
  <2> QED BY <2>1, <2>2 DEF Cocokan, Naik
<1>10. SegarBuat(baris, r)
  <2>1. \A i \in DOMAIN baris : ~(baris[i].ada /\ baris[i].tabel = r.tabel /\ baris[i].dari = r.dari /\ baris[i].rujuk = r.rujuk)
    BY <1>1, <1>5 DEF Merujuk, Milik, BarisAda, Pernah
  <2> QED BY <2>1, <1>5 DEF SegarBuat, Sama, Tunggal, Terbatas, Ciri
<1>11. BuatBaca(p, r, U) /\ r \in TipeBaris(Len(baris))
  BY <1>1, <1>2, <1>3, <1>5 DEF HitungKeranjang
<1> QED BY <1>5, <1>6, <1>7, <1>8, <1>9, <1>10, <1>11, MintaBuat

LEMMA BerikanReviewBarangMinta == ASSUME TypeInv, NEW p \in Proses, BerikanReviewBarang(p) PROVE Minta(p)
<1>1. PICK o \in Pengguna, b \in Pernah("barang_induk") :
        /\ BuatBaca(p, Baris("review", o, 0, <<b>>),
                    {<<"pengguna_review", o, 1>>, <<"barang_review", b, 1>>})
  BY DEF BerikanReviewBarang
<1>2. PICK r, U : /\ r = Baris("review", o, 0, <<b>>)
                  /\ U = {<<"pengguna_review", o, 1>>, <<"barang_review", b, 1>>}
  OBVIOUS
<1>3. PICK n \in Nat : n = Len(baris)
  BY BarisDomain DEF TypeInv
<1>4. b \in 1 .. n /\ b \in Nat
  <2>1. b \in DOMAIN baris
    BY DEF Pernah
  <2> QED BY <1>3, <2>1, BarisNat
<1>5. /\ r.tabel = "review" /\ r.dari = o /\ r.ke = 0 /\ r.rujuk = <<b>> /\ ~r.tanda /\ r.ada
      /\ Len(r.rujuk) = 1 /\ r \in TipeBaris(n)
  <2>1. <<b>> \in Seq(1 .. n) /\ Len(<<b>>) = 1 /\ "review" \in Tabel
    BY <1>3, <1>4, UrutKecil DEF Tabel, BerAmbang
  <2> QED BY <1>1, <1>2, <1>3, <1>4, <2>1 DEF Baris, TipeBaris
<1>6. Rujukan(baris, r)
  BY <1>5, PanjangIsi DEF Rujukan, TabelNama
<1>7. U \subseteq Perubahan
  <2>1. <<"pengguna_review", o, 1>> \in Perubahan
    BY <1>1, <1>4, Id DEF Perubahan, Kolom, KolomOrang, KolomAmbang, KolomLain
  <2>2. <<"barang_review", b, 1>> \in Perubahan
    BY <1>1, <1>4, Id DEF Perubahan, Kolom, KolomOrang, KolomAmbang, KolomLain
  <2> QED BY <1>2, <2>1, <2>2
<1>8. IsFiniteSet(U)
  BY <1>2, HinggaKecil
<1>9. Cocokan(DOMAIN KolomBenar, U, r, Naik)
  <2>1. ASSUME NEW u \in U, u[1] \in DOMAIN KolomBenar PROVE u[3] = 1 /\ Menghitung(r, u[1], u[2])
    <3>1. u = <<"pengguna_review", o, 1>> \/ u = <<"barang_review", b, 1>>
      BY <1>2
    <3>2. CASE u = <<"pengguna_review", o, 1>>
      <4>1. u[1] = "pengguna_review" /\ u[2] = o /\ u[3] = 1
        BY <3>2
      <4>2. r.tabel = "review" /\ r.dari = o
        BY <1>5
      <4> QED BY <2>1, <4>1, <4>2, Penghitungan
    <3>3. CASE u = <<"barang_review", b, 1>>
      <4>1. u[1] = "barang_review" /\ u[2] = b /\ u[3] = 1
        BY <3>3
      <4>2. r.tabel = "review" /\ r.rujuk[1] = b
        BY <1>5
      <4> QED BY <2>1, <4>1, <4>2, Penghitungan
    <3> QED BY <3>1, <3>2, <3>3
  <2>2. ASSUME NEW c \in DOMAIN KolomBenar, NEW x, Menghitung(r, c, x) PROVE <<c, x, 1>> \in U
    <3>0. r.tabel = "review" /\ r.dari = o /\ r.ke = 0 /\ r.rujuk[1] = b
      BY <1>5
    <3>1. (c = "pengguna_review" /\ x = o) \/ (c = "barang_review" /\ x = b)
      BY <2>2, <3>0, Penghitungan
    <3> QED BY <1>2, <3>1
  <2> QED BY <2>1, <2>2 DEF Cocokan, Naik
<1>10. SegarBuat(baris, r)
  BY <1>5 DEF SegarBuat, Sama, Tunggal, Terbatas
<1>11. BuatBaca(p, r, U) /\ r \in TipeBaris(Len(baris))
  BY <1>1, <1>2, <1>3, <1>5
<1> QED BY <1>5, <1>6, <1>7, <1>8, <1>9, <1>10, <1>11, MintaBuat

LEMMA LikeReviewBarangMinta == ASSUME TypeInv, NEW p \in Proses, LikeReviewBarang(p) PROVE Minta(p)
<1>1. PICK o \in Pengguna, k \in Pernah("review") :
        /\ Merujuk("review_like", o, <<k>>) = {}
        /\ BuatBaca(p, Baris("review_like", o, 0, <<k>>),
                    {<<"review_like", 0, 1>>})
  BY DEF LikeReviewBarang
<1>2. PICK r, U : /\ r = Baris("review_like", o, 0, <<k>>)
                  /\ U = {<<"review_like", 0, 1>>}
  OBVIOUS
<1>3. PICK n \in Nat : n = Len(baris)
  BY BarisDomain DEF TypeInv
<1>4. k \in 1 .. n /\ k \in Nat
  <2>1. k \in DOMAIN baris
    BY DEF Pernah
  <2> QED BY <1>3, <2>1, BarisNat
<1>5. /\ r.tabel = "review_like" /\ r.dari = o /\ r.ke = 0 /\ r.rujuk = <<k>> /\ ~r.tanda /\ r.ada
      /\ Len(r.rujuk) = 1 /\ r \in TipeBaris(n)
  <2>1. <<k>> \in Seq(1 .. n) /\ Len(<<k>>) = 1 /\ "review_like" \in Tabel
    BY <1>3, <1>4, UrutKecil DEF Tabel, BerAmbang
  <2> QED BY <1>1, <1>2, <1>3, <1>4, <2>1 DEF Baris, TipeBaris
<1>6. Rujukan(baris, r)
  BY <1>5, PanjangIsi DEF Rujukan, TabelNama
<1>7. U \subseteq Perubahan
  <2>1. <<"review_like", 0, 1>> \in Perubahan
    BY <1>1, <1>4, Id DEF Perubahan, Kolom, KolomOrang, KolomAmbang, KolomLain
  <2> QED BY <1>2, <2>1
<1>8. IsFiniteSet(U)
  BY <1>2, HinggaKecil
<1>9. Cocokan(DOMAIN KolomBenar, U, r, Naik)
  <2>1. ASSUME NEW u \in U, u[1] \in DOMAIN KolomBenar PROVE u[3] = 1 /\ Menghitung(r, u[1], u[2])
    <3>1. u = <<"review_like", 0, 1>>
      BY <1>2
    <3>2. CASE u = <<"review_like", 0, 1>>
      <4>1. u[1] = "review_like" /\ u[2] = 0 /\ u[3] = 1
        BY <3>2
      <4> QED BY <2>1, <4>1, KolomBebas
    <3> QED BY <3>1, <3>2
  <2>2. ASSUME NEW c \in DOMAIN KolomBenar, NEW x, Menghitung(r, c, x) PROVE <<c, x, 1>> \in U
    BY <2>2, <1>5, Penghitungan
  <2> QED BY <2>1, <2>2 DEF Cocokan, Naik
<1>10. SegarBuat(baris, r)
  <2>1. \A i \in DOMAIN baris : ~(baris[i].ada /\ baris[i].tabel = r.tabel /\ baris[i].dari = r.dari /\ baris[i].rujuk = r.rujuk)
    BY <1>1, <1>5 DEF Merujuk, Milik, BarisAda, Pernah
  <2> QED BY <2>1, <1>5 DEF SegarBuat, Sama, Tunggal, Terbatas, Ciri
<1>11. BuatBaca(p, r, U) /\ r \in TipeBaris(Len(baris))
  BY <1>1, <1>2, <1>3, <1>5
<1> QED BY <1>5, <1>6, <1>7, <1>8, <1>9, <1>10, <1>11, MintaBuat

LEMMA FollowSellerMinta == ASSUME TypeInv, NEW p \in Proses, FollowSeller(p) PROVE Minta(p)
<1>1. PICK o \in Pengguna, s \in Seller :
        /\ Cocok("follower", o, s) = {}
        /\ BuatBaca(p, Baris("follower", o, s, << >>),
                    {<<"pengguna_following", o, 1>>, <<"seller_follower", s, 1>>})
  BY DEF FollowSeller
<1>2. PICK r, U : /\ r = Baris("follower", o, s, << >>)
                  /\ U = {<<"pengguna_following", o, 1>>, <<"seller_follower", s, 1>>}
  OBVIOUS
<1>3. PICK n \in Nat : n = Len(baris)
  BY BarisDomain DEF TypeInv
<1>5. /\ r.tabel = "follower" /\ r.dari = o /\ r.ke = s /\ r.rujuk = << >> /\ ~r.tanda /\ r.ada
      /\ Len(r.rujuk) = 0 /\ r \in TipeBaris(n)
  <2>1. << >> \in Seq(1 .. n) /\ Len(<< >>) = 0 /\ "follower" \in Tabel
    BY <1>3, UrutKosong DEF Tabel, BerAmbang
  <2> QED BY <1>1, <1>2, <1>3, <2>1 DEF Baris, TipeBaris
<1>6. Rujukan(baris, r)
  BY <1>5, PanjangIsi DEF Rujukan, TabelNama
<1>7. U \subseteq Perubahan
  <2>1. <<"pengguna_following", o, 1>> \in Perubahan
    BY <1>1, Id DEF Perubahan, Kolom, KolomOrang, KolomAmbang, KolomLain
  <2>2. <<"seller_follower", s, 1>> \in Perubahan
    BY <1>1, Id DEF Perubahan, Kolom, KolomOrang, KolomAmbang, KolomLain
  <2> QED BY <1>2, <2>1, <2>2
<1>8. IsFiniteSet(U)
  BY <1>2, HinggaKecil
<1>9. Cocokan(DOMAIN KolomBenar, U, r, Naik)
  <2>1. ASSUME NEW u \in U, u[1] \in DOMAIN KolomBenar PROVE u[3] = 1 /\ Menghitung(r, u[1], u[2])
    <3>1. u = <<"pengguna_following", o, 1>> \/ u = <<"seller_follower", s, 1>>
      BY <1>2
    <3>2. CASE u = <<"pengguna_following", o, 1>>
      <4>1. u[1] = "pengguna_following" /\ u[2] = o /\ u[3] = 1
        BY <3>2
      <4>2. r.tabel = "follower" /\ r.dari = o
        BY <1>5
      <4> QED BY <2>1, <4>1, <4>2, Penghitungan
    <3>3. CASE u = <<"seller_follower", s, 1>>
      <4>1. u[1] = "seller_follower" /\ u[2] = s /\ u[3] = 1
        BY <3>3
      <4>2. r.tabel = "follower" /\ r.ke = s
        BY <1>5
      <4> QED BY <2>1, <4>1, <4>2, Penghitungan
    <3> QED BY <3>1, <3>2, <3>3
  <2>2. ASSUME NEW c \in DOMAIN KolomBenar, NEW x, Menghitung(r, c, x) PROVE <<c, x, 1>> \in U
    <3>0. r.tabel = "follower" /\ r.dari = o /\ r.ke = s
      BY <1>5
    <3>1. (c = "pengguna_following" /\ x = o) \/ (c = "seller_follower" /\ x = s)
      BY <2>2, <3>0, Penghitungan
    <3> QED BY <1>2, <3>1
  <2> QED BY <2>1, <2>2 DEF Cocokan, Naik
<1>10. SegarBuat(baris, r)
  <2>1. \A i \in DOMAIN baris : ~(baris[i].ada /\ baris[i].tabel = r.tabel /\ baris[i].dari = r.dari /\ baris[i].ke = r.ke)
    BY <1>1, <1>5 DEF Cocok, Milik, BarisAda, Pernah
  <2> QED BY <2>1, <1>5 DEF SegarBuat, Sama, Tunggal, Terbatas, Ciri
<1>11. BuatBaca(p, r, U) /\ r \in TipeBaris(Len(baris))
  BY <1>1, <1>2, <1>3, <1>5
<1> QED BY <1>5, <1>6, <1>7, <1>8, <1>9, <1>10, <1>11, MintaBuat

LEMMA MasukanAlamatPenggunaMinta == ASSUME TypeInv, NEW p \in Proses, MasukanAlamatPengguna(p) PROVE Minta(p)
<1>1. PICK o \in Pengguna, n0 \in Nama :
        /\ Cardinality(Milik("alamat_pengguna", o)) < Batas
        /\ Cocok("alamat_pengguna", o, n0) = {}
        /\ BuatBaca(p, Baris("alamat_pengguna", o, n0, << >>),
                    {<<"pengguna_alamat", o, 1>>})
  BY DEF MasukanAlamatPengguna
<1>2. PICK r, U : /\ r = Baris("alamat_pengguna", o, n0, << >>)
                  /\ U = {<<"pengguna_alamat", o, 1>>}
  OBVIOUS
<1>3. PICK n \in Nat : n = Len(baris)
  BY BarisDomain DEF TypeInv
<1>5. /\ r.tabel = "alamat_pengguna" /\ r.dari = o /\ r.ke = n0 /\ r.rujuk = << >> /\ ~r.tanda /\ r.ada
      /\ Len(r.rujuk) = 0 /\ r \in TipeBaris(n)
  <2>1. << >> \in Seq(1 .. n) /\ Len(<< >>) = 0 /\ "alamat_pengguna" \in Tabel
    BY <1>3, UrutKosong DEF Tabel, BerAmbang
  <2> QED BY <1>1, <1>2, <1>3, <2>1 DEF Baris, TipeBaris
<1>6. Rujukan(baris, r)
  BY <1>5, PanjangIsi DEF Rujukan, TabelNama
<1>7. U \subseteq Perubahan
  <2>1. <<"pengguna_alamat", o, 1>> \in Perubahan
    BY <1>1, Id DEF Perubahan, Kolom, KolomOrang, KolomAmbang, KolomLain
  <2> QED BY <1>2, <2>1
<1>8. IsFiniteSet(U)
  BY <1>2, HinggaKecil
<1>9. Cocokan(DOMAIN KolomBenar, U, r, Naik)
  <2>1. ASSUME NEW u \in U, u[1] \in DOMAIN KolomBenar PROVE u[3] = 1 /\ Menghitung(r, u[1], u[2])
    <3>1. u = <<"pengguna_alamat", o, 1>>
      BY <1>2
    <3>2. CASE u = <<"pengguna_alamat", o, 1>>
      <4>1. u[1] = "pengguna_alamat" /\ u[2] = o /\ u[3] = 1
        BY <3>2
      <4>2. r.tabel = "alamat_pengguna" /\ r.dari = o
        BY <1>5
      <4> QED BY <2>1, <4>1, <4>2, Penghitungan
    <3> QED BY <3>1, <3>2
  <2>2. ASSUME NEW c \in DOMAIN KolomBenar, NEW x, Menghitung(r, c, x) PROVE <<c, x, 1>> \in U
    <3>0. r.tabel = "alamat_pengguna" /\ r.dari = o /\ r.ke = n0
      BY <1>5
    <3>1. (c = "pengguna_alamat" /\ x = o)
      BY <2>2, <3>0, Penghitungan
    <3> QED BY <1>2, <3>1
  <2> QED BY <2>1, <2>2 DEF Cocokan, Naik
<1>10. SegarBuat(baris, r)
  <2>1. Milik("alamat_pengguna", o) = Punya(baris, "alamat_pengguna", o)
    BY DEF Milik, BarisAda, Pernah, Punya
  <2> QED BY <2>1, <1>1, <1>5 DEF SegarBuat, Sama, Tunggal
<1>11. BuatBaca(p, r, U) /\ r \in TipeBaris(Len(baris))
  BY <1>1, <1>2, <1>3, <1>5
<1> QED BY <1>5, <1>6, <1>7, <1>8, <1>9, <1>10, <1>11, MintaBuat

LEMMA TambahEtalaseSellerMinta == ASSUME TypeInv, NEW p \in Proses, TambahEtalaseSeller(p) PROVE Minta(p)
<1>1. PICK o \in Seller, n0 \in Nama :
        /\ Cocok("etalase", o, n0) = {}
        /\ BuatBaca(p, Baris("etalase", o, n0, << >>),
                    {<<"seller_etalase", o, 1>>})
  BY DEF TambahEtalaseSeller
<1>2. PICK r, U : /\ r = Baris("etalase", o, n0, << >>)
                  /\ U = {<<"seller_etalase", o, 1>>}
  OBVIOUS
<1>3. PICK n \in Nat : n = Len(baris)
  BY BarisDomain DEF TypeInv
<1>5. /\ r.tabel = "etalase" /\ r.dari = o /\ r.ke = n0 /\ r.rujuk = << >> /\ ~r.tanda /\ r.ada
      /\ Len(r.rujuk) = 0 /\ r \in TipeBaris(n)
  <2>1. << >> \in Seq(1 .. n) /\ Len(<< >>) = 0 /\ "etalase" \in Tabel
    BY <1>3, UrutKosong DEF Tabel, BerAmbang
  <2> QED BY <1>1, <1>2, <1>3, <2>1 DEF Baris, TipeBaris
<1>6. Rujukan(baris, r)
  BY <1>5, PanjangIsi DEF Rujukan, TabelNama
<1>7. U \subseteq Perubahan
  <2>1. <<"seller_etalase", o, 1>> \in Perubahan
    BY <1>1, Id DEF Perubahan, Kolom, KolomOrang, KolomAmbang, KolomLain
  <2> QED BY <1>2, <2>1
<1>8. IsFiniteSet(U)
  BY <1>2, HinggaKecil
<1>9. Cocokan(DOMAIN KolomBenar, U, r, Naik)
  <2>1. ASSUME NEW u \in U, u[1] \in DOMAIN KolomBenar PROVE u[3] = 1 /\ Menghitung(r, u[1], u[2])
    <3>1. u = <<"seller_etalase", o, 1>>
      BY <1>2
    <3>2. CASE u = <<"seller_etalase", o, 1>>
      <4>1. u[1] = "seller_etalase" /\ u[2] = o /\ u[3] = 1
        BY <3>2
      <4>2. r.tabel = "etalase" /\ r.dari = o
        BY <1>5
      <4> QED BY <2>1, <4>1, <4>2, Penghitungan
    <3> QED BY <3>1, <3>2
  <2>2. ASSUME NEW c \in DOMAIN KolomBenar, NEW x, Menghitung(r, c, x) PROVE <<c, x, 1>> \in U
    <3>0. r.tabel = "etalase" /\ r.dari = o /\ r.ke = n0
      BY <1>5
    <3>1. (c = "seller_etalase" /\ x = o)
      BY <2>2, <3>0, Penghitungan
    <3> QED BY <1>2, <3>1
  <2> QED BY <2>1, <2>2 DEF Cocokan, Naik
<1>10. SegarBuat(baris, r)
  BY <1>5 DEF SegarBuat, Sama, Tunggal, Terbatas
<1>11. BuatBaca(p, r, U) /\ r \in TipeBaris(Len(baris))
  BY <1>1, <1>2, <1>3, <1>5
<1> QED BY <1>5, <1>6, <1>7, <1>8, <1>9, <1>10, <1>11, MintaBuat

LEMMA TambahkanBarangKeEtalaseMinta == ASSUME TypeInv, NEW p \in Proses, TambahkanBarangKeEtalase(p) PROVE Minta(p)
<1>1. PICK o \in Seller, e \in Pernah("etalase"), b \in Pernah("barang_induk") :
        /\ \A i \in BarisAda("barang_ke_etalase") : baris[i].rujuk # <<e, b>>
        /\ BuatBaca(p, Baris("barang_ke_etalase", o, 0, <<e, b>>),
                    HitungEtalase(e, b, 1))
  BY DEF TambahkanBarangKeEtalase
<1>2. PICK r, U : /\ r = Baris("barang_ke_etalase", o, 0, <<e, b>>)
                  /\ U = {<<"barang_ke_etalase", b, 1>>, <<"etalase_barang", e, 1>>}
  OBVIOUS
<1>3. PICK n \in Nat : n = Len(baris)
  BY BarisDomain DEF TypeInv
<1>4. e \in 1 .. n /\ e \in Nat /\ b \in 1 .. n /\ b \in Nat
  <2>1. e \in DOMAIN baris /\ b \in DOMAIN baris
    BY DEF Pernah
  <2> QED BY <1>3, <2>1, BarisNat
<1>5. /\ r.tabel = "barang_ke_etalase" /\ r.dari = o /\ r.ke = 0 /\ r.rujuk = <<e, b>> /\ ~r.tanda /\ r.ada
      /\ Len(r.rujuk) = 2 /\ r \in TipeBaris(n)
  <2>1. <<e, b>> \in Seq(1 .. n) /\ Len(<<e, b>>) = 2 /\ "barang_ke_etalase" \in Tabel
    BY <1>3, <1>4, UrutKecil DEF Tabel, BerAmbang
  <2> QED BY <1>1, <1>2, <1>3, <1>4, <2>1 DEF Baris, TipeBaris
<1>6. Rujukan(baris, r)
  BY <1>5, PanjangIsi DEF Rujukan, TabelNama
<1>7. U \subseteq Perubahan
  <2>1. <<"barang_ke_etalase", b, 1>> \in Perubahan
    BY <1>1, <1>4, Id DEF Perubahan, Kolom, KolomOrang, KolomAmbang, KolomLain
  <2>2. <<"etalase_barang", e, 1>> \in Perubahan
    BY <1>1, <1>4, Id DEF Perubahan, Kolom, KolomOrang, KolomAmbang, KolomLain
  <2> QED BY <1>2, <2>1, <2>2
<1>8. IsFiniteSet(U)
  BY <1>2, HinggaKecil
<1>9. Cocokan(DOMAIN KolomBenar, U, r, Naik)
  <2>1. ASSUME NEW u \in U, u[1] \in DOMAIN KolomBenar PROVE u[3] = 1 /\ Menghitung(r, u[1], u[2])
    <3>1. u = <<"barang_ke_etalase", b, 1>> \/ u = <<"etalase_barang", e, 1>>
      BY <1>2
    <3>2. CASE u = <<"barang_ke_etalase", b, 1>>
      <4>1. u[1] = "barang_ke_etalase" /\ u[2] = b /\ u[3] = 1
        BY <3>2
      <4> QED BY <2>1, <4>1, KolomBebas
    <3>3. CASE u = <<"etalase_barang", e, 1>>
      <4>1. u[1] = "etalase_barang" /\ u[2] = e /\ u[3] = 1
        BY <3>3
      <4>2. r.tabel = "barang_ke_etalase" /\ r.rujuk[1] = e
        BY <1>5
      <4> QED BY <2>1, <4>1, <4>2, Penghitungan
    <3> QED BY <3>1, <3>2, <3>3
  <2>2. ASSUME NEW c \in DOMAIN KolomBenar, NEW x, Menghitung(r, c, x) PROVE <<c, x, 1>> \in U
    <3>0. r.tabel = "barang_ke_etalase" /\ r.dari = o /\ r.ke = 0 /\ r.rujuk[1] = e
      BY <1>5
    <3>1. (c = "etalase_barang" /\ x = e)
      BY <2>2, <3>0, Penghitungan
    <3> QED BY <1>2, <3>1
  <2> QED BY <2>1, <2>2 DEF Cocokan, Naik
<1>10. SegarBuat(baris, r)
  <2>1. \A i \in DOMAIN baris : ~(baris[i].ada /\ baris[i].tabel = r.tabel /\ baris[i].rujuk = r.rujuk)
    BY <1>1, <1>5 DEF BarisAda, Pernah
  <2> QED BY <2>1, <1>5 DEF SegarBuat, Sama, Tunggal, Terbatas, Ciri
<1>11. BuatBaca(p, r, U) /\ r \in TipeBaris(Len(baris))
  BY <1>1, <1>2, <1>3, <1>5 DEF HitungEtalase
<1> QED BY <1>5, <1>6, <1>7, <1>8, <1>9, <1>10, <1>11, MintaBuat

LEMMA TambahDiskonProdukMinta == ASSUME TypeInv, NEW p \in Proses, TambahDiskonProduk(p) PROVE Minta(p)
<1>1. PICK o \in Seller, n0 \in Nama :
        /\ Cocok("diskon_produk", o, n0) = {}
        /\ Cardinality(Milik("diskon_produk", o)) < Batas
        /\ BuatBaca(p, Baris("diskon_produk", o, n0, << >>),
                    {<<"seller_diskon", o, 1>>})
  BY DEF TambahDiskonProduk
<1>2. PICK r, U : /\ r = Baris("diskon_produk", o, n0, << >>)
                  /\ U = {<<"seller_diskon", o, 1>>}
  OBVIOUS
<1>3. PICK n \in Nat : n = Len(baris)
  BY BarisDomain DEF TypeInv
<1>5. /\ r.tabel = "diskon_produk" /\ r.dari = o /\ r.ke = n0 /\ r.rujuk = << >> /\ ~r.tanda /\ r.ada
      /\ Len(r.rujuk) = 0 /\ r \in TipeBaris(n)
  <2>1. << >> \in Seq(1 .. n) /\ Len(<< >>) = 0 /\ "diskon_produk" \in Tabel
    BY <1>3, UrutKosong DEF Tabel, BerAmbang
  <2> QED BY <1>1, <1>2, <1>3, <2>1 DEF Baris, TipeBaris
<1>6. Rujukan(baris, r)
  BY <1>5, PanjangIsi DEF Rujukan, TabelNama
<1>7. U \subseteq Perubahan
  <2>1. <<"seller_diskon", o, 1>> \in Perubahan
    BY <1>1, Id DEF Perubahan, Kolom, KolomOrang, KolomAmbang, KolomLain
  <2> QED BY <1>2, <2>1
<1>8. IsFiniteSet(U)
  BY <1>2, HinggaKecil
<1>9. Cocokan(DOMAIN KolomBenar, U, r, Naik)
  <2>1. ASSUME NEW u \in U, u[1] \in DOMAIN KolomBenar PROVE u[3] = 1 /\ Menghitung(r, u[1], u[2])
    <3>1. u = <<"seller_diskon", o, 1>>
      BY <1>2
    <3>2. CASE u = <<"seller_diskon", o, 1>>
      <4>1. u[1] = "seller_diskon" /\ u[2] = o /\ u[3] = 1
        BY <3>2
      <4>2. r.tabel = "diskon_produk" /\ r.dari = o
        BY <1>5
      <4> QED BY <2>1, <4>1, <4>2, Penghitungan
    <3> QED BY <3>1, <3>2
  <2>2. ASSUME NEW c \in DOMAIN KolomBenar, NEW x, Menghitung(r, c, x) PROVE <<c, x, 1>> \in U
    <3>0. r.tabel = "diskon_produk" /\ r.dari = o /\ r.ke = n0
      BY <1>5
    <3>1. (c = "seller_diskon" /\ x = o)
      BY <2>2, <3>0, Penghitungan
    <3> QED BY <1>2, <3>1
  <2> QED BY <2>1, <2>2 DEF Cocokan, Naik
<1>10. SegarBuat(baris, r)
  <2>1. Milik("diskon_produk", o) = Punya(baris, "diskon_produk", o)
    BY DEF Milik, BarisAda, Pernah, Punya
  <2> QED BY <2>1, <1>1, <1>5 DEF SegarBuat, Sama, Tunggal
<1>11. BuatBaca(p, r, U) /\ r \in TipeBaris(Len(baris))
  BY <1>1, <1>2, <1>3, <1>5
<1> QED BY <1>5, <1>6, <1>7, <1>8, <1>9, <1>10, <1>11, MintaBuat

LEMMA TetapKanDiskonPadaBarangMinta == ASSUME TypeInv, NEW p \in Proses, TetapKanDiskonPadaBarang(p) PROVE Minta(p)
<1>0. PICK d \in Pernah("diskon_produk"), k \in BarisAda("kategori_barang") :
        LET o == baris[k].dari
            b == baris[k].rujuk[1]
        IN  /\ \A i \in Milik("barang_di_diskon", o) : baris[i].rujuk[3] # k
            /\ BuatBaca(p, Baris("barang_di_diskon", o, 0, <<d, b, k>>), HitungDiskon(o, d, b, k, 1))
  BY Zenon DEF TetapKanDiskonPadaBarang
<1>1. PICK o, b : /\ o = baris[k].dari /\ b = baris[k].rujuk[1]
                  /\ \A i \in Milik("barang_di_diskon", o) : baris[i].rujuk[3] # k
                  /\ BuatBaca(p, Baris("barang_di_diskon", o, 0, <<d, b, k>>), HitungDiskon(o, d, b, k, 1))
  BY <1>0
<1>2. PICK r, U : /\ r = Baris("barang_di_diskon", o, 0, <<d, b, k>>)
                  /\ U = {<<"seller_barang_di_diskon", o, 1>>, <<"barang_di_diskon", b, 1>>, <<"kategori_di_diskon", k, 1>>, <<"diskon_barang", d, 1>>}
  OBVIOUS
<1>3. PICK n \in Nat : n = Len(baris)
  BY BarisDomain DEF TypeInv
<1>4. d \in 1 .. n /\ d \in Nat /\ k \in 1 .. n /\ k \in Nat /\ b \in 1 .. n /\ b \in Nat /\ o \in Pengguna \cup Seller \cup Kurir /\ o \in Nat
  <2>1. k \in DOMAIN baris /\ Panjang(baris[k].tabel) = 3 /\ d \in DOMAIN baris
    BY PanjangIsi DEF Pernah, BarisAda
  <2> QED BY <1>1, <1>3, <2>1, BarisNat
<1>5. /\ r.tabel = "barang_di_diskon" /\ r.dari = o /\ r.ke = 0 /\ r.rujuk = <<d, b, k>> /\ ~r.tanda /\ r.ada
      /\ Len(r.rujuk) = 3 /\ r \in TipeBaris(n)
  <2>1. <<d, b, k>> \in Seq(1 .. n) /\ Len(<<d, b, k>>) = 3 /\ "barang_di_diskon" \in Tabel
    BY <1>3, <1>4, UrutKecil DEF Tabel, BerAmbang
  <2> QED BY <1>1, <1>2, <1>3, <1>4, <2>1 DEF Baris, TipeBaris
<1>6. Rujukan(baris, r)
  BY <1>5, PanjangIsi DEF Rujukan, TabelNama
<1>7. U \subseteq Perubahan
  <2>1. <<"seller_barang_di_diskon", o, 1>> \in Perubahan
    BY <1>1, <1>4, Id, <1>4 DEF Perubahan, Kolom, KolomOrang, KolomAmbang, KolomLain
  <2>2. <<"barang_di_diskon", b, 1>> \in Perubahan
    BY <1>1, <1>4, Id DEF Perubahan, Kolom, KolomOrang, KolomAmbang, KolomLain
  <2>3. <<"kategori_di_diskon", k, 1>> \in Perubahan
    BY <1>1, <1>4, Id DEF Perubahan, Kolom, KolomOrang, KolomAmbang, KolomLain
  <2>4. <<"diskon_barang", d, 1>> \in Perubahan
    BY <1>1, <1>4, Id DEF Perubahan, Kolom, KolomOrang, KolomAmbang, KolomLain
  <2> QED BY <1>2, <2>1, <2>2, <2>3, <2>4
<1>8. IsFiniteSet(U)
  BY <1>2, HinggaKecil
<1>9. Cocokan(DOMAIN KolomBenar, U, r, Naik)
  <2>1. ASSUME NEW u \in U, u[1] \in DOMAIN KolomBenar PROVE u[3] = 1 /\ Menghitung(r, u[1], u[2])
    <3>1. u = <<"seller_barang_di_diskon", o, 1>> \/ u = <<"barang_di_diskon", b, 1>> \/ u = <<"kategori_di_diskon", k, 1>> \/ u = <<"diskon_barang", d, 1>>
      BY <1>2
    <3>2. CASE u = <<"seller_barang_di_diskon", o, 1>>
      <4>1. u[1] = "seller_barang_di_diskon" /\ u[2] = o /\ u[3] = 1
        BY <3>2
      <4> QED BY <2>1, <4>1, KolomBebas
    <3>3. CASE u = <<"barang_di_diskon", b, 1>>
      <4>1. u[1] = "barang_di_diskon" /\ u[2] = b /\ u[3] = 1
        BY <3>3
      <4> QED BY <2>1, <4>1, KolomBebas
    <3>4. CASE u = <<"kategori_di_diskon", k, 1>>
      <4>1. u[1] = "kategori_di_diskon" /\ u[2] = k /\ u[3] = 1
        BY <3>4
      <4> QED BY <2>1, <4>1, KolomBebas
    <3>5. CASE u = <<"diskon_barang", d, 1>>
      <4>1. u[1] = "diskon_barang" /\ u[2] = d /\ u[3] = 1
        BY <3>5
      <4>2. r.tabel = "barang_di_diskon" /\ r.rujuk[1] = d
        BY <1>5
      <4> QED BY <2>1, <4>1, <4>2, Penghitungan
    <3> QED BY <3>1, <3>2, <3>3, <3>4, <3>5
  <2>2. ASSUME NEW c \in DOMAIN KolomBenar, NEW x, Menghitung(r, c, x) PROVE <<c, x, 1>> \in U
    <3>0. r.tabel = "barang_di_diskon" /\ r.dari = o /\ r.ke = 0 /\ r.rujuk[1] = d
      BY <1>5
    <3>1. (c = "diskon_barang" /\ x = d)
      BY <2>2, <3>0, Penghitungan
    <3> QED BY <1>2, <3>1
  <2> QED BY <2>1, <2>2 DEF Cocokan, Naik
<1>10. SegarBuat(baris, r)
  <2>1. \A i \in DOMAIN baris : ~(baris[i].ada /\ baris[i].tabel = r.tabel /\ baris[i].dari = r.dari /\ baris[i].rujuk[3] = r.rujuk[3])
    BY <1>1, <1>5 DEF Milik, BarisAda, Pernah
  <2> QED BY <2>1, <1>5 DEF SegarBuat, Sama, Tunggal, Terbatas, Ciri
<1>11. BuatBaca(p, r, U) /\ r \in TipeBaris(Len(baris))
  BY <1>1, <1>2, <1>3, <1>5 DEF HitungDiskon
<1> QED BY <1>5, <1>6, <1>7, <1>8, <1>9, <1>10, <1>11, MintaBuat

LEMMA TambahRekeningSellerMinta == ASSUME TypeInv, NEW p \in Proses, TambahRekeningSeller(p) PROVE Minta(p)
<1>1. PICK o \in Seller, n0 \in Nama :
        /\ Cocok("rekening_seller", o, n0) = {}
        /\ BuatBaca(p, [Baris("rekening_seller", o, n0, << >>) EXCEPT !.tanda = Milik("rekening_seller", o) = {}],
                    {<<"seller_rekening", o, 1>>})
  BY DEF TambahRekeningSeller
<1>2. PICK r, U : /\ r = [Baris("rekening_seller", o, n0, << >>) EXCEPT !.tanda = Milik("rekening_seller", o) = {}]
                  /\ U = {<<"seller_rekening", o, 1>>}
  OBVIOUS
<1>3. PICK n \in Nat : n = Len(baris)
  BY BarisDomain DEF TypeInv
<1>5. /\ r.tabel = "rekening_seller" /\ r.dari = o /\ r.ke = n0 /\ r.rujuk = << >> /\ r.tanda = (Milik("rekening_seller", o) = {}) /\ r.ada
      /\ Len(r.rujuk) = 0 /\ r \in TipeBaris(n)
  <2>1. PICK b, t : b = Baris("rekening_seller", o, n0, << >>) /\ t = (Milik("rekening_seller", o) = {})
    OBVIOUS
  <2>2. << >> \in Seq(1 .. n) /\ Len(<< >>) = 0 /\ "rekening_seller" \in Tabel
    BY <1>3, UrutKosong DEF Tabel, BerAmbang
  <2>3. /\ b.tabel = "rekening_seller" /\ b.dari = o /\ b.ke = n0 /\ b.rujuk = << >> /\ b.ada
        /\ b \in TipeBaris(n) /\ t \in BOOLEAN /\ Len(b.rujuk) = 0
    BY <1>1, <1>3, <2>1, <2>2 DEF Baris, TipeBaris
  <2>4. r = [b EXCEPT !.tanda = t]
    BY <2>1, <1>2
  <2>5. /\ r \in TipeBaris(n) /\ r.tabel = b.tabel /\ r.dari = b.dari /\ r.ke = b.ke
        /\ r.rujuk = b.rujuk /\ r.tanda = t /\ r.ada = b.ada
    BY <2>3, <2>4, IsiTanda
  <2> QED BY <2>1, <2>3, <2>5
<1>6. Rujukan(baris, r)
  BY <1>5, PanjangIsi DEF Rujukan, TabelNama
<1>7. U \subseteq Perubahan
  <2>1. <<"seller_rekening", o, 1>> \in Perubahan
    BY <1>1, Id DEF Perubahan, Kolom, KolomOrang, KolomAmbang, KolomLain
  <2> QED BY <1>2, <2>1
<1>8. IsFiniteSet(U)
  BY <1>2, HinggaKecil
<1>9. Cocokan(DOMAIN KolomBenar, U, r, Naik)
  <2>1. ASSUME NEW u \in U, u[1] \in DOMAIN KolomBenar PROVE u[3] = 1 /\ Menghitung(r, u[1], u[2])
    <3>1. u = <<"seller_rekening", o, 1>>
      BY <1>2
    <3>2. CASE u = <<"seller_rekening", o, 1>>
      <4>1. u[1] = "seller_rekening" /\ u[2] = o /\ u[3] = 1
        BY <3>2
      <4>2. r.tabel = "rekening_seller" /\ r.dari = o
        BY <1>5
      <4> QED BY <2>1, <4>1, <4>2, Penghitungan
    <3> QED BY <3>1, <3>2
  <2>2. ASSUME NEW c \in DOMAIN KolomBenar, NEW x, Menghitung(r, c, x) PROVE <<c, x, 1>> \in U
    <3>0. r.tabel = "rekening_seller" /\ r.dari = o /\ r.ke = n0
      BY <1>5
    <3>1. (c = "seller_rekening" /\ x = o)
      BY <2>2, <3>0, Penghitungan
    <3> QED BY <1>2, <3>1
  <2> QED BY <2>1, <2>2 DEF Cocokan, Naik
<1>10. SegarBuat(baris, r)
  <2>1. r.tanda => Punya(baris, "rekening_seller", o) = {}
    BY <1>5 DEF Milik, BarisAda, Pernah, Punya
  <2> QED BY <2>1, <1>5 DEF SegarBuat, Sama, Tunggal, Terbatas
<1>11. BuatBaca(p, r, U) /\ r \in TipeBaris(Len(baris))
  BY <1>1, <1>2, <1>3, <1>5
<1> QED BY <1>5, <1>6, <1>7, <1>8, <1>9, <1>10, <1>11, MintaBuat

LEMMA TambahAlamatGudangMinta == ASSUME TypeInv, NEW p \in Proses, TambahAlamatGudang(p) PROVE Minta(p)
<1>1. PICK o \in Seller, n0 \in Nama :
        /\ Cocok("alamat_gudang", o, n0) = {}
        /\ BuatBaca(p, Baris("alamat_gudang", o, n0, << >>),
                    {<<"seller_gudang", o, 1>>})
  BY DEF TambahAlamatGudang
<1>2. PICK r, U : /\ r = Baris("alamat_gudang", o, n0, << >>)
                  /\ U = {<<"seller_gudang", o, 1>>}
  OBVIOUS
<1>3. PICK n \in Nat : n = Len(baris)
  BY BarisDomain DEF TypeInv
<1>5. /\ r.tabel = "alamat_gudang" /\ r.dari = o /\ r.ke = n0 /\ r.rujuk = << >> /\ ~r.tanda /\ r.ada
      /\ Len(r.rujuk) = 0 /\ r \in TipeBaris(n)
  <2>1. << >> \in Seq(1 .. n) /\ Len(<< >>) = 0 /\ "alamat_gudang" \in Tabel
    BY <1>3, UrutKosong DEF Tabel, BerAmbang
  <2> QED BY <1>1, <1>2, <1>3, <2>1 DEF Baris, TipeBaris
<1>6. Rujukan(baris, r)
  BY <1>5, PanjangIsi DEF Rujukan, TabelNama
<1>7. U \subseteq Perubahan
  <2>1. <<"seller_gudang", o, 1>> \in Perubahan
    BY <1>1, Id DEF Perubahan, Kolom, KolomOrang, KolomAmbang, KolomLain
  <2> QED BY <1>2, <2>1
<1>8. IsFiniteSet(U)
  BY <1>2, HinggaKecil
<1>9. Cocokan(DOMAIN KolomBenar, U, r, Naik)
  <2>1. ASSUME NEW u \in U, u[1] \in DOMAIN KolomBenar PROVE u[3] = 1 /\ Menghitung(r, u[1], u[2])
    <3>1. u = <<"seller_gudang", o, 1>>
      BY <1>2
    <3>2. CASE u = <<"seller_gudang", o, 1>>
      <4>1. u[1] = "seller_gudang" /\ u[2] = o /\ u[3] = 1
        BY <3>2
      <4>2. r.tabel = "alamat_gudang" /\ r.dari = o
        BY <1>5
      <4> QED BY <2>1, <4>1, <4>2, Penghitungan
    <3> QED BY <3>1, <3>2
  <2>2. ASSUME NEW c \in DOMAIN KolomBenar, NEW x, Menghitung(r, c, x) PROVE <<c, x, 1>> \in U
    <3>0. r.tabel = "alamat_gudang" /\ r.dari = o /\ r.ke = n0
      BY <1>5
    <3>1. (c = "seller_gudang" /\ x = o)
      BY <2>2, <3>0, Penghitungan
    <3> QED BY <1>2, <3>1
  <2> QED BY <2>1, <2>2 DEF Cocokan, Naik
<1>10. SegarBuat(baris, r)
  BY <1>5 DEF SegarBuat, Sama, Tunggal, Terbatas
<1>11. BuatBaca(p, r, U) /\ r \in TipeBaris(Len(baris))
  BY <1>1, <1>2, <1>3, <1>5
<1> QED BY <1>5, <1>6, <1>7, <1>8, <1>9, <1>10, <1>11, MintaBuat

LEMMA TambahKategoriBarangMinta == ASSUME TypeInv, NEW p \in Proses, TambahKategoriBarang(p) PROVE Minta(p)
<1>0. PICK b \in BarisAda("barang_induk") :
        LET o == baris[b].dari
        IN  \E g \in Milik("alamat_gudang", o), r \in Milik("rekening_seller", o) :
                BuatBaca(p, Baris("kategori_barang", o, 0, <<b, g, r>>), HitungKategori(o, <<b, g, r>>, 1))
  BY Zenon DEF TambahKategoriBarang
<1>1. PICK o, g, r0 : /\ o = baris[b].dari
                      /\ g \in Milik("alamat_gudang", o) /\ r0 \in Milik("rekening_seller", o)
                      /\ BuatBaca(p, Baris("kategori_barang", o, 0, <<b, g, r0>>), HitungKategori(o, <<b, g, r0>>, 1))
  BY <1>0
<1>2. PICK r, U : /\ r = Baris("kategori_barang", o, 0, <<b, g, r0>>)
                  /\ U = {<<"seller_kategori", o, 1>>, <<"barang_kategori", b, 1>>, <<"gudang_kategori", g, 1>>, <<"rekening_kategori", r0, 1>>}
  OBVIOUS
<1>3. PICK n \in Nat : n = Len(baris)
  BY BarisDomain DEF TypeInv
<1>4. b \in 1 .. n /\ b \in Nat /\ g \in 1 .. n /\ g \in Nat /\ r0 \in 1 .. n /\ r0 \in Nat /\ o \in Pengguna \cup Seller \cup Kurir /\ o \in Nat
  <2>1. b \in DOMAIN baris /\ g \in DOMAIN baris /\ r0 \in DOMAIN baris
    BY <1>1 DEF Pernah, BarisAda, Milik
  <2> QED BY <1>1, <1>3, <2>1, BarisNat
<1>5. /\ r.tabel = "kategori_barang" /\ r.dari = o /\ r.ke = 0 /\ r.rujuk = <<b, g, r0>> /\ ~r.tanda /\ r.ada
      /\ Len(r.rujuk) = 3 /\ r \in TipeBaris(n)
  <2>1. <<b, g, r0>> \in Seq(1 .. n) /\ Len(<<b, g, r0>>) = 3 /\ "kategori_barang" \in Tabel
    BY <1>3, <1>4, UrutKecil DEF Tabel, BerAmbang
  <2> QED BY <1>1, <1>2, <1>3, <1>4, <2>1 DEF Baris, TipeBaris
<1>6. Rujukan(baris, r)
  <2>1. /\ baris[b].tabel = "barang_induk" /\ baris[b].dari = o /\ baris[g].tabel = "alamat_gudang"
        /\ baris[r0].tabel = "rekening_seller"
    BY <1>1 DEF Milik, BarisAda, Pernah
  <2>2. r.tabel = "kategori_barang" /\ Len(r.rujuk) = Panjang(r.tabel) /\ r.rujuk[1] = b /\ r.rujuk[2] = g /\ r.rujuk[3] = r0
    BY <1>5, PanjangIsi
  <2> QED BY <2>1, <2>2, <1>5 DEF Rujukan
<1>7. U \subseteq Perubahan
  <2>1. <<"seller_kategori", o, 1>> \in Perubahan
    BY <1>1, <1>4, Id, <1>4 DEF Perubahan, Kolom, KolomOrang, KolomAmbang, KolomLain
  <2>2. <<"barang_kategori", b, 1>> \in Perubahan
    BY <1>1, <1>4, Id DEF Perubahan, Kolom, KolomOrang, KolomAmbang, KolomLain
  <2>3. <<"gudang_kategori", g, 1>> \in Perubahan
    BY <1>1, <1>4, Id DEF Perubahan, Kolom, KolomOrang, KolomAmbang, KolomLain
  <2>4. <<"rekening_kategori", r0, 1>> \in Perubahan
    BY <1>1, <1>4, Id DEF Perubahan, Kolom, KolomOrang, KolomAmbang, KolomLain
  <2> QED BY <1>2, <2>1, <2>2, <2>3, <2>4
<1>8. IsFiniteSet(U)
  BY <1>2, HinggaKecil
<1>9. Cocokan(DOMAIN KolomBenar, U, r, Naik)
  <2>1. ASSUME NEW u \in U, u[1] \in DOMAIN KolomBenar PROVE u[3] = 1 /\ Menghitung(r, u[1], u[2])
    <3>1. u = <<"seller_kategori", o, 1>> \/ u = <<"barang_kategori", b, 1>> \/ u = <<"gudang_kategori", g, 1>> \/ u = <<"rekening_kategori", r0, 1>>
      BY <1>2
    <3>2. CASE u = <<"seller_kategori", o, 1>>
      <4>1. u[1] = "seller_kategori" /\ u[2] = o /\ u[3] = 1
        BY <3>2
      <4> QED BY <2>1, <4>1, KolomBebas
    <3>3. CASE u = <<"barang_kategori", b, 1>>
      <4>1. u[1] = "barang_kategori" /\ u[2] = b /\ u[3] = 1
        BY <3>3
      <4>2. r.tabel = "kategori_barang" /\ r.rujuk[1] = b
        BY <1>5
      <4> QED BY <2>1, <4>1, <4>2, Penghitungan
    <3>4. CASE u = <<"gudang_kategori", g, 1>>
      <4>1. u[1] = "gudang_kategori" /\ u[2] = g /\ u[3] = 1
        BY <3>4
      <4> QED BY <2>1, <4>1, KolomBebas
    <3>5. CASE u = <<"rekening_kategori", r0, 1>>
      <4>1. u[1] = "rekening_kategori" /\ u[2] = r0 /\ u[3] = 1
        BY <3>5
      <4> QED BY <2>1, <4>1, KolomBebas
    <3> QED BY <3>1, <3>2, <3>3, <3>4, <3>5
  <2>2. ASSUME NEW c \in DOMAIN KolomBenar, NEW x, Menghitung(r, c, x) PROVE <<c, x, 1>> \in U
    <3>0. r.tabel = "kategori_barang" /\ r.dari = o /\ r.ke = 0 /\ r.rujuk[1] = b
      BY <1>5
    <3>1. (c = "barang_kategori" /\ x = b)
      BY <2>2, <3>0, Penghitungan
    <3> QED BY <1>2, <3>1
  <2> QED BY <2>1, <2>2 DEF Cocokan, Naik
<1>10. SegarBuat(baris, r)
  BY <1>5 DEF SegarBuat, Sama, Tunggal, Terbatas
<1>11. BuatBaca(p, r, U) /\ r \in TipeBaris(Len(baris))
  BY <1>1, <1>2, <1>3, <1>5 DEF HitungKategori
<1> QED BY <1>5, <1>6, <1>7, <1>8, <1>9, <1>10, <1>11, MintaBuat

LEMMA MasukanDataDistributorMinta == ASSUME TypeInv, NEW p \in Proses, MasukanDataDistributor(p) PROVE Minta(p)
<1>1. PICK o \in Seller :
        /\ Milik("distributor_data", o) = {}
        /\ BuatBaca(p, Baris("distributor_data", o, 0, << >>),
                    {<<"seller_distributor", o, 1>>})
  BY DEF MasukanDataDistributor
<1>2. PICK r, U : /\ r = Baris("distributor_data", o, 0, << >>)
                  /\ U = {<<"seller_distributor", o, 1>>}
  OBVIOUS
<1>3. PICK n \in Nat : n = Len(baris)
  BY BarisDomain DEF TypeInv
<1>5. /\ r.tabel = "distributor_data" /\ r.dari = o /\ r.ke = 0 /\ r.rujuk = << >> /\ ~r.tanda /\ r.ada
      /\ Len(r.rujuk) = 0 /\ r \in TipeBaris(n)
  <2>1. << >> \in Seq(1 .. n) /\ Len(<< >>) = 0 /\ "distributor_data" \in Tabel
    BY <1>3, UrutKosong DEF Tabel, BerAmbang
  <2> QED BY <1>1, <1>2, <1>3, <2>1 DEF Baris, TipeBaris
<1>6. Rujukan(baris, r)
  BY <1>5, PanjangIsi DEF Rujukan, TabelNama
<1>7. U \subseteq Perubahan
  <2>1. <<"seller_distributor", o, 1>> \in Perubahan
    BY <1>1, Id DEF Perubahan, Kolom, KolomOrang, KolomAmbang, KolomLain
  <2> QED BY <1>2, <2>1
<1>8. IsFiniteSet(U)
  BY <1>2, HinggaKecil
<1>9. Cocokan(DOMAIN KolomBenar, U, r, Naik)
  <2>1. ASSUME NEW u \in U, u[1] \in DOMAIN KolomBenar PROVE u[3] = 1 /\ Menghitung(r, u[1], u[2])
    <3>1. u = <<"seller_distributor", o, 1>>
      BY <1>2
    <3>2. CASE u = <<"seller_distributor", o, 1>>
      <4>1. u[1] = "seller_distributor" /\ u[2] = o /\ u[3] = 1
        BY <3>2
      <4>2. r.tabel = "distributor_data" /\ r.dari = o
        BY <1>5
      <4> QED BY <2>1, <4>1, <4>2, Penghitungan
    <3> QED BY <3>1, <3>2
  <2>2. ASSUME NEW c \in DOMAIN KolomBenar, NEW x, Menghitung(r, c, x) PROVE <<c, x, 1>> \in U
    <3>0. r.tabel = "distributor_data" /\ r.dari = o /\ r.ke = 0
      BY <1>5
    <3>1. (c = "seller_distributor" /\ x = o)
      BY <2>2, <3>0, Penghitungan
    <3> QED BY <1>2, <3>1
  <2> QED BY <2>1, <2>2 DEF Cocokan, Naik
<1>10. SegarBuat(baris, r)
  <2>1. \A i \in DOMAIN baris : ~(baris[i].ada /\ baris[i].tabel = r.tabel /\ baris[i].dari = r.dari /\ baris[i].ke = r.ke)
    BY <1>1, <1>5 DEF Cocok, Milik, BarisAda, Pernah
  <2> QED BY <2>1, <1>5 DEF SegarBuat, Sama, Tunggal, Terbatas, Ciri
<1>11. BuatBaca(p, r, U) /\ r \in TipeBaris(Len(baris))
  BY <1>1, <1>2, <1>3, <1>5
<1> QED BY <1>5, <1>6, <1>7, <1>8, <1>9, <1>10, <1>11, MintaBuat

LEMMA MasukanDataBrandMinta == ASSUME TypeInv, NEW p \in Proses, MasukanDataBrand(p) PROVE Minta(p)
<1>1. PICK o \in Seller :
        /\ Milik("brand_data", o) = {}
        /\ BuatBaca(p, Baris("brand_data", o, 0, << >>),
                    {<<"seller_brand", o, 1>>})
  BY DEF MasukanDataBrand
<1>2. PICK r, U : /\ r = Baris("brand_data", o, 0, << >>)
                  /\ U = {<<"seller_brand", o, 1>>}
  OBVIOUS
<1>3. PICK n \in Nat : n = Len(baris)
  BY BarisDomain DEF TypeInv
<1>5. /\ r.tabel = "brand_data" /\ r.dari = o /\ r.ke = 0 /\ r.rujuk = << >> /\ ~r.tanda /\ r.ada
      /\ Len(r.rujuk) = 0 /\ r \in TipeBaris(n)
  <2>1. << >> \in Seq(1 .. n) /\ Len(<< >>) = 0 /\ "brand_data" \in Tabel
    BY <1>3, UrutKosong DEF Tabel, BerAmbang
  <2> QED BY <1>1, <1>2, <1>3, <2>1 DEF Baris, TipeBaris
<1>6. Rujukan(baris, r)
  BY <1>5, PanjangIsi DEF Rujukan, TabelNama
<1>7. U \subseteq Perubahan
  <2>1. <<"seller_brand", o, 1>> \in Perubahan
    BY <1>1, Id DEF Perubahan, Kolom, KolomOrang, KolomAmbang, KolomLain
  <2> QED BY <1>2, <2>1
<1>8. IsFiniteSet(U)
  BY <1>2, HinggaKecil
<1>9. Cocokan(DOMAIN KolomBenar, U, r, Naik)
  <2>1. ASSUME NEW u \in U, u[1] \in DOMAIN KolomBenar PROVE u[3] = 1 /\ Menghitung(r, u[1], u[2])
    <3>1. u = <<"seller_brand", o, 1>>
      BY <1>2
    <3>2. CASE u = <<"seller_brand", o, 1>>
      <4>1. u[1] = "seller_brand" /\ u[2] = o /\ u[3] = 1
        BY <3>2
      <4>2. r.tabel = "brand_data" /\ r.dari = o
        BY <1>5
      <4> QED BY <2>1, <4>1, <4>2, Penghitungan
    <3> QED BY <3>1, <3>2
  <2>2. ASSUME NEW c \in DOMAIN KolomBenar, NEW x, Menghitung(r, c, x) PROVE <<c, x, 1>> \in U
    <3>0. r.tabel = "brand_data" /\ r.dari = o /\ r.ke = 0
      BY <1>5
    <3>1. (c = "seller_brand" /\ x = o)
      BY <2>2, <3>0, Penghitungan
    <3> QED BY <1>2, <3>1
  <2> QED BY <2>1, <2>2 DEF Cocokan, Naik
<1>10. SegarBuat(baris, r)
  <2>1. \A i \in DOMAIN baris : ~(baris[i].ada /\ baris[i].tabel = r.tabel /\ baris[i].dari = r.dari /\ baris[i].ke = r.ke)
    BY <1>1, <1>5 DEF Cocok, Milik, BarisAda, Pernah
  <2> QED BY <2>1, <1>5 DEF SegarBuat, Sama, Tunggal, Terbatas, Ciri
<1>11. BuatBaca(p, r, U) /\ r \in TipeBaris(Len(baris))
  BY <1>1, <1>2, <1>3, <1>5
<1> QED BY <1>5, <1>6, <1>7, <1>8, <1>9, <1>10, <1>11, MintaBuat

LEMMA MasukanAlamatKurirMinta == ASSUME TypeInv, NEW p \in Proses, MasukanAlamatKurir(p) PROVE Minta(p)
<1>1. PICK o \in Kurir :
        /\ Milik("alamat_kurir", o) = {}
        /\ BuatBaca(p, Baris("alamat_kurir", o, 0, << >>),
                    {<<"kurir_alamat", o, 1>>})
  BY DEF MasukanAlamatKurir
<1>2. PICK r, U : /\ r = Baris("alamat_kurir", o, 0, << >>)
                  /\ U = {<<"kurir_alamat", o, 1>>}
  OBVIOUS
<1>3. PICK n \in Nat : n = Len(baris)
  BY BarisDomain DEF TypeInv
<1>5. /\ r.tabel = "alamat_kurir" /\ r.dari = o /\ r.ke = 0 /\ r.rujuk = << >> /\ ~r.tanda /\ r.ada
      /\ Len(r.rujuk) = 0 /\ r \in TipeBaris(n)
  <2>1. << >> \in Seq(1 .. n) /\ Len(<< >>) = 0 /\ "alamat_kurir" \in Tabel
    BY <1>3, UrutKosong DEF Tabel, BerAmbang
  <2> QED BY <1>1, <1>2, <1>3, <2>1 DEF Baris, TipeBaris
<1>6. Rujukan(baris, r)
  BY <1>5, PanjangIsi DEF Rujukan, TabelNama
<1>7. U \subseteq Perubahan
  <2>1. <<"kurir_alamat", o, 1>> \in Perubahan
    BY <1>1, Id DEF Perubahan, Kolom, KolomOrang, KolomAmbang, KolomLain
  <2> QED BY <1>2, <2>1
<1>8. IsFiniteSet(U)
  BY <1>2, HinggaKecil
<1>9. Cocokan(DOMAIN KolomBenar, U, r, Naik)
  <2>1. ASSUME NEW u \in U, u[1] \in DOMAIN KolomBenar PROVE u[3] = 1 /\ Menghitung(r, u[1], u[2])
    <3>1. u = <<"kurir_alamat", o, 1>>
      BY <1>2
    <3>2. CASE u = <<"kurir_alamat", o, 1>>
      <4>1. u[1] = "kurir_alamat" /\ u[2] = o /\ u[3] = 1
        BY <3>2
      <4>2. r.tabel = "alamat_kurir" /\ r.dari = o
        BY <1>5
      <4> QED BY <2>1, <4>1, <4>2, Penghitungan
    <3> QED BY <3>1, <3>2
  <2>2. ASSUME NEW c \in DOMAIN KolomBenar, NEW x, Menghitung(r, c, x) PROVE <<c, x, 1>> \in U
    <3>0. r.tabel = "alamat_kurir" /\ r.dari = o /\ r.ke = 0
      BY <1>5
    <3>1. (c = "kurir_alamat" /\ x = o)
      BY <2>2, <3>0, Penghitungan
    <3> QED BY <1>2, <3>1
  <2> QED BY <2>1, <2>2 DEF Cocokan, Naik
<1>10. SegarBuat(baris, r)
  <2>1. \A i \in DOMAIN baris : ~(baris[i].ada /\ baris[i].tabel = r.tabel /\ baris[i].dari = r.dari /\ baris[i].ke = r.ke)
    BY <1>1, <1>5 DEF Cocok, Milik, BarisAda, Pernah
  <2> QED BY <2>1, <1>5 DEF SegarBuat, Sama, Tunggal, Terbatas, Ciri
<1>11. BuatBaca(p, r, U) /\ r \in TipeBaris(Len(baris))
  BY <1>1, <1>2, <1>3, <1>5
<1> QED BY <1>5, <1>6, <1>7, <1>8, <1>9, <1>10, <1>11, MintaBuat

LEMMA MasukanRekeningKurirMinta == ASSUME TypeInv, NEW p \in Proses, MasukanRekeningKurir(p) PROVE Minta(p)
<1>1. PICK o \in Kurir :
        /\ Milik("rekening_kurir", o) = {}
        /\ BuatBaca(p, Baris("rekening_kurir", o, 0, << >>),
                    {<<"kurir_rekening", o, 1>>})
  BY DEF MasukanRekeningKurir
<1>2. PICK r, U : /\ r = Baris("rekening_kurir", o, 0, << >>)
                  /\ U = {<<"kurir_rekening", o, 1>>}
  OBVIOUS
<1>3. PICK n \in Nat : n = Len(baris)
  BY BarisDomain DEF TypeInv
<1>5. /\ r.tabel = "rekening_kurir" /\ r.dari = o /\ r.ke = 0 /\ r.rujuk = << >> /\ ~r.tanda /\ r.ada
      /\ Len(r.rujuk) = 0 /\ r \in TipeBaris(n)
  <2>1. << >> \in Seq(1 .. n) /\ Len(<< >>) = 0 /\ "rekening_kurir" \in Tabel
    BY <1>3, UrutKosong DEF Tabel, BerAmbang
  <2> QED BY <1>1, <1>2, <1>3, <2>1 DEF Baris, TipeBaris
<1>6. Rujukan(baris, r)
  BY <1>5, PanjangIsi DEF Rujukan, TabelNama
<1>7. U \subseteq Perubahan
  <2>1. <<"kurir_rekening", o, 1>> \in Perubahan
    BY <1>1, Id DEF Perubahan, Kolom, KolomOrang, KolomAmbang, KolomLain
  <2> QED BY <1>2, <2>1
<1>8. IsFiniteSet(U)
  BY <1>2, HinggaKecil
<1>9. Cocokan(DOMAIN KolomBenar, U, r, Naik)
  <2>1. ASSUME NEW u \in U, u[1] \in DOMAIN KolomBenar PROVE u[3] = 1 /\ Menghitung(r, u[1], u[2])
    <3>1. u = <<"kurir_rekening", o, 1>>
      BY <1>2
    <3>2. CASE u = <<"kurir_rekening", o, 1>>
      <4>1. u[1] = "kurir_rekening" /\ u[2] = o /\ u[3] = 1
        BY <3>2
      <4> QED BY <2>1, <4>1, KolomBebas
    <3> QED BY <3>1, <3>2
  <2>2. ASSUME NEW c \in DOMAIN KolomBenar, NEW x, Menghitung(r, c, x) PROVE <<c, x, 1>> \in U
    BY <2>2, <1>5, Penghitungan
  <2> QED BY <2>1, <2>2 DEF Cocokan, Naik
<1>10. SegarBuat(baris, r)
  <2>1. \A i \in DOMAIN baris : ~(baris[i].ada /\ baris[i].tabel = r.tabel /\ baris[i].dari = r.dari /\ baris[i].ke = r.ke)
    BY <1>1, <1>5 DEF Cocok, Milik, BarisAda, Pernah
  <2> QED BY <2>1, <1>5 DEF SegarBuat, Sama, Tunggal, Terbatas, Ciri
<1>11. BuatBaca(p, r, U) /\ r \in TipeBaris(Len(baris))
  BY <1>1, <1>2, <1>3, <1>5
<1> QED BY <1>5, <1>6, <1>7, <1>8, <1>9, <1>10, <1>11, MintaBuat

LEMMA AjukanInformasiKendaraanMinta == ASSUME TypeInv, NEW p \in Proses, AjukanInformasiKendaraan(p) PROVE Minta(p)
<1>1. PICK o \in Kurir :
        /\ Milik("informasi_kendaraan_kurir", o) = {}
        /\ BuatBaca(p, Baris("informasi_kendaraan_kurir", o, 0, << >>),
                    {<<"kurir_kendaraan", o, 1>>})
  BY DEF AjukanInformasiKendaraan
<1>2. PICK r, U : /\ r = Baris("informasi_kendaraan_kurir", o, 0, << >>)
                  /\ U = {<<"kurir_kendaraan", o, 1>>}
  OBVIOUS
<1>3. PICK n \in Nat : n = Len(baris)
  BY BarisDomain DEF TypeInv
<1>5. /\ r.tabel = "informasi_kendaraan_kurir" /\ r.dari = o /\ r.ke = 0 /\ r.rujuk = << >> /\ ~r.tanda /\ r.ada
      /\ Len(r.rujuk) = 0 /\ r \in TipeBaris(n)
  <2>1. << >> \in Seq(1 .. n) /\ Len(<< >>) = 0 /\ "informasi_kendaraan_kurir" \in Tabel
    BY <1>3, UrutKosong DEF Tabel, BerAmbang
  <2> QED BY <1>1, <1>2, <1>3, <2>1 DEF Baris, TipeBaris
<1>6. Rujukan(baris, r)
  BY <1>5, PanjangIsi DEF Rujukan, TabelNama
<1>7. U \subseteq Perubahan
  <2>1. <<"kurir_kendaraan", o, 1>> \in Perubahan
    BY <1>1, Id DEF Perubahan, Kolom, KolomOrang, KolomAmbang, KolomLain
  <2> QED BY <1>2, <2>1
<1>8. IsFiniteSet(U)
  BY <1>2, HinggaKecil
<1>9. Cocokan(DOMAIN KolomBenar, U, r, Naik)
  <2>1. ASSUME NEW u \in U, u[1] \in DOMAIN KolomBenar PROVE u[3] = 1 /\ Menghitung(r, u[1], u[2])
    <3>1. u = <<"kurir_kendaraan", o, 1>>
      BY <1>2
    <3>2. CASE u = <<"kurir_kendaraan", o, 1>>
      <4>1. u[1] = "kurir_kendaraan" /\ u[2] = o /\ u[3] = 1
        BY <3>2
      <4>2. r.tabel = "informasi_kendaraan_kurir" /\ r.dari = o
        BY <1>5
      <4> QED BY <2>1, <4>1, <4>2, Penghitungan
    <3> QED BY <3>1, <3>2
  <2>2. ASSUME NEW c \in DOMAIN KolomBenar, NEW x, Menghitung(r, c, x) PROVE <<c, x, 1>> \in U
    <3>0. r.tabel = "informasi_kendaraan_kurir" /\ r.dari = o /\ r.ke = 0
      BY <1>5
    <3>1. (c = "kurir_kendaraan" /\ x = o)
      BY <2>2, <3>0, Penghitungan
    <3> QED BY <1>2, <3>1
  <2> QED BY <2>1, <2>2 DEF Cocokan, Naik
<1>10. SegarBuat(baris, r)
  <2>1. \A i \in DOMAIN baris : ~(baris[i].ada /\ baris[i].tabel = r.tabel /\ baris[i].dari = r.dari /\ baris[i].ke = r.ke)
    BY <1>1, <1>5 DEF Cocok, Milik, BarisAda, Pernah
  <2> QED BY <2>1, <1>5 DEF SegarBuat, Sama, Tunggal, Terbatas, Ciri
<1>11. BuatBaca(p, r, U) /\ r \in TipeBaris(Len(baris))
  BY <1>1, <1>2, <1>3, <1>5
<1> QED BY <1>5, <1>6, <1>7, <1>8, <1>9, <1>10, <1>11, MintaBuat

LEMMA AjukanInformasiKurirMinta == ASSUME TypeInv, NEW p \in Proses, AjukanInformasiKurir(p) PROVE Minta(p)
<1>1. PICK o \in Kurir :
        /\ Milik("informasi_kurir", o) = {}
        /\ BuatBaca(p, Baris("informasi_kurir", o, 0, << >>),
                    {<<"kurir_informasi", o, 1>>})
  BY DEF AjukanInformasiKurir
<1>2. PICK r, U : /\ r = Baris("informasi_kurir", o, 0, << >>)
                  /\ U = {<<"kurir_informasi", o, 1>>}
  OBVIOUS
<1>3. PICK n \in Nat : n = Len(baris)
  BY BarisDomain DEF TypeInv
<1>5. /\ r.tabel = "informasi_kurir" /\ r.dari = o /\ r.ke = 0 /\ r.rujuk = << >> /\ ~r.tanda /\ r.ada
      /\ Len(r.rujuk) = 0 /\ r \in TipeBaris(n)
  <2>1. << >> \in Seq(1 .. n) /\ Len(<< >>) = 0 /\ "informasi_kurir" \in Tabel
    BY <1>3, UrutKosong DEF Tabel, BerAmbang
  <2> QED BY <1>1, <1>2, <1>3, <2>1 DEF Baris, TipeBaris
<1>6. Rujukan(baris, r)
  BY <1>5, PanjangIsi DEF Rujukan, TabelNama
<1>7. U \subseteq Perubahan
  <2>1. <<"kurir_informasi", o, 1>> \in Perubahan
    BY <1>1, Id DEF Perubahan, Kolom, KolomOrang, KolomAmbang, KolomLain
  <2> QED BY <1>2, <2>1
<1>8. IsFiniteSet(U)
  BY <1>2, HinggaKecil
<1>9. Cocokan(DOMAIN KolomBenar, U, r, Naik)
  <2>1. ASSUME NEW u \in U, u[1] \in DOMAIN KolomBenar PROVE u[3] = 1 /\ Menghitung(r, u[1], u[2])
    <3>1. u = <<"kurir_informasi", o, 1>>
      BY <1>2
    <3>2. CASE u = <<"kurir_informasi", o, 1>>
      <4>1. u[1] = "kurir_informasi" /\ u[2] = o /\ u[3] = 1
        BY <3>2
      <4>2. r.tabel = "informasi_kurir" /\ r.dari = o
        BY <1>5
      <4> QED BY <2>1, <4>1, <4>2, Penghitungan
    <3> QED BY <3>1, <3>2
  <2>2. ASSUME NEW c \in DOMAIN KolomBenar, NEW x, Menghitung(r, c, x) PROVE <<c, x, 1>> \in U
    <3>0. r.tabel = "informasi_kurir" /\ r.dari = o /\ r.ke = 0
      BY <1>5
    <3>1. (c = "kurir_informasi" /\ x = o)
      BY <2>2, <3>0, Penghitungan
    <3> QED BY <1>2, <3>1
  <2> QED BY <2>1, <2>2 DEF Cocokan, Naik
<1>10. SegarBuat(baris, r)
  <2>1. \A i \in DOMAIN baris : ~(baris[i].ada /\ baris[i].tabel = r.tabel /\ baris[i].dari = r.dari /\ baris[i].ke = r.ke)
    BY <1>1, <1>5 DEF Cocok, Milik, BarisAda, Pernah
  <2> QED BY <2>1, <1>5 DEF SegarBuat, Sama, Tunggal, Terbatas, Ciri
<1>11. BuatBaca(p, r, U) /\ r \in TipeBaris(Len(baris))
  BY <1>1, <1>2, <1>3, <1>5
<1> QED BY <1>5, <1>6, <1>7, <1>8, <1>9, <1>10, <1>11, MintaBuat

-----------------------------------------------------------------------------
(* The handlers that delete a row.                                          *)

LEMMA UnlikeBarangMinta == ASSUME TypeInv, NEW p \in Proses, UnlikeBarang(p) PROVE Minta(p)
<1>1. PICK i \in BarisAda("barang_disukai") :
        /\ HapusBaca(p, i, {<<"pengguna_disukai", baris[i].dari, -1>>, <<"barang_di_diskon", baris[i].rujuk[1], -1>>}, {}, "")
  BY DEF UnlikeBarang
<1>3. i \in DOMAIN baris /\ baris[i].tabel = "barang_disukai" /\ baris[i].ada
  BY DEF BarisAda, Pernah
<1>4. PICK d, g : d = baris[i].dari /\ g = baris[i].rujuk[1]
  OBVIOUS
<1>5. d \in Nat /\ g \in Nat
  BY <1>3, <1>4, BarisNat, PanjangIsi
<1>5a. PICK m \in Int : m = -1
  OBVIOUS
<1>6. PICK U, H, t : U = {<<"pengguna_disukai", d, m>>, <<"barang_di_diskon", g, m>>} /\ H = {} /\ t = ""
  OBVIOUS
<1>7. U \subseteq Perubahan
  <2>1. <<"pengguna_disukai", d, m>> \in Perubahan
    BY <1>5, <1>5a DEF Perubahan, Kolom, KolomOrang, KolomAmbang, KolomLain
  <2>2. <<"barang_di_diskon", g, m>> \in Perubahan
    BY <1>5, <1>5a DEF Perubahan, Kolom, KolomOrang, KolomAmbang, KolomLain
  <2> QED BY <1>6, <2>1, <2>2
<1>8. IsFiniteSet(U)
  BY <1>6, HinggaKecil
<1>9. Cocokan(DOMAIN KolomBenar, U, baris[i], Turun)
  <2>1. ASSUME NEW u \in U, u[1] \in DOMAIN KolomBenar PROVE u[3] = m /\ Menghitung(baris[i], u[1], u[2])
    <3>1. u = <<"pengguna_disukai", d, m>> \/ u = <<"barang_di_diskon", g, m>>
      BY <1>6
    <3>2. CASE u = <<"pengguna_disukai", d, m>>
      <4>1. u[1] = "pengguna_disukai" /\ u[2] = d /\ u[3] = m
        BY <3>2
      <4> QED BY <2>1, <4>1, KolomBebas
    <3>3. CASE u = <<"barang_di_diskon", g, m>>
      <4>1. u[1] = "barang_di_diskon" /\ u[2] = g /\ u[3] = m
        BY <3>3
      <4> QED BY <2>1, <4>1, KolomBebas
    <3> QED BY <3>1, <3>2, <3>3
  <2>2. ASSUME NEW c \in DOMAIN KolomBenar, NEW x, Menghitung(baris[i], c, x) PROVE <<c, x, m>> \in U
    BY <2>2, <1>3, Penghitungan
  <2> QED BY <1>5a, <2>1, <2>2 DEF Cocokan, Turun
<1>10. Cocokan(KolomOrang, U, baris[i], Turun) /\ Cocokan(KolomRujuk, U, baris[i], Turun)
  BY <1>9, CocokanBagian
<1>11. SegarHapus(baris, i, U)
  BY <1>3, <1>10 DEF SegarHapus, SegarGanti
<1>12. H \subseteq DOMAIN baris /\ Bawaan(t)
  BY <1>3, <1>6 DEF Bawaan, TabelIkut
<1>13. HapusBaca(p, i, U, H, t)
  BY <1>1, <1>4, <1>5a, <1>6
<1> QED BY <1>3, <1>7, <1>8, <1>10, <1>11, <1>12, <1>13, MintaHapus

LEMMA HapusKomentarBarangMinta == ASSUME TypeInv, NEW p \in Proses, HapusKomentarBarang(p) PROVE Minta(p)
<1>1. PICK i \in BarisAda("komentar") :
        /\ baris[i].dari \in Pengguna
        /\ HapusBaca(p, i, {<<"barang_komentar", 0, -1>>}, {}, "")
  BY DEF HapusKomentarBarang
<1>3. i \in DOMAIN baris /\ baris[i].tabel = "komentar" /\ baris[i].ada
  BY DEF BarisAda, Pernah
<1>5a. PICK m \in Int : m = -1
  OBVIOUS
<1>6. PICK U, H, t : U = {<<"barang_komentar", 0, m>>} /\ H = {} /\ t = ""
  OBVIOUS
<1>7. U \subseteq Perubahan
  <2>1. <<"barang_komentar", 0, m>> \in Perubahan
    BY <1>5a DEF Perubahan, Kolom, KolomOrang, KolomAmbang, KolomLain
  <2> QED BY <1>6, <2>1
<1>8. IsFiniteSet(U)
  BY <1>6, HinggaKecil
<1>9. Cocokan(DOMAIN KolomBenar, U, baris[i], Turun)
  <2>1. ASSUME NEW u \in U, u[1] \in DOMAIN KolomBenar PROVE u[3] = m /\ Menghitung(baris[i], u[1], u[2])
    <3>1. u = <<"barang_komentar", 0, m>>
      BY <1>6
    <3>2. CASE u = <<"barang_komentar", 0, m>>
      <4>1. u[1] = "barang_komentar" /\ u[2] = 0 /\ u[3] = m
        BY <3>2
      <4> QED BY <2>1, <4>1, KolomBebas
    <3> QED BY <3>1, <3>2
  <2>2. ASSUME NEW c \in DOMAIN KolomBenar, NEW x, Menghitung(baris[i], c, x) PROVE <<c, x, m>> \in U
    BY <2>2, <1>3, Penghitungan
  <2> QED BY <1>5a, <2>1, <2>2 DEF Cocokan, Turun
<1>10. Cocokan(KolomOrang, U, baris[i], Turun) /\ Cocokan(KolomRujuk, U, baris[i], Turun)
  BY <1>9, CocokanBagian
<1>11. SegarHapus(baris, i, U)
  BY <1>3, <1>10 DEF SegarHapus, SegarGanti
<1>12. H \subseteq DOMAIN baris /\ Bawaan(t)
  BY <1>3, <1>6 DEF Bawaan, TabelIkut
<1>13. HapusBaca(p, i, U, H, t)
  BY <1>1, <1>5a, <1>6
<1> QED BY <1>3, <1>7, <1>8, <1>10, <1>11, <1>12, <1>13, MintaHapus

LEMMA HapusChildKomentarMinta == ASSUME TypeInv, NEW p \in Proses, HapusChildKomentar(p) PROVE Minta(p)
<1>1. PICK i \in BarisAda("komentar_child") :
        /\ baris[i].dari \in Pengguna
        /\ HapusBaca(p, i, {<<"komentar_child", 0, -1>>}, {}, "")
  BY DEF HapusChildKomentar
<1>3. i \in DOMAIN baris /\ baris[i].tabel = "komentar_child" /\ baris[i].ada
  BY DEF BarisAda, Pernah
<1>5a. PICK m \in Int : m = -1
  OBVIOUS
<1>6. PICK U, H, t : U = {<<"komentar_child", 0, m>>} /\ H = {} /\ t = ""
  OBVIOUS
<1>7. U \subseteq Perubahan
  <2>1. <<"komentar_child", 0, m>> \in Perubahan
    BY <1>5a DEF Perubahan, Kolom, KolomOrang, KolomAmbang, KolomLain
  <2> QED BY <1>6, <2>1
<1>8. IsFiniteSet(U)
  BY <1>6, HinggaKecil
<1>9. Cocokan(DOMAIN KolomBenar, U, baris[i], Turun)
  <2>1. ASSUME NEW u \in U, u[1] \in DOMAIN KolomBenar PROVE u[3] = m /\ Menghitung(baris[i], u[1], u[2])
    <3>1. u = <<"komentar_child", 0, m>>
      BY <1>6
    <3>2. CASE u = <<"komentar_child", 0, m>>
      <4>1. u[1] = "komentar_child" /\ u[2] = 0 /\ u[3] = m
        BY <3>2
      <4> QED BY <2>1, <4>1, KolomBebas
    <3> QED BY <3>1, <3>2
  <2>2. ASSUME NEW c \in DOMAIN KolomBenar, NEW x, Menghitung(baris[i], c, x) PROVE <<c, x, m>> \in U
    BY <2>2, <1>3, Penghitungan
  <2> QED BY <1>5a, <2>1, <2>2 DEF Cocokan, Turun
<1>10. Cocokan(KolomOrang, U, baris[i], Turun) /\ Cocokan(KolomRujuk, U, baris[i], Turun)
  BY <1>9, CocokanBagian
<1>11. SegarHapus(baris, i, U)
  BY <1>3, <1>10 DEF SegarHapus, SegarGanti
<1>12. H \subseteq DOMAIN baris /\ Bawaan(t)
  BY <1>3, <1>6 DEF Bawaan, TabelIkut
<1>13. HapusBaca(p, i, U, H, t)
  BY <1>1, <1>5a, <1>6
<1> QED BY <1>3, <1>7, <1>8, <1>10, <1>11, <1>12, <1>13, MintaHapus

LEMMA HapusKeranjangBarangMinta == ASSUME TypeInv, NEW p \in Proses, HapusKeranjangBarang(p) PROVE Minta(p)
<1>1. PICK i \in BarisAda("keranjang") :
        /\ HapusBaca(p, i, HitungKeranjang(baris[i].dari, baris[i].rujuk[1], baris[i].rujuk[2], -1), {}, "")
  BY DEF HapusKeranjangBarang
<1>3. i \in DOMAIN baris /\ baris[i].tabel = "keranjang" /\ baris[i].ada
  BY DEF BarisAda, Pernah
<1>4. PICK d, g, w : d = baris[i].dari /\ g = baris[i].rujuk[1] /\ w = baris[i].rujuk[2]
  OBVIOUS
<1>5. d \in Nat /\ g \in Nat /\ w \in Nat
  BY <1>3, <1>4, BarisNat, PanjangIsi
<1>5a. PICK m \in Int : m = -1
  OBVIOUS
<1>6. PICK U, H, t : U = {<<"pengguna_keranjang", d, m>>, <<"barang_keranjang", g, m>>, <<"kategori_keranjang", w, m>>} /\ H = {} /\ t = ""
  OBVIOUS
<1>7. U \subseteq Perubahan
  <2>1. <<"pengguna_keranjang", d, m>> \in Perubahan
    BY <1>5, <1>5a DEF Perubahan, Kolom, KolomOrang, KolomAmbang, KolomLain
  <2>2. <<"barang_keranjang", g, m>> \in Perubahan
    BY <1>5, <1>5a DEF Perubahan, Kolom, KolomOrang, KolomAmbang, KolomLain
  <2>3. <<"kategori_keranjang", w, m>> \in Perubahan
    BY <1>5, <1>5a DEF Perubahan, Kolom, KolomOrang, KolomAmbang, KolomLain
  <2> QED BY <1>6, <2>1, <2>2, <2>3
<1>8. IsFiniteSet(U)
  BY <1>6, HinggaKecil
<1>9. Cocokan(DOMAIN KolomBenar, U, baris[i], Turun)
  <2>1. ASSUME NEW u \in U, u[1] \in DOMAIN KolomBenar PROVE u[3] = m /\ Menghitung(baris[i], u[1], u[2])
    <3>1. u = <<"pengguna_keranjang", d, m>> \/ u = <<"barang_keranjang", g, m>> \/ u = <<"kategori_keranjang", w, m>>
      BY <1>6
    <3>2. CASE u = <<"pengguna_keranjang", d, m>>
      <4>1. u[1] = "pengguna_keranjang" /\ u[2] = d /\ u[3] = m
        BY <3>2
      <4> QED BY <2>1, <4>1, <1>3, <1>4, Penghitungan
    <3>3. CASE u = <<"barang_keranjang", g, m>>
      <4>1. u[1] = "barang_keranjang" /\ u[2] = g /\ u[3] = m
        BY <3>3
      <4> QED BY <2>1, <4>1, <1>3, <1>4, Penghitungan
    <3>4. CASE u = <<"kategori_keranjang", w, m>>
      <4>1. u[1] = "kategori_keranjang" /\ u[2] = w /\ u[3] = m
        BY <3>4
      <4> QED BY <2>1, <4>1, KolomBebas
    <3> QED BY <3>1, <3>2, <3>3, <3>4
  <2>2. ASSUME NEW c \in DOMAIN KolomBenar, NEW x, Menghitung(baris[i], c, x) PROVE <<c, x, m>> \in U
    <3>0. PICK b : /\ b.tabel = "keranjang" /\ Menghitung(b, c, x)
                   /\ b.dari = d /\ b.rujuk[1] = g
      BY <2>2, <1>3, <1>4, Zenon
    <3>1. (c = "pengguna_keranjang" /\ x = d) \/ (c = "barang_keranjang" /\ x = g)
      BY <3>0, Penghitungan
    <3> QED BY <1>6, <3>1
  <2> QED BY <1>5a, <2>1, <2>2 DEF Cocokan, Turun
<1>10. Cocokan(KolomOrang, U, baris[i], Turun) /\ Cocokan(KolomRujuk, U, baris[i], Turun)
  BY <1>9, CocokanBagian
<1>11. SegarHapus(baris, i, U)
  BY <1>3, <1>10 DEF SegarHapus, SegarGanti
<1>12. H \subseteq DOMAIN baris /\ Bawaan(t)
  BY <1>3, <1>6 DEF Bawaan, TabelIkut
<1>13. HapusBaca(p, i, U, H, t)
  BY <1>1, <1>4, <1>5a, <1>6 DEF HitungKeranjang
<1> QED BY <1>3, <1>7, <1>8, <1>10, <1>11, <1>12, <1>13, MintaHapus

LEMMA UnlikeReviewBarangMinta == ASSUME TypeInv, NEW p \in Proses, UnlikeReviewBarang(p) PROVE Minta(p)
<1>1. PICK i \in BarisAda("review_like"), r \in {0} \cup Pernah("review") :
        /\ HapusBaca(p, i, {<<"review_dislike", r, 1>>}, {}, "")
  BY DEF UnlikeReviewBarang
<1>3. i \in DOMAIN baris /\ baris[i].tabel = "review_like" /\ baris[i].ada
  BY DEF BarisAda, Pernah
<1>5. r \in Nat
  <2>1. r = 0 \/ r \in DOMAIN baris
    BY DEF Pernah
  <2> QED BY <2>1, BarisNat
<1>6. PICK U, H, t : U = {<<"review_dislike", r, 1>>} /\ H = {} /\ t = ""
  OBVIOUS
<1>7. U \subseteq Perubahan
  <2>1. <<"review_dislike", r, 1>> \in Perubahan
    BY <1>5 DEF Perubahan, Kolom, KolomOrang, KolomAmbang, KolomLain
  <2> QED BY <1>6, <2>1
<1>8. IsFiniteSet(U)
  BY <1>6, HinggaKecil
<1>9. Cocokan(DOMAIN KolomBenar, U, baris[i], Turun)
  <2>1. ASSUME NEW u \in U, u[1] \in DOMAIN KolomBenar PROVE u[3] = -1 /\ Menghitung(baris[i], u[1], u[2])
    <3>1. u = <<"review_dislike", r, 1>>
      BY <1>6
    <3>2. CASE u = <<"review_dislike", r, 1>>
      <4>1. u[1] = "review_dislike" /\ u[2] = r /\ u[3] = 1
        BY <3>2
      <4> QED BY <2>1, <4>1, KolomBebas
    <3> QED BY <3>1, <3>2
  <2>2. ASSUME NEW c \in DOMAIN KolomBenar, NEW x, Menghitung(baris[i], c, x) PROVE <<c, x, -1>> \in U
    BY <2>2, <1>3, Penghitungan
  <2> QED BY <2>1, <2>2 DEF Cocokan, Turun
<1>10. Cocokan(KolomOrang, U, baris[i], Turun) /\ Cocokan(KolomRujuk, U, baris[i], Turun)
  BY <1>9, CocokanBagian
<1>11. SegarHapus(baris, i, U)
  BY <1>3, <1>10 DEF SegarHapus, SegarGanti
<1>12. H \subseteq DOMAIN baris /\ Bawaan(t)
  BY <1>3, <1>6 DEF Bawaan, TabelIkut
<1>13. HapusBaca(p, i, U, H, t)
  BY <1>1, <1>6
<1> QED BY <1>3, <1>7, <1>8, <1>10, <1>11, <1>12, <1>13, MintaHapus

LEMMA UnfollowSellerMinta == ASSUME TypeInv, NEW p \in Proses, UnfollowSeller(p) PROVE Minta(p)
<1>1. PICK i \in BarisAda("follower") :
        /\ HapusBaca(p, i, {<<"pengguna_following", baris[i].dari, -1>>, <<"seller_follower", baris[i].ke, -1>>}, {}, "")
  BY DEF UnfollowSeller
<1>3. i \in DOMAIN baris /\ baris[i].tabel = "follower" /\ baris[i].ada
  BY DEF BarisAda, Pernah
<1>4. PICK d, k : d = baris[i].dari /\ k = baris[i].ke
  OBVIOUS
<1>5. d \in Nat /\ k \in Nat
  BY <1>3, <1>4, BarisNat, PanjangIsi
<1>5a. PICK m \in Int : m = -1
  OBVIOUS
<1>6. PICK U, H, t : U = {<<"pengguna_following", d, m>>, <<"seller_follower", k, m>>} /\ H = {} /\ t = ""
  OBVIOUS
<1>7. U \subseteq Perubahan
  <2>1. <<"pengguna_following", d, m>> \in Perubahan
    BY <1>5, <1>5a DEF Perubahan, Kolom, KolomOrang, KolomAmbang, KolomLain
  <2>2. <<"seller_follower", k, m>> \in Perubahan
    BY <1>5, <1>5a DEF Perubahan, Kolom, KolomOrang, KolomAmbang, KolomLain
  <2> QED BY <1>6, <2>1, <2>2
<1>8. IsFiniteSet(U)
  BY <1>6, HinggaKecil
<1>9. Cocokan(DOMAIN KolomBenar, U, baris[i], Turun)
  <2>1. ASSUME NEW u \in U, u[1] \in DOMAIN KolomBenar PROVE u[3] = m /\ Menghitung(baris[i], u[1], u[2])
    <3>1. u = <<"pengguna_following", d, m>> \/ u = <<"seller_follower", k, m>>
      BY <1>6
    <3>2. CASE u = <<"pengguna_following", d, m>>
      <4>1. u[1] = "pengguna_following" /\ u[2] = d /\ u[3] = m
        BY <3>2
      <4> QED BY <2>1, <4>1, <1>3, <1>4, Penghitungan
    <3>3. CASE u = <<"seller_follower", k, m>>
      <4>1. u[1] = "seller_follower" /\ u[2] = k /\ u[3] = m
        BY <3>3
      <4> QED BY <2>1, <4>1, <1>3, <1>4, Penghitungan
    <3> QED BY <3>1, <3>2, <3>3
  <2>2. ASSUME NEW c \in DOMAIN KolomBenar, NEW x, Menghitung(baris[i], c, x) PROVE <<c, x, m>> \in U
    <3>0. PICK b : /\ b.tabel = "follower" /\ Menghitung(b, c, x)
                   /\ b.dari = d /\ b.ke = k
      BY <2>2, <1>3, <1>4, Zenon
    <3>1. (c = "pengguna_following" /\ x = d) \/ (c = "seller_follower" /\ x = k)
      BY <3>0, Penghitungan
    <3> QED BY <1>6, <3>1
  <2> QED BY <1>5a, <2>1, <2>2 DEF Cocokan, Turun
<1>10. Cocokan(KolomOrang, U, baris[i], Turun) /\ Cocokan(KolomRujuk, U, baris[i], Turun)
  BY <1>9, CocokanBagian
<1>11. SegarHapus(baris, i, U)
  BY <1>3, <1>10 DEF SegarHapus, SegarGanti
<1>12. H \subseteq DOMAIN baris /\ Bawaan(t)
  BY <1>3, <1>6 DEF Bawaan, TabelIkut
<1>13. HapusBaca(p, i, U, H, t)
  BY <1>1, <1>4, <1>5a, <1>6
<1> QED BY <1>3, <1>7, <1>8, <1>10, <1>11, <1>12, <1>13, MintaHapus

LEMMA HapusAlamatPenggunaMinta == ASSUME TypeInv, NEW p \in Proses, HapusAlamatPengguna(p) PROVE Minta(p)
<1>1. PICK i \in BarisAda("alamat_pengguna") :
        /\ AlamatBebas(i)
        /\ HapusBaca(p, i, {<<"pengguna_alamat", baris[i].dari, -1>>}, {}, "")
  BY DEF HapusAlamatPengguna
<1>3. i \in DOMAIN baris /\ baris[i].tabel = "alamat_pengguna" /\ baris[i].ada
  BY DEF BarisAda, Pernah
<1>4. PICK d : d = baris[i].dari
  OBVIOUS
<1>5. d \in Nat
  BY <1>3, <1>4, BarisNat, PanjangIsi
<1>5a. PICK m \in Int : m = -1
  OBVIOUS
<1>6. PICK U, H, t : U = {<<"pengguna_alamat", d, m>>} /\ H = {} /\ t = ""
  OBVIOUS
<1>7. U \subseteq Perubahan
  <2>1. <<"pengguna_alamat", d, m>> \in Perubahan
    BY <1>5, <1>5a DEF Perubahan, Kolom, KolomOrang, KolomAmbang, KolomLain
  <2> QED BY <1>6, <2>1
<1>8. IsFiniteSet(U)
  BY <1>6, HinggaKecil
<1>9. Cocokan(DOMAIN KolomBenar, U, baris[i], Turun)
  <2>1. ASSUME NEW u \in U, u[1] \in DOMAIN KolomBenar PROVE u[3] = m /\ Menghitung(baris[i], u[1], u[2])
    <3>1. u = <<"pengguna_alamat", d, m>>
      BY <1>6
    <3>2. CASE u = <<"pengguna_alamat", d, m>>
      <4>1. u[1] = "pengguna_alamat" /\ u[2] = d /\ u[3] = m
        BY <3>2
      <4> QED BY <2>1, <4>1, <1>3, <1>4, Penghitungan
    <3> QED BY <3>1, <3>2
  <2>2. ASSUME NEW c \in DOMAIN KolomBenar, NEW x, Menghitung(baris[i], c, x) PROVE <<c, x, m>> \in U
    <3>0. PICK b : /\ b.tabel = "alamat_pengguna" /\ Menghitung(b, c, x)
                   /\ b.dari = d
      BY <2>2, <1>3, <1>4, Zenon
    <3>1. (c = "pengguna_alamat" /\ x = d)
      BY <3>0, Penghitungan
    <3> QED BY <1>6, <3>1
  <2> QED BY <1>5a, <2>1, <2>2 DEF Cocokan, Turun
<1>10. Cocokan(KolomOrang, U, baris[i], Turun) /\ Cocokan(KolomRujuk, U, baris[i], Turun)
  BY <1>9, CocokanBagian
<1>11. SegarHapus(baris, i, U)
  <2>1. \A j \in DOMAIN baris : Terbuka(baris[j]) => baris[j].rujuk[3] # i
    BY <1>1 DEF Terbuka, BarisAda, Pernah, AlamatBebas
  <2> QED BY <1>3, <1>10, <2>1 DEF SegarHapus, SegarGanti
<1>12. H \subseteq DOMAIN baris /\ Bawaan(t)
  BY <1>3, <1>6 DEF Bawaan, TabelIkut
<1>13. HapusBaca(p, i, U, H, t)
  BY <1>1, <1>4, <1>5a, <1>6
<1> QED BY <1>3, <1>7, <1>8, <1>10, <1>11, <1>12, <1>13, MintaHapus

LEMMA HapusEtalaseSellerMinta == ASSUME TypeInv, NEW p \in Proses, HapusEtalaseSeller(p) PROVE Minta(p)
<1>1. PICK i \in BarisAda("etalase") :
        /\ HapusBaca(p, i, {<<"seller_etalase", baris[i].dari, -1>>}, {i}, "barang_ke_etalase")
  BY DEF HapusEtalaseSeller
<1>3. i \in DOMAIN baris /\ baris[i].tabel = "etalase" /\ baris[i].ada
  BY DEF BarisAda, Pernah
<1>4. PICK d : d = baris[i].dari
  OBVIOUS
<1>5. d \in Nat
  BY <1>3, <1>4, BarisNat, PanjangIsi
<1>5a. PICK m \in Int : m = -1
  OBVIOUS
<1>6. PICK U, H, t : U = {<<"seller_etalase", d, m>>} /\ H = {i} /\ t = "barang_ke_etalase"
  OBVIOUS
<1>7. U \subseteq Perubahan
  <2>1. <<"seller_etalase", d, m>> \in Perubahan
    BY <1>5, <1>5a DEF Perubahan, Kolom, KolomOrang, KolomAmbang, KolomLain
  <2> QED BY <1>6, <2>1
<1>8. IsFiniteSet(U)
  BY <1>6, HinggaKecil
<1>9. Cocokan(DOMAIN KolomBenar, U, baris[i], Turun)
  <2>1. ASSUME NEW u \in U, u[1] \in DOMAIN KolomBenar PROVE u[3] = m /\ Menghitung(baris[i], u[1], u[2])
    <3>1. u = <<"seller_etalase", d, m>>
      BY <1>6
    <3>2. CASE u = <<"seller_etalase", d, m>>
      <4>1. u[1] = "seller_etalase" /\ u[2] = d /\ u[3] = m
        BY <3>2
      <4> QED BY <2>1, <4>1, <1>3, <1>4, Penghitungan
    <3> QED BY <3>1, <3>2
  <2>2. ASSUME NEW c \in DOMAIN KolomBenar, NEW x, Menghitung(baris[i], c, x) PROVE <<c, x, m>> \in U
    <3>0. PICK b : /\ b.tabel = "etalase" /\ Menghitung(b, c, x)
                   /\ b.dari = d
      BY <2>2, <1>3, <1>4, Zenon
    <3>1. (c = "seller_etalase" /\ x = d)
      BY <3>0, Penghitungan
    <3> QED BY <1>6, <3>1
  <2> QED BY <1>5a, <2>1, <2>2 DEF Cocokan, Turun
<1>10. Cocokan(KolomOrang, U, baris[i], Turun) /\ Cocokan(KolomRujuk, U, baris[i], Turun)
  BY <1>9, CocokanBagian
<1>11. SegarHapus(baris, i, U)
  BY <1>3, <1>10 DEF SegarHapus, SegarGanti
<1>12. H \subseteq DOMAIN baris /\ Bawaan(t)
  BY <1>3, <1>6 DEF Bawaan, TabelIkut
<1>13. HapusBaca(p, i, U, H, t)
  BY <1>1, <1>4, <1>5a, <1>6
<1> QED BY <1>3, <1>7, <1>8, <1>10, <1>11, <1>12, <1>13, MintaHapus

LEMMA HapusBarangDariEtalaseMinta == ASSUME TypeInv, NEW p \in Proses, HapusBarangDariEtalase(p) PROVE Minta(p)
<1>1. PICK i \in BarisAda("barang_ke_etalase") :
        /\ HapusBaca(p, i, HitungEtalase(baris[i].rujuk[1], baris[i].rujuk[2], -1), {}, "")
  BY DEF HapusBarangDariEtalase
<1>3. i \in DOMAIN baris /\ baris[i].tabel = "barang_ke_etalase" /\ baris[i].ada
  BY DEF BarisAda, Pernah
<1>4. PICK g, w : g = baris[i].rujuk[1] /\ w = baris[i].rujuk[2]
  OBVIOUS
<1>5. g \in Nat /\ w \in Nat
  BY <1>3, <1>4, BarisNat, PanjangIsi
<1>5a. PICK m \in Int : m = -1
  OBVIOUS
<1>6. PICK U, H, t : U = {<<"barang_ke_etalase", w, m>>, <<"etalase_barang", g, m>>} /\ H = {} /\ t = ""
  OBVIOUS
<1>7. U \subseteq Perubahan
  <2>1. <<"barang_ke_etalase", w, m>> \in Perubahan
    BY <1>5, <1>5a DEF Perubahan, Kolom, KolomOrang, KolomAmbang, KolomLain
  <2>2. <<"etalase_barang", g, m>> \in Perubahan
    BY <1>5, <1>5a DEF Perubahan, Kolom, KolomOrang, KolomAmbang, KolomLain
  <2> QED BY <1>6, <2>1, <2>2
<1>8. IsFiniteSet(U)
  BY <1>6, HinggaKecil
<1>9. Cocokan(DOMAIN KolomBenar, U, baris[i], Turun)
  <2>1. ASSUME NEW u \in U, u[1] \in DOMAIN KolomBenar PROVE u[3] = m /\ Menghitung(baris[i], u[1], u[2])
    <3>1. u = <<"barang_ke_etalase", w, m>> \/ u = <<"etalase_barang", g, m>>
      BY <1>6
    <3>2. CASE u = <<"barang_ke_etalase", w, m>>
      <4>1. u[1] = "barang_ke_etalase" /\ u[2] = w /\ u[3] = m
        BY <3>2
      <4> QED BY <2>1, <4>1, KolomBebas
    <3>3. CASE u = <<"etalase_barang", g, m>>
      <4>1. u[1] = "etalase_barang" /\ u[2] = g /\ u[3] = m
        BY <3>3
      <4> QED BY <2>1, <4>1, <1>3, <1>4, Penghitungan
    <3> QED BY <3>1, <3>2, <3>3
  <2>2. ASSUME NEW c \in DOMAIN KolomBenar, NEW x, Menghitung(baris[i], c, x) PROVE <<c, x, m>> \in U
    <3>0. PICK b : /\ b.tabel = "barang_ke_etalase" /\ Menghitung(b, c, x)
                   /\ b.rujuk[1] = g
      BY <2>2, <1>3, <1>4, Zenon
    <3>1. (c = "etalase_barang" /\ x = g)
      BY <3>0, Penghitungan
    <3> QED BY <1>6, <3>1
  <2> QED BY <1>5a, <2>1, <2>2 DEF Cocokan, Turun
<1>10. Cocokan(KolomOrang, U, baris[i], Turun) /\ Cocokan(KolomRujuk, U, baris[i], Turun)
  BY <1>9, CocokanBagian
<1>11. SegarHapus(baris, i, U)
  BY <1>3, <1>10 DEF SegarHapus, SegarGanti
<1>12. H \subseteq DOMAIN baris /\ Bawaan(t)
  BY <1>3, <1>6 DEF Bawaan, TabelIkut
<1>13. HapusBaca(p, i, U, H, t)
  BY <1>1, <1>4, <1>5a, <1>6 DEF HitungEtalase
<1> QED BY <1>3, <1>7, <1>8, <1>10, <1>11, <1>12, <1>13, MintaHapus

LEMMA HapusDiskonProdukMinta == ASSUME TypeInv, NEW p \in Proses, HapusDiskonProduk(p) PROVE Minta(p)
<1>1. PICK i \in BarisAda("diskon_produk") :
        /\ ~baris[i].tanda
        /\ HapusBaca(p, i, {<<"seller_diskon", baris[i].dari, -1>>}, {i}, "barang_di_diskon")
  BY DEF HapusDiskonProduk
<1>3. i \in DOMAIN baris /\ baris[i].tabel = "diskon_produk" /\ baris[i].ada
  BY DEF BarisAda, Pernah
<1>4. PICK d : d = baris[i].dari
  OBVIOUS
<1>5. d \in Nat
  BY <1>3, <1>4, BarisNat, PanjangIsi
<1>5a. PICK m \in Int : m = -1
  OBVIOUS
<1>6. PICK U, H, t : U = {<<"seller_diskon", d, m>>} /\ H = {i} /\ t = "barang_di_diskon"
  OBVIOUS
<1>7. U \subseteq Perubahan
  <2>1. <<"seller_diskon", d, m>> \in Perubahan
    BY <1>5, <1>5a DEF Perubahan, Kolom, KolomOrang, KolomAmbang, KolomLain
  <2> QED BY <1>6, <2>1
<1>8. IsFiniteSet(U)
  BY <1>6, HinggaKecil
<1>9. Cocokan(DOMAIN KolomBenar, U, baris[i], Turun)
  <2>1. ASSUME NEW u \in U, u[1] \in DOMAIN KolomBenar PROVE u[3] = m /\ Menghitung(baris[i], u[1], u[2])
    <3>1. u = <<"seller_diskon", d, m>>
      BY <1>6
    <3>2. CASE u = <<"seller_diskon", d, m>>
      <4>1. u[1] = "seller_diskon" /\ u[2] = d /\ u[3] = m
        BY <3>2
      <4> QED BY <2>1, <4>1, <1>3, <1>4, Penghitungan
    <3> QED BY <3>1, <3>2
  <2>2. ASSUME NEW c \in DOMAIN KolomBenar, NEW x, Menghitung(baris[i], c, x) PROVE <<c, x, m>> \in U
    <3>0. PICK b : /\ b.tabel = "diskon_produk" /\ Menghitung(b, c, x)
                   /\ b.dari = d
      BY <2>2, <1>3, <1>4, Zenon
    <3>1. (c = "seller_diskon" /\ x = d)
      BY <3>0, Penghitungan
    <3> QED BY <1>6, <3>1
  <2> QED BY <1>5a, <2>1, <2>2 DEF Cocokan, Turun
<1>10. Cocokan(KolomOrang, U, baris[i], Turun) /\ Cocokan(KolomRujuk, U, baris[i], Turun)
  BY <1>9, CocokanBagian
<1>11. SegarHapus(baris, i, U)
  BY <1>3, <1>10 DEF SegarHapus, SegarGanti
<1>12. H \subseteq DOMAIN baris /\ Bawaan(t)
  BY <1>3, <1>6 DEF Bawaan, TabelIkut
<1>13. HapusBaca(p, i, U, H, t)
  BY <1>1, <1>4, <1>5a, <1>6
<1> QED BY <1>3, <1>7, <1>8, <1>10, <1>11, <1>12, <1>13, MintaHapus

LEMMA HapusDiskonPadaBarangMinta == ASSUME TypeInv, NEW p \in Proses, HapusDiskonPadaBarang(p) PROVE Minta(p)
<1>0. PICK i \in BarisAda("barang_di_diskon") :
        LET r == baris[i].rujuk
        IN  HapusBaca(p, i, HitungDiskon(baris[i].dari, r[1], r[2], r[3], -1), {}, "")
  BY Zenon DEF HapusDiskonPadaBarang
<1>1. HapusBaca(p, i, HitungDiskon(baris[i].dari, baris[i].rujuk[1], baris[i].rujuk[2], baris[i].rujuk[3], -1), {}, "")
  BY <1>0
<1>3. i \in DOMAIN baris /\ baris[i].tabel = "barang_di_diskon" /\ baris[i].ada
  BY DEF BarisAda, Pernah
<1>4. PICK d, g, w, y : d = baris[i].dari /\ g = baris[i].rujuk[1] /\ w = baris[i].rujuk[2] /\ y = baris[i].rujuk[3]
  OBVIOUS
<1>5. d \in Nat /\ g \in Nat /\ w \in Nat /\ y \in Nat
  BY <1>3, <1>4, BarisNat, PanjangIsi
<1>5a. PICK m \in Int : m = -1
  OBVIOUS
<1>6. PICK U, H, t : U = {<<"seller_barang_di_diskon", d, m>>, <<"barang_di_diskon", w, m>>, <<"kategori_di_diskon", y, m>>, <<"diskon_barang", g, m>>} /\ H = {} /\ t = ""
  OBVIOUS
<1>7. U \subseteq Perubahan
  <2>1. <<"seller_barang_di_diskon", d, m>> \in Perubahan
    BY <1>5, <1>5a DEF Perubahan, Kolom, KolomOrang, KolomAmbang, KolomLain
  <2>2. <<"barang_di_diskon", w, m>> \in Perubahan
    BY <1>5, <1>5a DEF Perubahan, Kolom, KolomOrang, KolomAmbang, KolomLain
  <2>3. <<"kategori_di_diskon", y, m>> \in Perubahan
    BY <1>5, <1>5a DEF Perubahan, Kolom, KolomOrang, KolomAmbang, KolomLain
  <2>4. <<"diskon_barang", g, m>> \in Perubahan
    BY <1>5, <1>5a DEF Perubahan, Kolom, KolomOrang, KolomAmbang, KolomLain
  <2> QED BY <1>6, <2>1, <2>2, <2>3, <2>4
<1>8. IsFiniteSet(U)
  BY <1>6, HinggaKecil
<1>9. Cocokan(DOMAIN KolomBenar, U, baris[i], Turun)
  <2>1. ASSUME NEW u \in U, u[1] \in DOMAIN KolomBenar PROVE u[3] = m /\ Menghitung(baris[i], u[1], u[2])
    <3>1. u = <<"seller_barang_di_diskon", d, m>> \/ u = <<"barang_di_diskon", w, m>> \/ u = <<"kategori_di_diskon", y, m>> \/ u = <<"diskon_barang", g, m>>
      BY <1>6
    <3>2. CASE u = <<"seller_barang_di_diskon", d, m>>
      <4>1. u[1] = "seller_barang_di_diskon" /\ u[2] = d /\ u[3] = m
        BY <3>2
      <4> QED BY <2>1, <4>1, KolomBebas
    <3>3. CASE u = <<"barang_di_diskon", w, m>>
      <4>1. u[1] = "barang_di_diskon" /\ u[2] = w /\ u[3] = m
        BY <3>3
      <4> QED BY <2>1, <4>1, KolomBebas
    <3>4. CASE u = <<"kategori_di_diskon", y, m>>
      <4>1. u[1] = "kategori_di_diskon" /\ u[2] = y /\ u[3] = m
        BY <3>4
      <4> QED BY <2>1, <4>1, KolomBebas
    <3>5. CASE u = <<"diskon_barang", g, m>>
      <4>1. u[1] = "diskon_barang" /\ u[2] = g /\ u[3] = m
        BY <3>5
      <4> QED BY <2>1, <4>1, <1>3, <1>4, Penghitungan
    <3> QED BY <3>1, <3>2, <3>3, <3>4, <3>5
  <2>2. ASSUME NEW c \in DOMAIN KolomBenar, NEW x, Menghitung(baris[i], c, x) PROVE <<c, x, m>> \in U
    <3>0. PICK b : /\ b.tabel = "barang_di_diskon" /\ Menghitung(b, c, x)
                   /\ b.dari = d /\ b.rujuk[1] = g
      BY <2>2, <1>3, <1>4, Zenon
    <3>1. (c = "diskon_barang" /\ x = g)
      BY <3>0, Penghitungan
    <3> QED BY <1>6, <3>1
  <2> QED BY <1>5a, <2>1, <2>2 DEF Cocokan, Turun
<1>10. Cocokan(KolomOrang, U, baris[i], Turun) /\ Cocokan(KolomRujuk, U, baris[i], Turun)
  BY <1>9, CocokanBagian
<1>11. SegarHapus(baris, i, U)
  BY <1>3, <1>10 DEF SegarHapus, SegarGanti
<1>12. H \subseteq DOMAIN baris /\ Bawaan(t)
  BY <1>3, <1>6 DEF Bawaan, TabelIkut
<1>13. HapusBaca(p, i, U, H, t)
  BY <1>1, <1>4, <1>5a, <1>6 DEF HitungDiskon
<1> QED BY <1>3, <1>7, <1>8, <1>10, <1>11, <1>12, <1>13, MintaHapus

LEMMA HapusRekeningSellerMinta == ASSUME TypeInv, NEW p \in Proses, HapusRekeningSeller(p) PROVE Minta(p)
<1>1. PICK i \in BarisAda("rekening_seller"), M \in AmbangMana("rekening_seller") :
        /\ HapusBaca(p, i, {<<"seller_rekening", baris[i].dari, -1>>}, M, "")
  BY DEF HapusRekeningSeller
<1>3. i \in DOMAIN baris /\ baris[i].tabel = "rekening_seller" /\ baris[i].ada /\ M \subseteq DOMAIN baris
  BY <1>1 DEF BarisAda, Pernah, AmbangMana
<1>4. PICK d : d = baris[i].dari
  OBVIOUS
<1>5. d \in Nat
  BY <1>3, <1>4, BarisNat, PanjangIsi
<1>5a. PICK m \in Int : m = -1
  OBVIOUS
<1>6. PICK U, H, t : U = {<<"seller_rekening", d, m>>} /\ H = M /\ t = ""
  OBVIOUS
<1>7. U \subseteq Perubahan
  <2>1. <<"seller_rekening", d, m>> \in Perubahan
    BY <1>5, <1>5a DEF Perubahan, Kolom, KolomOrang, KolomAmbang, KolomLain
  <2> QED BY <1>6, <2>1
<1>8. IsFiniteSet(U)
  BY <1>6, HinggaKecil
<1>9. Cocokan(DOMAIN KolomBenar, U, baris[i], Turun)
  <2>1. ASSUME NEW u \in U, u[1] \in DOMAIN KolomBenar PROVE u[3] = m /\ Menghitung(baris[i], u[1], u[2])
    <3>1. u = <<"seller_rekening", d, m>>
      BY <1>6
    <3>2. CASE u = <<"seller_rekening", d, m>>
      <4>1. u[1] = "seller_rekening" /\ u[2] = d /\ u[3] = m
        BY <3>2
      <4> QED BY <2>1, <4>1, <1>3, <1>4, Penghitungan
    <3> QED BY <3>1, <3>2
  <2>2. ASSUME NEW c \in DOMAIN KolomBenar, NEW x, Menghitung(baris[i], c, x) PROVE <<c, x, m>> \in U
    <3>0. PICK b : /\ b.tabel = "rekening_seller" /\ Menghitung(b, c, x)
                   /\ b.dari = d
      BY <2>2, <1>3, <1>4, Zenon
    <3>1. (c = "seller_rekening" /\ x = d)
      BY <3>0, Penghitungan
    <3> QED BY <1>6, <3>1
  <2> QED BY <1>5a, <2>1, <2>2 DEF Cocokan, Turun
<1>10. Cocokan(KolomOrang, U, baris[i], Turun) /\ Cocokan(KolomRujuk, U, baris[i], Turun)
  BY <1>9, CocokanBagian
<1>11. SegarHapus(baris, i, U)
  BY <1>3, <1>10 DEF SegarHapus, SegarGanti
<1>12. H \subseteq DOMAIN baris /\ Bawaan(t)
  BY <1>3, <1>6 DEF Bawaan, TabelIkut
<1>13. HapusBaca(p, i, U, H, t)
  BY <1>1, <1>4, <1>5a, <1>6
<1> QED BY <1>3, <1>7, <1>8, <1>10, <1>11, <1>12, <1>13, MintaHapus

LEMMA HapusAlamatGudangMinta == ASSUME TypeInv, NEW p \in Proses, HapusAlamatGudang(p) PROVE Minta(p)
<1>1. PICK i \in BarisAda("alamat_gudang") :
        /\ \A j \in BarisAda("kategori_barang") : baris[j].rujuk[2] # i
        /\ GudangBebas(i)
        /\ HapusBaca(p, i, {<<"seller_gudang", baris[i].dari, -1>>}, {i}, "")
  BY DEF HapusAlamatGudang
<1>3. i \in DOMAIN baris /\ baris[i].tabel = "alamat_gudang" /\ baris[i].ada
  BY DEF BarisAda, Pernah
<1>4. PICK d : d = baris[i].dari
  OBVIOUS
<1>5. d \in Nat
  BY <1>3, <1>4, BarisNat, PanjangIsi
<1>5a. PICK m \in Int : m = -1
  OBVIOUS
<1>6. PICK U, H, t : U = {<<"seller_gudang", d, m>>} /\ H = {i} /\ t = ""
  OBVIOUS
<1>7. U \subseteq Perubahan
  <2>1. <<"seller_gudang", d, m>> \in Perubahan
    BY <1>5, <1>5a DEF Perubahan, Kolom, KolomOrang, KolomAmbang, KolomLain
  <2> QED BY <1>6, <2>1
<1>8. IsFiniteSet(U)
  BY <1>6, HinggaKecil
<1>9. Cocokan(DOMAIN KolomBenar, U, baris[i], Turun)
  <2>1. ASSUME NEW u \in U, u[1] \in DOMAIN KolomBenar PROVE u[3] = m /\ Menghitung(baris[i], u[1], u[2])
    <3>1. u = <<"seller_gudang", d, m>>
      BY <1>6
    <3>2. CASE u = <<"seller_gudang", d, m>>
      <4>1. u[1] = "seller_gudang" /\ u[2] = d /\ u[3] = m
        BY <3>2
      <4> QED BY <2>1, <4>1, <1>3, <1>4, Penghitungan
    <3> QED BY <3>1, <3>2
  <2>2. ASSUME NEW c \in DOMAIN KolomBenar, NEW x, Menghitung(baris[i], c, x) PROVE <<c, x, m>> \in U
    <3>0. PICK b : /\ b.tabel = "alamat_gudang" /\ Menghitung(b, c, x)
                   /\ b.dari = d
      BY <2>2, <1>3, <1>4, Zenon
    <3>1. (c = "seller_gudang" /\ x = d)
      BY <3>0, Penghitungan
    <3> QED BY <1>6, <3>1
  <2> QED BY <1>5a, <2>1, <2>2 DEF Cocokan, Turun
<1>10. Cocokan(KolomOrang, U, baris[i], Turun) /\ Cocokan(KolomRujuk, U, baris[i], Turun)
  BY <1>9, CocokanBagian
<1>11. SegarHapus(baris, i, U)
  <2>1. \A j \in DOMAIN baris : Terbuka(baris[j]) => baris[j].rujuk[2] # i
    BY <1>1 DEF Terbuka, BarisAda, Pernah, GudangBebas
  <2>2. \A j \in DOMAIN baris : baris[j].ada /\ baris[j].tabel = "kategori_barang" => baris[j].rujuk[2] # i
    BY <1>1 DEF BarisAda, Pernah
  <2> QED BY <1>3, <1>10, <2>1, <2>2 DEF SegarHapus, SegarGanti
<1>12. H \subseteq DOMAIN baris /\ Bawaan(t)
  BY <1>3, <1>6 DEF Bawaan, TabelIkut
<1>13. HapusBaca(p, i, U, H, t)
  BY <1>1, <1>4, <1>5a, <1>6
<1> QED BY <1>3, <1>7, <1>8, <1>10, <1>11, <1>12, <1>13, MintaHapus

LEMMA HapusKategoriBarangMinta == ASSUME TypeInv, NEW p \in Proses, HapusKategoriBarang(p) PROVE Minta(p)
<1>1. PICK i \in BarisAda("kategori_barang") :
        /\ HapusBaca(p, i, HitungKategori(baris[i].dari, baris[i].rujuk, -1), {i}, "")
  BY DEF HapusKategoriBarang
<1>3. i \in DOMAIN baris /\ baris[i].tabel = "kategori_barang" /\ baris[i].ada
  BY DEF BarisAda, Pernah
<1>4. PICK d, g, w, y : d = baris[i].dari /\ g = baris[i].rujuk[1] /\ w = baris[i].rujuk[2] /\ y = baris[i].rujuk[3]
  OBVIOUS
<1>5. d \in Nat /\ g \in Nat /\ w \in Nat /\ y \in Nat
  BY <1>3, <1>4, BarisNat, PanjangIsi
<1>5a. PICK m \in Int : m = -1
  OBVIOUS
<1>6. PICK U, H, t : U = {<<"seller_kategori", d, m>>, <<"barang_kategori", g, m>>, <<"gudang_kategori", w, m>>, <<"rekening_kategori", y, m>>} /\ H = {i} /\ t = ""
  OBVIOUS
<1>7. U \subseteq Perubahan
  <2>1. <<"seller_kategori", d, m>> \in Perubahan
    BY <1>5, <1>5a DEF Perubahan, Kolom, KolomOrang, KolomAmbang, KolomLain
  <2>2. <<"barang_kategori", g, m>> \in Perubahan
    BY <1>5, <1>5a DEF Perubahan, Kolom, KolomOrang, KolomAmbang, KolomLain
  <2>3. <<"gudang_kategori", w, m>> \in Perubahan
    BY <1>5, <1>5a DEF Perubahan, Kolom, KolomOrang, KolomAmbang, KolomLain
  <2>4. <<"rekening_kategori", y, m>> \in Perubahan
    BY <1>5, <1>5a DEF Perubahan, Kolom, KolomOrang, KolomAmbang, KolomLain
  <2> QED BY <1>6, <2>1, <2>2, <2>3, <2>4
<1>8. IsFiniteSet(U)
  BY <1>6, HinggaKecil
<1>9. Cocokan(DOMAIN KolomBenar, U, baris[i], Turun)
  <2>1. ASSUME NEW u \in U, u[1] \in DOMAIN KolomBenar PROVE u[3] = m /\ Menghitung(baris[i], u[1], u[2])
    <3>1. u = <<"seller_kategori", d, m>> \/ u = <<"barang_kategori", g, m>> \/ u = <<"gudang_kategori", w, m>> \/ u = <<"rekening_kategori", y, m>>
      BY <1>6
    <3>2. CASE u = <<"seller_kategori", d, m>>
      <4>1. u[1] = "seller_kategori" /\ u[2] = d /\ u[3] = m
        BY <3>2
      <4> QED BY <2>1, <4>1, KolomBebas
    <3>3. CASE u = <<"barang_kategori", g, m>>
      <4>1. u[1] = "barang_kategori" /\ u[2] = g /\ u[3] = m
        BY <3>3
      <4> QED BY <2>1, <4>1, <1>3, <1>4, Penghitungan
    <3>4. CASE u = <<"gudang_kategori", w, m>>
      <4>1. u[1] = "gudang_kategori" /\ u[2] = w /\ u[3] = m
        BY <3>4
      <4> QED BY <2>1, <4>1, KolomBebas
    <3>5. CASE u = <<"rekening_kategori", y, m>>
      <4>1. u[1] = "rekening_kategori" /\ u[2] = y /\ u[3] = m
        BY <3>5
      <4> QED BY <2>1, <4>1, KolomBebas
    <3> QED BY <3>1, <3>2, <3>3, <3>4, <3>5
  <2>2. ASSUME NEW c \in DOMAIN KolomBenar, NEW x, Menghitung(baris[i], c, x) PROVE <<c, x, m>> \in U
    <3>0. PICK b : /\ b.tabel = "kategori_barang" /\ Menghitung(b, c, x)
                   /\ b.dari = d /\ b.rujuk[1] = g
      BY <2>2, <1>3, <1>4, Zenon
    <3>1. (c = "barang_kategori" /\ x = g)
      BY <3>0, Penghitungan
    <3> QED BY <1>6, <3>1
  <2> QED BY <1>5a, <2>1, <2>2 DEF Cocokan, Turun
<1>10. Cocokan(KolomOrang, U, baris[i], Turun) /\ Cocokan(KolomRujuk, U, baris[i], Turun)
  BY <1>9, CocokanBagian
<1>11. SegarHapus(baris, i, U)
  BY <1>3, <1>10 DEF SegarHapus, SegarGanti
<1>12. H \subseteq DOMAIN baris /\ Bawaan(t)
  BY <1>3, <1>6 DEF Bawaan, TabelIkut
<1>13. HapusBaca(p, i, U, H, t)
  BY <1>1, <1>4, <1>5a, <1>6 DEF HitungKategori
<1> QED BY <1>3, <1>7, <1>8, <1>10, <1>11, <1>12, <1>13, MintaHapus

LEMMA HapusDataDistributorMinta == ASSUME TypeInv, NEW p \in Proses, HapusDataDistributor(p) PROVE Minta(p)
<1>1. PICK i \in BarisAda("distributor_data") :
        /\ HapusBaca(p, i, {<<"seller_distributor", baris[i].dari, -1>>}, {i}, "")
  BY DEF HapusDataDistributor
<1>3. i \in DOMAIN baris /\ baris[i].tabel = "distributor_data" /\ baris[i].ada
  BY DEF BarisAda, Pernah
<1>4. PICK d : d = baris[i].dari
  OBVIOUS
<1>5. d \in Nat
  BY <1>3, <1>4, BarisNat, PanjangIsi
<1>5a. PICK m \in Int : m = -1
  OBVIOUS
<1>6. PICK U, H, t : U = {<<"seller_distributor", d, m>>} /\ H = {i} /\ t = ""
  OBVIOUS
<1>7. U \subseteq Perubahan
  <2>1. <<"seller_distributor", d, m>> \in Perubahan
    BY <1>5, <1>5a DEF Perubahan, Kolom, KolomOrang, KolomAmbang, KolomLain
  <2> QED BY <1>6, <2>1
<1>8. IsFiniteSet(U)
  BY <1>6, HinggaKecil
<1>9. Cocokan(DOMAIN KolomBenar, U, baris[i], Turun)
  <2>1. ASSUME NEW u \in U, u[1] \in DOMAIN KolomBenar PROVE u[3] = m /\ Menghitung(baris[i], u[1], u[2])
    <3>1. u = <<"seller_distributor", d, m>>
      BY <1>6
    <3>2. CASE u = <<"seller_distributor", d, m>>
      <4>1. u[1] = "seller_distributor" /\ u[2] = d /\ u[3] = m
        BY <3>2
      <4> QED BY <2>1, <4>1, <1>3, <1>4, Penghitungan
    <3> QED BY <3>1, <3>2
  <2>2. ASSUME NEW c \in DOMAIN KolomBenar, NEW x, Menghitung(baris[i], c, x) PROVE <<c, x, m>> \in U
    <3>0. PICK b : /\ b.tabel = "distributor_data" /\ Menghitung(b, c, x)
                   /\ b.dari = d
      BY <2>2, <1>3, <1>4, Zenon
    <3>1. (c = "seller_distributor" /\ x = d)
      BY <3>0, Penghitungan
    <3> QED BY <1>6, <3>1
  <2> QED BY <1>5a, <2>1, <2>2 DEF Cocokan, Turun
<1>10. Cocokan(KolomOrang, U, baris[i], Turun) /\ Cocokan(KolomRujuk, U, baris[i], Turun)
  BY <1>9, CocokanBagian
<1>11. SegarHapus(baris, i, U)
  BY <1>3, <1>10 DEF SegarHapus, SegarGanti
<1>12. H \subseteq DOMAIN baris /\ Bawaan(t)
  BY <1>3, <1>6 DEF Bawaan, TabelIkut
<1>13. HapusBaca(p, i, U, H, t)
  BY <1>1, <1>4, <1>5a, <1>6
<1> QED BY <1>3, <1>7, <1>8, <1>10, <1>11, <1>12, <1>13, MintaHapus

LEMMA HapusDataBrandMinta == ASSUME TypeInv, NEW p \in Proses, HapusDataBrand(p) PROVE Minta(p)
<1>1. PICK i \in BarisAda("brand_data") :
        /\ HapusBaca(p, i, {<<"seller_brand", baris[i].dari, -1>>}, {i}, "")
  BY DEF HapusDataBrand
<1>3. i \in DOMAIN baris /\ baris[i].tabel = "brand_data" /\ baris[i].ada
  BY DEF BarisAda, Pernah
<1>4. PICK d : d = baris[i].dari
  OBVIOUS
<1>5. d \in Nat
  BY <1>3, <1>4, BarisNat, PanjangIsi
<1>5a. PICK m \in Int : m = -1
  OBVIOUS
<1>6. PICK U, H, t : U = {<<"seller_brand", d, m>>} /\ H = {i} /\ t = ""
  OBVIOUS
<1>7. U \subseteq Perubahan
  <2>1. <<"seller_brand", d, m>> \in Perubahan
    BY <1>5, <1>5a DEF Perubahan, Kolom, KolomOrang, KolomAmbang, KolomLain
  <2> QED BY <1>6, <2>1
<1>8. IsFiniteSet(U)
  BY <1>6, HinggaKecil
<1>9. Cocokan(DOMAIN KolomBenar, U, baris[i], Turun)
  <2>1. ASSUME NEW u \in U, u[1] \in DOMAIN KolomBenar PROVE u[3] = m /\ Menghitung(baris[i], u[1], u[2])
    <3>1. u = <<"seller_brand", d, m>>
      BY <1>6
    <3>2. CASE u = <<"seller_brand", d, m>>
      <4>1. u[1] = "seller_brand" /\ u[2] = d /\ u[3] = m
        BY <3>2
      <4> QED BY <2>1, <4>1, <1>3, <1>4, Penghitungan
    <3> QED BY <3>1, <3>2
  <2>2. ASSUME NEW c \in DOMAIN KolomBenar, NEW x, Menghitung(baris[i], c, x) PROVE <<c, x, m>> \in U
    <3>0. PICK b : /\ b.tabel = "brand_data" /\ Menghitung(b, c, x)
                   /\ b.dari = d
      BY <2>2, <1>3, <1>4, Zenon
    <3>1. (c = "seller_brand" /\ x = d)
      BY <3>0, Penghitungan
    <3> QED BY <1>6, <3>1
  <2> QED BY <1>5a, <2>1, <2>2 DEF Cocokan, Turun
<1>10. Cocokan(KolomOrang, U, baris[i], Turun) /\ Cocokan(KolomRujuk, U, baris[i], Turun)
  BY <1>9, CocokanBagian
<1>11. SegarHapus(baris, i, U)
  BY <1>3, <1>10 DEF SegarHapus, SegarGanti
<1>12. H \subseteq DOMAIN baris /\ Bawaan(t)
  BY <1>3, <1>6 DEF Bawaan, TabelIkut
<1>13. HapusBaca(p, i, U, H, t)
  BY <1>1, <1>4, <1>5a, <1>6
<1> QED BY <1>3, <1>7, <1>8, <1>10, <1>11, <1>12, <1>13, MintaHapus

LEMMA HapusKomentarSellerMinta == ASSUME TypeInv, NEW p \in Proses, HapusKomentarSeller(p) PROVE Minta(p)
<1>1. PICK i \in BarisAda("komentar"), M \in AmbangMana("komentar") :
        /\ baris[i].dari \in Seller
        /\ HapusBaca(p, i, {<<"barang_komentar", 0, -1>>}, M, "")
  BY DEF HapusKomentarSeller
<1>3. i \in DOMAIN baris /\ baris[i].tabel = "komentar" /\ baris[i].ada /\ M \subseteq DOMAIN baris
  BY <1>1 DEF BarisAda, Pernah, AmbangMana
<1>5a. PICK m \in Int : m = -1
  OBVIOUS
<1>6. PICK U, H, t : U = {<<"barang_komentar", 0, m>>} /\ H = M /\ t = ""
  OBVIOUS
<1>7. U \subseteq Perubahan
  <2>1. <<"barang_komentar", 0, m>> \in Perubahan
    BY <1>5a DEF Perubahan, Kolom, KolomOrang, KolomAmbang, KolomLain
  <2> QED BY <1>6, <2>1
<1>8. IsFiniteSet(U)
  BY <1>6, HinggaKecil
<1>9. Cocokan(DOMAIN KolomBenar, U, baris[i], Turun)
  <2>1. ASSUME NEW u \in U, u[1] \in DOMAIN KolomBenar PROVE u[3] = m /\ Menghitung(baris[i], u[1], u[2])
    <3>1. u = <<"barang_komentar", 0, m>>
      BY <1>6
    <3>2. CASE u = <<"barang_komentar", 0, m>>
      <4>1. u[1] = "barang_komentar" /\ u[2] = 0 /\ u[3] = m
        BY <3>2
      <4> QED BY <2>1, <4>1, KolomBebas
    <3> QED BY <3>1, <3>2
  <2>2. ASSUME NEW c \in DOMAIN KolomBenar, NEW x, Menghitung(baris[i], c, x) PROVE <<c, x, m>> \in U
    BY <2>2, <1>3, Penghitungan
  <2> QED BY <1>5a, <2>1, <2>2 DEF Cocokan, Turun
<1>10. Cocokan(KolomOrang, U, baris[i], Turun) /\ Cocokan(KolomRujuk, U, baris[i], Turun)
  BY <1>9, CocokanBagian
<1>11. SegarHapus(baris, i, U)
  BY <1>3, <1>10 DEF SegarHapus, SegarGanti
<1>12. H \subseteq DOMAIN baris /\ Bawaan(t)
  BY <1>3, <1>6 DEF Bawaan, TabelIkut
<1>13. HapusBaca(p, i, U, H, t)
  BY <1>1, <1>5a, <1>6
<1> QED BY <1>3, <1>7, <1>8, <1>10, <1>11, <1>12, <1>13, MintaHapus

LEMMA HapusChildKomentarSellerMinta == ASSUME TypeInv, NEW p \in Proses, HapusChildKomentarSeller(p) PROVE Minta(p)
<1>1. PICK i \in BarisAda("komentar_child") :
        /\ baris[i].dari \in Seller
        /\ HapusBaca(p, i, {<<"komentar_child", 0, -1>>}, {}, "")
  BY DEF HapusChildKomentarSeller
<1>3. i \in DOMAIN baris /\ baris[i].tabel = "komentar_child" /\ baris[i].ada
  BY DEF BarisAda, Pernah
<1>5a. PICK m \in Int : m = -1
  OBVIOUS
<1>6. PICK U, H, t : U = {<<"komentar_child", 0, m>>} /\ H = {} /\ t = ""
  OBVIOUS
<1>7. U \subseteq Perubahan
  <2>1. <<"komentar_child", 0, m>> \in Perubahan
    BY <1>5a DEF Perubahan, Kolom, KolomOrang, KolomAmbang, KolomLain
  <2> QED BY <1>6, <2>1
<1>8. IsFiniteSet(U)
  BY <1>6, HinggaKecil
<1>9. Cocokan(DOMAIN KolomBenar, U, baris[i], Turun)
  <2>1. ASSUME NEW u \in U, u[1] \in DOMAIN KolomBenar PROVE u[3] = m /\ Menghitung(baris[i], u[1], u[2])
    <3>1. u = <<"komentar_child", 0, m>>
      BY <1>6
    <3>2. CASE u = <<"komentar_child", 0, m>>
      <4>1. u[1] = "komentar_child" /\ u[2] = 0 /\ u[3] = m
        BY <3>2
      <4> QED BY <2>1, <4>1, KolomBebas
    <3> QED BY <3>1, <3>2
  <2>2. ASSUME NEW c \in DOMAIN KolomBenar, NEW x, Menghitung(baris[i], c, x) PROVE <<c, x, m>> \in U
    BY <2>2, <1>3, Penghitungan
  <2> QED BY <1>5a, <2>1, <2>2 DEF Cocokan, Turun
<1>10. Cocokan(KolomOrang, U, baris[i], Turun) /\ Cocokan(KolomRujuk, U, baris[i], Turun)
  BY <1>9, CocokanBagian
<1>11. SegarHapus(baris, i, U)
  BY <1>3, <1>10 DEF SegarHapus, SegarGanti
<1>12. H \subseteq DOMAIN baris /\ Bawaan(t)
  BY <1>3, <1>6 DEF Bawaan, TabelIkut
<1>13. HapusBaca(p, i, U, H, t)
  BY <1>1, <1>5a, <1>6
<1> QED BY <1>3, <1>7, <1>8, <1>10, <1>11, <1>12, <1>13, MintaHapus

LEMMA HapusAlamatKurirMinta == ASSUME TypeInv, NEW p \in Proses, HapusAlamatKurir(p) PROVE Minta(p)
<1>1. PICK i \in BarisAda("alamat_kurir") :
        /\ HapusBaca(p, i, {<<"kurir_alamat", baris[i].dari, -1>>}, {}, "")
  BY DEF HapusAlamatKurir
<1>3. i \in DOMAIN baris /\ baris[i].tabel = "alamat_kurir" /\ baris[i].ada
  BY DEF BarisAda, Pernah
<1>4. PICK d : d = baris[i].dari
  OBVIOUS
<1>5. d \in Nat
  BY <1>3, <1>4, BarisNat, PanjangIsi
<1>5a. PICK m \in Int : m = -1
  OBVIOUS
<1>6. PICK U, H, t : U = {<<"kurir_alamat", d, m>>} /\ H = {} /\ t = ""
  OBVIOUS
<1>7. U \subseteq Perubahan
  <2>1. <<"kurir_alamat", d, m>> \in Perubahan
    BY <1>5, <1>5a DEF Perubahan, Kolom, KolomOrang, KolomAmbang, KolomLain
  <2> QED BY <1>6, <2>1
<1>8. IsFiniteSet(U)
  BY <1>6, HinggaKecil
<1>9. Cocokan(DOMAIN KolomBenar, U, baris[i], Turun)
  <2>1. ASSUME NEW u \in U, u[1] \in DOMAIN KolomBenar PROVE u[3] = m /\ Menghitung(baris[i], u[1], u[2])
    <3>1. u = <<"kurir_alamat", d, m>>
      BY <1>6
    <3>2. CASE u = <<"kurir_alamat", d, m>>
      <4>1. u[1] = "kurir_alamat" /\ u[2] = d /\ u[3] = m
        BY <3>2
      <4> QED BY <2>1, <4>1, <1>3, <1>4, Penghitungan
    <3> QED BY <3>1, <3>2
  <2>2. ASSUME NEW c \in DOMAIN KolomBenar, NEW x, Menghitung(baris[i], c, x) PROVE <<c, x, m>> \in U
    <3>0. PICK b : /\ b.tabel = "alamat_kurir" /\ Menghitung(b, c, x)
                   /\ b.dari = d
      BY <2>2, <1>3, <1>4, Zenon
    <3>1. (c = "kurir_alamat" /\ x = d)
      BY <3>0, Penghitungan
    <3> QED BY <1>6, <3>1
  <2> QED BY <1>5a, <2>1, <2>2 DEF Cocokan, Turun
<1>10. Cocokan(KolomOrang, U, baris[i], Turun) /\ Cocokan(KolomRujuk, U, baris[i], Turun)
  BY <1>9, CocokanBagian
<1>11. SegarHapus(baris, i, U)
  BY <1>3, <1>10 DEF SegarHapus, SegarGanti
<1>12. H \subseteq DOMAIN baris /\ Bawaan(t)
  BY <1>3, <1>6 DEF Bawaan, TabelIkut
<1>13. HapusBaca(p, i, U, H, t)
  BY <1>1, <1>4, <1>5a, <1>6
<1> QED BY <1>3, <1>7, <1>8, <1>10, <1>11, <1>12, <1>13, MintaHapus

LEMMA HapusRekeningKurirMinta == ASSUME TypeInv, NEW p \in Proses, HapusRekeningKurir(p) PROVE Minta(p)
<1>1. PICK i \in BarisAda("rekening_kurir") :
        /\ HapusBaca(p, i, {<<"kurir_rekening", 0, -1>>}, {}, "")
  BY DEF HapusRekeningKurir
<1>3. i \in DOMAIN baris /\ baris[i].tabel = "rekening_kurir" /\ baris[i].ada
  BY DEF BarisAda, Pernah
<1>5a. PICK m \in Int : m = -1
  OBVIOUS
<1>6. PICK U, H, t : U = {<<"kurir_rekening", 0, m>>} /\ H = {} /\ t = ""
  OBVIOUS
<1>7. U \subseteq Perubahan
  <2>1. <<"kurir_rekening", 0, m>> \in Perubahan
    BY <1>5a DEF Perubahan, Kolom, KolomOrang, KolomAmbang, KolomLain
  <2> QED BY <1>6, <2>1
<1>8. IsFiniteSet(U)
  BY <1>6, HinggaKecil
<1>9. Cocokan(DOMAIN KolomBenar, U, baris[i], Turun)
  <2>1. ASSUME NEW u \in U, u[1] \in DOMAIN KolomBenar PROVE u[3] = m /\ Menghitung(baris[i], u[1], u[2])
    <3>1. u = <<"kurir_rekening", 0, m>>
      BY <1>6
    <3>2. CASE u = <<"kurir_rekening", 0, m>>
      <4>1. u[1] = "kurir_rekening" /\ u[2] = 0 /\ u[3] = m
        BY <3>2
      <4> QED BY <2>1, <4>1, KolomBebas
    <3> QED BY <3>1, <3>2
  <2>2. ASSUME NEW c \in DOMAIN KolomBenar, NEW x, Menghitung(baris[i], c, x) PROVE <<c, x, m>> \in U
    BY <2>2, <1>3, Penghitungan
  <2> QED BY <1>5a, <2>1, <2>2 DEF Cocokan, Turun
<1>10. Cocokan(KolomOrang, U, baris[i], Turun) /\ Cocokan(KolomRujuk, U, baris[i], Turun)
  BY <1>9, CocokanBagian
<1>11. SegarHapus(baris, i, U)
  BY <1>3, <1>10 DEF SegarHapus, SegarGanti
<1>12. H \subseteq DOMAIN baris /\ Bawaan(t)
  BY <1>3, <1>6 DEF Bawaan, TabelIkut
<1>13. HapusBaca(p, i, U, H, t)
  BY <1>1, <1>5a, <1>6
<1> QED BY <1>3, <1>7, <1>8, <1>10, <1>11, <1>12, <1>13, MintaHapus

-----------------------------------------------------------------------------
(* The handlers that give a row another name, flag an account, or move      *)
(* categories.                                                              *)

LEMMA EditEtalaseSellerMinta == ASSUME TypeInv, NEW p \in Proses, EditEtalaseSeller(p) PROVE Minta(p)
<1>1. PICK i \in BarisAda("etalase"), n \in Nama : GantiBaca(p, i, n)
  BY DEF EditEtalaseSeller
<1>2. i \in DOMAIN baris /\ baris[i].tabel = "etalase" /\ baris[i].tabel \in TabelNama
  BY DEF BarisAda, Pernah, TabelNama
<1>3. SegarGanti(baris, i)
  BY <1>2 DEF SegarGanti
<1> QED BY <1>1, <1>2, <1>3, MintaGanti

LEMMA EditDiskonProdukMinta == ASSUME TypeInv, NEW p \in Proses, EditDiskonProduk(p) PROVE Minta(p)
<1>1. PICK i \in BarisAda("diskon_produk"), n \in Nama : ~baris[i].tanda /\ GantiBaca(p, i, n)
  BY DEF EditDiskonProduk
<1>2. i \in DOMAIN baris /\ baris[i].tabel = "diskon_produk" /\ baris[i].tabel \in TabelNama
  BY DEF BarisAda, Pernah, TabelNama
<1>3. SegarGanti(baris, i)
  BY <1>2 DEF SegarGanti
<1> QED BY <1>1, <1>2, <1>3, MintaGanti

LEMMA EditRekeningSellerMinta == ASSUME TypeInv, NEW p \in Proses, EditRekeningSeller(p) PROVE Minta(p)
<1>1. PICK i \in BarisAda("rekening_seller"), n \in Nama : GantiBaca(p, i, n)
  BY DEF EditRekeningSeller
<1>2. i \in DOMAIN baris /\ baris[i].tabel = "rekening_seller" /\ baris[i].tabel \in TabelNama
  BY DEF BarisAda, Pernah, TabelNama
<1>3. SegarGanti(baris, i)
  BY <1>2 DEF SegarGanti
<1> QED BY <1>1, <1>2, <1>3, MintaGanti

LEMMA EditAlamatGudangMinta == ASSUME TypeInv, NEW p \in Proses, EditAlamatGudang(p) PROVE Minta(p)
<1>1. PICK i \in BarisAda("alamat_gudang"), n \in Nama : GudangBebas(i) /\ GantiBaca(p, i, n)
  BY DEF EditAlamatGudang
<1>2. i \in DOMAIN baris /\ baris[i].tabel = "alamat_gudang" /\ baris[i].tabel \in TabelNama
  BY DEF BarisAda, Pernah, TabelNama
<1>3. SegarGanti(baris, i)
  <2>1. \A j \in DOMAIN baris : Terbuka(baris[j]) => baris[j].rujuk[2] # i
    BY <1>1 DEF Terbuka, BarisAda, Pernah, GudangBebas
  <2> QED BY <2>1, <1>2 DEF SegarGanti
<1> QED BY <1>1, <1>2, <1>3, MintaGanti

LEMMA EditBarangIndukMinta == ASSUME TypeInv, NEW p \in Proses, EditBarangInduk(p) PROVE Minta(p)
<1>1. PICK i \in BarisAda("barang_induk"), n \in Nama : GantiBaca(p, i, n)
  BY DEF EditBarangInduk
<1>2. i \in DOMAIN baris /\ baris[i].tabel = "barang_induk" /\ baris[i].tabel \in TabelNama
  BY DEF BarisAda, Pernah, TabelNama
<1>3. SegarGanti(baris, i)
  BY <1>2 DEF SegarGanti
<1> QED BY <1>1, <1>2, <1>3, MintaGanti

LEMMA EditAlamatPenggunaMinta == ASSUME TypeInv, NEW p \in Proses, EditAlamatPengguna(p) PROVE Minta(p)
<1>1. PICK i \in BarisAda("alamat_pengguna"), n \in Nama : AlamatBebas(i) /\ GantiBaca(p, i, n)
  BY DEF EditAlamatPengguna
<1>2. i \in DOMAIN baris /\ baris[i].tabel = "alamat_pengguna" /\ baris[i].tabel \in TabelNama
  BY DEF BarisAda, Pernah, TabelNama
<1>3. SegarGanti(baris, i)
  <2>1. \A j \in DOMAIN baris : Terbuka(baris[j]) => baris[j].rujuk[3] # i
    BY <1>1 DEF Terbuka, BarisAda, Pernah, AlamatBebas
  <2> QED BY <2>1, <1>2 DEF SegarGanti
<1> QED BY <1>1, <1>2, <1>3, MintaGanti

LEMMA SetDefaultRekeningSellerMinta ==
    ASSUME TypeInv, NEW p \in Proses, SetDefaultRekeningSeller(p) PROVE Minta(p)
<1>1. PICK i \in BarisAda("rekening_seller") : TandaiBaca(p, i)
  BY DEF SetDefaultRekeningSeller
<1>2. i \in DOMAIN baris /\ baris[i].tabel = "rekening_seller"
  BY DEF BarisAda, Pernah
<1> QED BY <1>1, <1>2, MintaTandai

\* A seller's row, and a category or a product of that seller.
LEMMA MilikIsi ==
    ASSUME NEW t, NEW o, NEW i \in Milik(t, o)
    PROVE  i \in DOMAIN baris /\ baris[i].tabel = t /\ baris[i].ada /\ baris[i].dari = o
BY DEF Milik, BarisAda, Pernah

LEMMA AdaIsi ==
    ASSUME NEW t, NEW i \in BarisAda(t)
    PROVE  i \in DOMAIN baris /\ baris[i].tabel = t /\ baris[i].ada
BY DEF BarisAda, Pernah

LEMMA KategoriIsi ==
    ASSUME NEW b, NEW k \in KategoriDari(b)
    PROVE  k \in DOMAIN baris /\ baris[k].tabel = "kategori_barang" /\ baris[k].ada /\ baris[k].rujuk[1] = b
BY DEF KategoriDari, BarisAda, Pernah

LEMMA EditAlamatGudangBarangKategoriMinta ==
    ASSUME TypeInv, NEW p \in Proses, EditAlamatGudangBarangKategori(p) PROVE Minta(p)
<1>0. PICK k \in BarisAda("kategori_barang") : \E g \in Milik("alamat_gudang", baris[k].dari) :
        PindahBaca(p, {k}, g, [LatarKosong EXCEPT !.ubah =
               {<<"gudang_kategori", baris[k].rujuk[2], -1>>, <<"gudang_kategori", g, 1>>}])
  BY DEF EditAlamatGudangBarangKategori
<1>1. PICK g \in Milik("alamat_gudang", baris[k].dari) :
        PindahBaca(p, {k}, g, [LatarKosong EXCEPT !.ubah =
               {<<"gudang_kategori", baris[k].rujuk[2], -1>>, <<"gudang_kategori", g, 1>>}])
  BY <1>0
<1>2. /\ k \in DOMAIN baris /\ baris[k].tabel = "kategori_barang" /\ baris[k].ada
      /\ g \in DOMAIN baris /\ baris[g].tabel = "alamat_gudang" /\ baris[g].ada /\ baris[g].dari = baris[k].dari
  BY AdaIsi, MilikIsi
<1>3. PICK h : h = baris[k].rujuk[2]
  OBVIOUS
<1>4. PICK m \in Int, n \in Int : m = -1 /\ n = 1
  OBVIOUS
<1>5. h \in Nat /\ g \in Nat
  BY <1>2, <1>3, BarisNat, PanjangIsi
<1>6. PICK U, l, e, d, w : /\ d = <<"gudang_kategori", h, m>> /\ e = <<"gudang_kategori", g, n>> /\ U = {d, e}
                        /\ l = [LatarKosong EXCEPT !.ubah = U] /\ w = {}
  OBVIOUS
<1>7. d \in Perubahan /\ e \in Perubahan /\ d[1] = "gudang_kategori" /\ e[1] = "gudang_kategori"
  BY <1>5, <1>6 DEF Perubahan, Kolom, KolomAmbang
<1>8. U \subseteq Perubahan /\ IsFiniteSet(U)
  BY <1>6, <1>7, HinggaKecil
<1>9. IsiLatar(l, U, w)
  BY <1>6 DEF LatarKosong, IsiLatar
<1>10. DOMAIN baris = 1 .. Len(baris) /\ Len(baris) \in Nat
  BY BarisDomain DEF TypeInv
<1>11. BagianLatar(Len(baris), U, w)
  BY <1>6, <1>8, <1>10 DEF BagianLatar
<1>12. LatarSah(baris, l) /\ l.ubah = U /\ l.kali = {} /\ l.buat = {} /\ l.aktif = 0
  BY <1>9, <1>11, RekamLatar
<1>13. l.barang = 0
  BY <1>9 DEF IsiLatar
<1>14. \A u \in l.ubah : u[1] \in KolomKali
  BY <1>6, <1>7, <1>12 DEF KolomKali
<1>15. ASSUME NEW r, r.id = g, r.pilih = {k}, r.latar = l PROVE SegarPindah(baris, r)
  <2>1. ASSUME NEW j \in Pindah(baris, r) PROVE j = k
    <3>1. j \in DOMAIN baris /\ baris[j].tabel = "kategori_barang" /\ (j \in {k} \/ baris[j].rujuk[1] = 0)
      BY <1>13, <1>15 DEF Pindah
    <3>2. baris[j].rujuk[1] \in 1 .. Len(baris)
      BY <3>1, BarisNat, PanjangIsi
    <3>3. baris[j].rujuk[1] # 0
      BY <3>2
    <3> QED BY <3>1, <3>3
  <2> QED BY <1>2, <1>15, <2>1 DEF SegarPindah
<1>16. {k} \subseteq DOMAIN baris /\ baris[g].tabel \in {"alamat_gudang", "rekening_seller"}
  BY <1>2
<1>17. PindahBaca(p, {k}, g, l)
  BY <1>1, <1>3, <1>4, <1>6
<1> QED BY <1>2, <1>12, <1>14, <1>15, <1>16, <1>17, MintaPindah

\* A goroutine that moves counters by the number of categories of product b.
IsiKali(l, U, V, b) == l = [ubah |-> U, kali |-> V, barang |-> b, buat |-> {}, buang |-> {}, aktif |-> 0]
BagianKali(n, U, V, b) ==
    /\ n \in Nat /\ U \subseteq Perubahan /\ IsFiniteSet(U) /\ V \subseteq Perubahan /\ IsFiniteSet(V) /\ b \in 0 .. n
    /\ \A u \in U \cup V : u[1] \in KolomKali

LEMMA RekamKali ==
    ASSUME NEW b, NEW U, NEW V, NEW k, NEW l, BagianKali(Len(b), U, V, k), IsiKali(l, U, V, k)
    PROVE  LatarSah(b, l) /\ l.ubah = U /\ l.kali = V /\ l.barang = k /\ l.buat = {} /\ l.aktif = 0
<1>1. l \in TipeLatar(Len(b))
  BY DEF TipeLatar, IsiKali, BagianKali
<1>2. l.ubah = U /\ l.kali = V /\ l.barang = k /\ l.buat = {} /\ l.aktif = 0
  BY DEF IsiKali
<1> QED BY <1>1, <1>2 DEF LatarSah, BagianKali

\* All categories of a product, which are its seller's, to a row of that seller.
LEMMA PindahInduk ==
    ASSUME TypeInv, NEW b \in BarisAda("barang_induk"), NEW g \in DOMAIN baris, baris[g].ada,
           baris[g].dari = baris[b].dari, NEW r, r.id = g, r.pilih = {}, r.latar.barang = b
    PROVE  SegarPindah(baris, r)
<1>1. ASSUME NEW j \in Pindah(baris, r) PROVE baris[j].dari = baris[g].dari
  <2>1. j \in DOMAIN baris /\ baris[j].tabel = "kategori_barang" /\ baris[j].rujuk[1] = b
    BY DEF Pindah
  <2>2. Rujukan(baris, baris[j])
    BY <2>1, BarisNat
  <2> QED BY <2>1, <2>2 DEF Rujukan
<1> QED BY <1>1 DEF SegarPindah

LEMMA EditRekeningBarangIndukMinta ==
    ASSUME TypeInv, NEW p \in Proses, EditRekeningBarangInduk(p) PROVE Minta(p)
<1>0. PICK b \in BarisAda("barang_induk") : \E g \in Milik("rekening_seller", baris[b].dari) :
        LET lama == {baris[k].rujuk[3] : k \in KategoriDari(b)}
        IN  \E s \in IF lama = {} THEN {0} ELSE lama :
                PindahBaca(p, {}, g, [LatarKosong EXCEPT !.barang = b,
                    !.kali = {<<"rekening_kategori", s, -1>>, <<"rekening_kategori", g, 1>>}])
  BY Zenon DEF EditRekeningBarangInduk
<1>1. PICK g \in Milik("rekening_seller", baris[b].dari) :
        LET lama == {baris[k].rujuk[3] : k \in KategoriDari(b)}
        IN  \E s \in IF lama = {} THEN {0} ELSE lama :
                PindahBaca(p, {}, g, [LatarKosong EXCEPT !.barang = b,
                    !.kali = {<<"rekening_kategori", s, -1>>, <<"rekening_kategori", g, 1>>}])
  BY <1>0, Zenon
<1>3. PICK s : /\ s = 0 \/ \E k \in KategoriDari(b) : s = baris[k].rujuk[3]
               /\ PindahBaca(p, {}, g, [LatarKosong EXCEPT !.barang = b,
                    !.kali = {<<"rekening_kategori", s, -1>>, <<"rekening_kategori", g, 1>>}])
  <2> DEFINE lama == {baris[k].rujuk[3] : k \in KategoriDari(b)}
  <2>1. PICK s \in IF lama = {} THEN {0} ELSE lama :
                PindahBaca(p, {}, g, [LatarKosong EXCEPT !.barang = b,
                    !.kali = {<<"rekening_kategori", s, -1>>, <<"rekening_kategori", g, 1>>}])
    BY <1>1
  <2>2. s = 0 \/ s \in lama
    BY <2>1
  <2> QED BY <2>1, <2>2
<1>5. /\ g \in DOMAIN baris /\ baris[g].tabel = "rekening_seller" /\ baris[g].ada /\ baris[g].dari = baris[b].dari
      /\ b \in DOMAIN baris
  BY AdaIsi, MilikIsi
<1>6. s \in Nat /\ g \in Nat
  <2>1. \A k \in KategoriDari(b) : k \in DOMAIN baris /\ baris[k].tabel = "kategori_barang"
    BY KategoriIsi
  <2>2. s = 0 \/ s \in Nat
    BY <1>3, <2>1, BarisNat, PanjangIsi
  <2> QED BY <1>5, <2>2, BarisNat
<1>7. PICK m \in Int, n \in Int : m = -1 /\ n = 1
  OBVIOUS
<1>8. PICK d, e, V, l, w : /\ d = <<"rekening_kategori", s, m>> /\ e = <<"rekening_kategori", g, n>> /\ V = {d, e}
                           /\ l = [[LatarKosong EXCEPT !.barang = b] EXCEPT !.kali = V] /\ w = {}
  OBVIOUS
<1>9. d \in Perubahan /\ e \in Perubahan
  BY <1>6, <1>7, <1>8 DEF Perubahan, Kolom, KolomAmbang
<1>10. V \subseteq Perubahan /\ IsFiniteSet(V) /\ \A u \in V : u[1] = "rekening_kategori"
  <2>1. V \subseteq Perubahan /\ IsFiniteSet(V)
    BY <1>8, <1>9, HinggaKecil
  <2>2. d[1] = "rekening_kategori" /\ e[1] = "rekening_kategori" /\ \A u \in V : u = d \/ u = e
    BY <1>8
  <2> QED BY <2>1, <2>2
<1>11. IsiKali(l, w, V, b)
  BY <1>8 DEF LatarKosong, IsiKali
<1>12. Len(baris) \in Nat /\ b \in 0 .. Len(baris)
  BY <1>5, BarisNat
<1>13. BagianKali(Len(baris), w, V, b)
  BY <1>8, <1>10, <1>12, FS_EmptySet DEF BagianKali, KolomKali
<1>14. LatarSah(baris, l) /\ l.ubah = w /\ l.kali = V /\ l.buat = {} /\ l.aktif = 0 /\ l.barang = b
  BY <1>11, <1>13, RekamKali
<1>15. ASSUME NEW r, r.id = g, r.pilih = {}, r.latar = l PROVE SegarPindah(baris, r)
  BY <1>5, <1>14, <1>15, PindahInduk
<1>16. {} \subseteq DOMAIN baris /\ baris[g].tabel \in {"alamat_gudang", "rekening_seller"}
  BY <1>5
<1>17. PindahBaca(p, {}, g, l)
  BY <1>3, <1>7, <1>8
<1>18. \A u \in l.ubah : u[1] \in KolomKali
  BY <1>8, <1>14
<1>19. PICK K : K = {}
  OBVIOUS
<1>20. /\ K \subseteq DOMAIN baris /\ PindahBaca(p, K, g, l)
       /\ \A r : r.id = g /\ r.pilih = K /\ r.latar = l /\ tertib /\ Tenang => SegarPindah(baris, r)
  BY <1>15, <1>16, <1>17, <1>19
<1> QED BY <1>5, <1>14, <1>16, <1>18, <1>20, MintaPindah

\* The counters of what categories refer to, one less for each of them.
LEMMA KurangiSah ==
    ASSUME TypeInv, NEW b, NEW S, S \subseteq KategoriDari(b), NEW c \in KolomKali, NEW q \in {2, 3}
    PROVE  /\ Kurangi(S, c, q) \subseteq Perubahan /\ IsFiniteSet(Kurangi(S, c, q))
           /\ \A u \in Kurangi(S, c, q) : u[1] = c
           /\ IsFiniteSet(S) /\ Cardinality(S) \in Nat
<1> DEFINE Lama(h) == {k \in S : baris[k].rujuk[q] = h}
           G == {baris[k].rujuk[q] : k \in S}
           U == {<<c, h, -Cardinality(Lama(h))>> : h \in G}
           f == [h \in G |-> <<c, h, -Cardinality(Lama(h))>>]
           e == [k \in S |-> baris[k].rujuk[q]]
<1>1. \A k \in S : k \in DOMAIN baris /\ baris[k].tabel = "kategori_barang"
  BY KategoriIsi
<1>2. IsFiniteSet(S) /\ Cardinality(S) \in Nat
  <2>1. IsFiniteSet(DOMAIN baris)
    BY BarisDomain, FS_Interval DEF TypeInv
  <2>2. IsFiniteSet(S)
    BY <1>1, <2>1, FS_Subset
  <2> QED BY <2>2, FS_CardinalityType
<1>3. \A h \in G : h \in Nat
  BY <1>1, BarisNat, PanjangIsi
<1>4. \A h : Cardinality(Lama(h)) \in Nat
  <2>1. \A h : Lama(h) \subseteq S
    OBVIOUS
  <2> HIDE DEF Lama
  <2> QED BY <1>2, <2>1, FS_Subset, FS_CardinalityType
<1>5. Kurangi(S, c, q) = U
  BY DEF Kurangi
<1>6. IsFiniteSet(G)
  <2>1. e \in [S -> G] /\ \A h \in G : \E k \in S : e[k] = h
    OBVIOUS
  <2> HIDE DEF e, G
  <2> QED BY <1>2, <2>1, CitraHingga
<1>7. IsFiniteSet(U)
  <2>1. f \in [G -> U] /\ \A t \in U : \E h \in G : f[h] = t
    OBVIOUS
  <2> HIDE DEF f, G, U
  <2> QED BY <1>6, <2>1, CitraHingga
<1>8. ASSUME NEW u \in U PROVE u \in Perubahan /\ u[1] = c
  <2>1. PICK h \in G : u = <<c, h, -Cardinality(Lama(h))>>
    OBVIOUS
  <2>2. PICK n \in Nat : n = Cardinality(Lama(h))
    BY <1>4
  <2>3. PICK m \in Int : m = -n
    OBVIOUS
  <2>4. u = <<c, h, m>> /\ h \in Nat
    BY <2>1, <2>2, <2>3, <1>3
  <2> HIDE DEF Lama, G, U
  <2>5. c \in Kolom
    BY DEF KolomKali, Kolom, KolomAmbang
  <2> QED BY <2>4, <2>5 DEF Perubahan
<1> HIDE DEF U
<1> QED BY <1>2, <1>5, <1>7, <1>8

LEMMA BatasiIsi == ASSUME NEW K, NEW n, NEW S \in Batasi(K, n) PROVE S \subseteq K
BY DEF Batasi

LEMMA EditAlamatGudangBarangIndukMinta ==
    ASSUME TypeInv, NEW p \in Proses, EditAlamatGudangBarangInduk(p) PROVE Minta(p)
<1>0. PICK b \in BarisAda("barang_induk") : \E g \in Milik("alamat_gudang", baris[b].dari) :
        LET K == KategoriDari(b)
            n == Isi(<<"barang_kategori", b>>)
        IN  \E S \in Batasi(K, IF n = 0 THEN 1 ELSE n) :
                PindahBaca(p, {}, g, [LatarKosong EXCEPT !.barang = b,
                    !.ubah = Kurangi(S, "gudang_kategori", 2),
                    !.kali = {<<"gudang_kategori", g, 1>>}])
  BY Zenon DEF EditAlamatGudangBarangInduk
<1>1. PICK g \in Milik("alamat_gudang", baris[b].dari) :
        LET K == KategoriDari(b)
            n == Isi(<<"barang_kategori", b>>)
        IN  \E S \in Batasi(K, IF n = 0 THEN 1 ELSE n) :
                PindahBaca(p, {}, g, [LatarKosong EXCEPT !.barang = b,
                    !.ubah = Kurangi(S, "gudang_kategori", 2),
                    !.kali = {<<"gudang_kategori", g, 1>>}])
  BY <1>0, Zenon
<1>2. PICK S : /\ S \subseteq KategoriDari(b)
               /\ PindahBaca(p, {}, g, [LatarKosong EXCEPT !.barang = b,
                    !.ubah = Kurangi(S, "gudang_kategori", 2),
                    !.kali = {<<"gudang_kategori", g, 1>>}])
  BY <1>1, BatasiIsi
<1>4. /\ g \in DOMAIN baris /\ baris[g].tabel = "alamat_gudang" /\ baris[g].ada /\ baris[g].dari = baris[b].dari
      /\ b \in DOMAIN baris
  BY AdaIsi, MilikIsi
<1>5. g \in Nat /\ Len(baris) \in Nat /\ b \in 0 .. Len(baris)
  BY <1>4, BarisNat
<1>6. PICK n \in Int : n = 1
  OBVIOUS
<1>7. PICK U, e, V : U = Kurangi(S, "gudang_kategori", 2) /\ e = <<"gudang_kategori", g, n>> /\ V = {e}
  OBVIOUS
<1>8. PICK l, W : l = [[[LatarKosong EXCEPT !.barang = b] EXCEPT !.ubah = U] EXCEPT !.kali = V] /\ W = {}
  OBVIOUS
<1>9. IsiKali(l, U, V, b)
  BY <1>8 DEF LatarKosong, IsiKali
<1>10. "gudang_kategori" \in KolomKali
  BY DEF KolomKali
<1>11. U \subseteq Perubahan /\ IsFiniteSet(U) /\ \A u \in U : u[1] \in KolomKali
  BY <1>2, <1>7, <1>10, KurangiSah
<1>12. V \subseteq Perubahan /\ IsFiniteSet(V) /\ \A u \in V : u[1] \in KolomKali
  <2>1. e \in Perubahan /\ e[1] \in KolomKali
    BY <1>5, <1>6, <1>7, <1>10 DEF Perubahan, Kolom, KolomAmbang
  <2> QED BY <1>7, <2>1, HinggaKecil
<1>13. BagianKali(Len(baris), U, V, b)
  BY <1>5, <1>11, <1>12 DEF BagianKali
<1>14. LatarSah(baris, l) /\ l.ubah = U /\ l.kali = V /\ l.barang = b /\ l.buat = {} /\ l.aktif = 0
  BY <1>9, <1>13, RekamKali
<1>15. \A r : r.id = g /\ r.pilih = W /\ r.latar = l => SegarPindah(baris, r)
  BY <1>4, <1>8, <1>14, PindahInduk
<1>16. PindahBaca(p, W, g, l)
  BY <1>2, <1>6, <1>7, <1>8
<1>17. W \subseteq DOMAIN baris /\ baris[g].tabel \in {"alamat_gudang", "rekening_seller"}
  BY <1>4, <1>8
<1> QED BY <1>4, <1>11, <1>14, <1>15, <1>16, <1>17, MintaPindah

-----------------------------------------------------------------------------
(* A product with its categories, and its deletion.                         *)

LEMMA MasukanBarangIndukMinta == ASSUME TypeInv, NEW p \in Proses, MasukanBarangInduk(p) PROVE Minta(p)
<1>1. PICK o \in Seller, k \in Nama, g \in Pernah("alamat_gudang"), y \in Pernah("rekening_seller"), m \in 1 .. MaxBaris :
        MasukanBaca(p, Baris("barang_induk", o, k, << >>), [banyak |-> m, gudang |-> g, rekening |-> y],
                    {<<"seller_barang_induk", o, 1>>, <<"seller_kategori", o, m>>,
                     <<"gudang_kategori", g, m>>, <<"rekening_kategori", y, m>>})
  BY DEF MasukanBarangInduk
<1>2. PICK n \in Nat : n = Len(baris)
  BY BarisDomain DEF TypeInv
<1>3. /\ g \in 1 .. n /\ g \in Nat /\ baris[g].tabel = "alamat_gudang"
      /\ y \in 1 .. n /\ y \in Nat /\ baris[y].tabel = "rekening_seller"
  <2>1. g \in DOMAIN baris /\ y \in DOMAIN baris /\ baris[g].tabel = "alamat_gudang" /\ baris[y].tabel = "rekening_seller"
    BY DEF Pernah
  <2> QED BY <1>2, <2>1, BarisNat
<1>4. m \in Nat
  BY RelasiAssumption DEF RelasiAssumption
<1>5. PICK r, U, a : /\ r = Baris("barang_induk", o, k, << >>) /\ a = [banyak |-> m, gudang |-> g, rekening |-> y]
                     /\ U = {<<"seller_barang_induk", o, 1>>, <<"seller_kategori", o, m>>,
                             <<"gudang_kategori", g, m>>, <<"rekening_kategori", y, m>>}
  OBVIOUS
<1>6. /\ r.tabel = "barang_induk" /\ r.dari = o /\ r.ada /\ Len(r.rujuk) = 0 /\ r \in TipeBaris(n)
  <2>1. << >> \in Seq(1 .. n) /\ Len(<< >>) = 0 /\ "barang_induk" \in Tabel
    BY <1>2, UrutKosong DEF Tabel, BerAmbang
  <2> QED BY <1>1, <1>2, <1>5, <2>1 DEF Baris, TipeBaris
<1>7. Rujukan(baris, r)
  BY <1>6, PanjangIsi DEF Rujukan, TabelNama
<1>8. a \in TipeAnak(n) /\ a.gudang = g /\ a.rekening = y /\ a.gudang # 0 /\ a.rekening # 0
  BY <1>3, <1>4, <1>5 DEF TipeAnak
<1>9. U \subseteq Perubahan
  <2>1. <<"seller_barang_induk", o, 1>> \in Perubahan
    BY <1>1, Id DEF Perubahan, Kolom, KolomOrang
  <2>2. <<"seller_kategori", o, m>> \in Perubahan
    BY <1>1, <1>4, Id DEF Perubahan, Kolom, KolomLain
  <2>3. <<"gudang_kategori", g, m>> \in Perubahan
    BY <1>3, <1>4 DEF Perubahan, Kolom, KolomAmbang
  <2>4. <<"rekening_kategori", y, m>> \in Perubahan
    BY <1>3, <1>4 DEF Perubahan, Kolom, KolomAmbang
  <2> QED BY <1>5, <2>1, <2>2, <2>3, <2>4
<1>10. IsFiniteSet(U)
  BY <1>5, HinggaKecil
<1>11. Cocokan(DOMAIN KolomBenar, U, r, Naik)
  <2>1. ASSUME NEW u \in U, u[1] \in DOMAIN KolomBenar PROVE u[3] = 1 /\ Menghitung(r, u[1], u[2])
    <3>1. \/ u = <<"seller_barang_induk", o, 1>> \/ u = <<"seller_kategori", o, m>>
          \/ u = <<"gudang_kategori", g, m>> \/ u = <<"rekening_kategori", y, m>>
      BY <1>5
    <3>2. u[1] \notin {"seller_kategori", "gudang_kategori", "rekening_kategori"}
      BY <2>1, KolomBebas
    <3>3. u[1] = "seller_barang_induk" /\ u[2] = o /\ u[3] = 1
      BY <3>1, <3>2
    <3> QED BY <2>1, <3>3, <1>6, Penghitungan
  <2>2. ASSUME NEW c \in DOMAIN KolomBenar, NEW x, Menghitung(r, c, x) PROVE <<c, x, 1>> \in U
    <3>1. r.tabel = "barang_induk" /\ r.dari = o
      BY <1>6
    <3>2. c = "seller_barang_induk" /\ x = o
      BY <2>2, <3>1, Penghitungan
    <3> QED BY <1>5, <3>2
  <2> QED BY <2>1, <2>2 DEF Cocokan, Naik
<1>12. MasukanBaca(p, r, a, U) /\ r \in TipeBaris(Len(baris)) /\ a \in TipeAnak(Len(baris))
  BY <1>1, <1>2, <1>5, <1>6, <1>8
<1>13. baris[a.gudang].tabel = "alamat_gudang" /\ baris[a.rekening].tabel = "rekening_seller"
  BY <1>3, <1>8
<1> QED BY <1>6, <1>7, <1>8, <1>9, <1>10, <1>11, <1>12, <1>13, MintaMasukan

LEMMA HapusBarangIndukMinta == ASSUME TypeInv, NEW p \in Proses, HapusBarangInduk(p) PROVE Minta(p)
<1>1. PICK i \in BarisAda("barang_induk"), y \in ambang \cap Pernah("barang_induk") :
        \E S \in Batasi(KategoriDari(i), Isi(<<"barang_kategori", y>>)) :
            HapusBaca(p, i, {<<"seller_barang_induk", baris[i].dari, -1>>,
                             <<"seller_kategori", baris[i].dari, -Cardinality(S)>>}
                            \cup Kurangi(S, "gudang_kategori", 2) \cup Kurangi(S, "rekening_kategori", 3),
                      {i} \cup S, "kategori_barang")
  BY DEF HapusBarangInduk
<1>2. PICK S : /\ S \subseteq KategoriDari(i)
               /\ HapusBaca(p, i, {<<"seller_barang_induk", baris[i].dari, -1>>,
                             <<"seller_kategori", baris[i].dari, -Cardinality(S)>>}
                            \cup Kurangi(S, "gudang_kategori", 2) \cup Kurangi(S, "rekening_kategori", 3),
                      {i} \cup S, "kategori_barang")
  BY <1>1, BatasiIsi
<1>3. i \in DOMAIN baris /\ baris[i].tabel = "barang_induk" /\ baris[i].ada
  BY AdaIsi
<1>4. PICK o, A, B : /\ o = baris[i].dari /\ A = Kurangi(S, "gudang_kategori", 2)
                     /\ B = Kurangi(S, "rekening_kategori", 3)
  OBVIOUS
<1>5. /\ A \subseteq Perubahan /\ IsFiniteSet(A) /\ B \subseteq Perubahan /\ IsFiniteSet(B)
      /\ \A u \in A : u[1] = "gudang_kategori"
      /\ \A u \in B : u[1] = "rekening_kategori"
      /\ Cardinality(S) \in Nat
  <2>1. "gudang_kategori" \in KolomKali /\ "rekening_kategori" \in KolomKali
    BY DEF KolomKali
  <2>2. A \subseteq Perubahan /\ IsFiniteSet(A) /\ (\A u \in A : u[1] = "gudang_kategori") /\ Cardinality(S) \in Nat
    BY <1>2, <1>4, <2>1, KurangiSah
  <2>3. B \subseteq Perubahan /\ IsFiniteSet(B) /\ (\A u \in B : u[1] = "rekening_kategori")
    BY <1>2, <1>4, <2>1, KurangiSah
  <2> QED BY <2>2, <2>3
<1>6. PICK m \in Int, n \in Int : m = -1 /\ n = -Cardinality(S)
  BY <1>5
<1>7. o \in Nat
  BY <1>3, <1>4, BarisNat
<1>8. PICK d, e, C, U, H, t : /\ d = <<"seller_barang_induk", o, m>> /\ e = <<"seller_kategori", o, n>> /\ C = {d, e}
                              /\ U = C \cup A \cup B /\ H = {i} \cup S /\ t = "kategori_barang"
  OBVIOUS
<1>9. d \in Perubahan /\ e \in Perubahan
  BY <1>7, <1>8 DEF Perubahan, Kolom, KolomOrang, KolomLain
<1>10. U \subseteq Perubahan
  BY <1>5, <1>8, <1>9
<1>11. IsFiniteSet(U)
  <2>1. IsFiniteSet(C)
    BY <1>8, HinggaKecil
  <2> QED BY <1>5, <1>8, <2>1, FS_Union
<1>12. Cocokan(DOMAIN KolomBenar, U, baris[i], Turun)
  <2>1. ASSUME NEW u \in U, u[1] \in DOMAIN KolomBenar PROVE u[3] = m /\ Menghitung(baris[i], u[1], u[2])
    <3>1. u[1] \notin {"seller_kategori", "gudang_kategori", "rekening_kategori"}
      BY <2>1, KolomBebas
    <3>2. u = d
      BY <1>5, <1>8, <3>1
    <3>3. u[1] = "seller_barang_induk" /\ u[2] = o /\ u[3] = m
      BY <3>2, <1>8
    <3> QED BY <2>1, <3>3, <1>3, <1>4, Penghitungan
  <2>2. ASSUME NEW c \in DOMAIN KolomBenar, NEW x, Menghitung(baris[i], c, x) PROVE <<c, x, m>> \in U
    <3>1. PICK b : b.tabel = "barang_induk" /\ Menghitung(b, c, x) /\ b.dari = o
      BY <2>2, <1>3, <1>4, Zenon
    <3>2. c = "seller_barang_induk" /\ x = o
      BY <3>1, Penghitungan
    <3> QED BY <1>8, <3>2
  <2> QED BY <1>6, <2>1, <2>2 DEF Cocokan, Turun
<1>13. Cocokan(KolomOrang, U, baris[i], Turun) /\ Cocokan(KolomRujuk, U, baris[i], Turun)
  BY <1>12, CocokanBagian
<1>14. SegarHapus(baris, i, U)
  BY <1>3, <1>13 DEF SegarHapus, SegarGanti
<1>15. H \subseteq DOMAIN baris /\ Bawaan(t)
  <2>1. S \subseteq DOMAIN baris
    BY <1>2, KategoriIsi
  <2> QED BY <2>1, <1>3, <1>8 DEF Bawaan, TabelIkut
<1>16. HapusBaca(p, i, U, H, t)
  BY <1>2, <1>4, <1>6, <1>8
<1> QED BY <1>3, <1>10, <1>11, <1>13, <1>14, <1>15, <1>16, MintaHapus

-----------------------------------------------------------------------------
(* Bills and orders.                                                        *)

\* No counter is told of bills and orders.
LEMMA TagihanDiam ==
    ASSUME NEW r, r.tabel \in {"tagihan", "pesanan"}
    PROVE  /\ Cocokan(DOMAIN KolomBenar, {}, r, Naik)
           /\ SegarBuat(baris, r) /\ {} \subseteq Perubahan /\ IsFiniteSet({})
<1>1. \A c \in DOMAIN KolomBenar, x \in Nat : ~Menghitung(r, c, x)
  BY Penghitungan
<1>2. Cocokan(DOMAIN KolomBenar, {}, r, Naik)
  BY <1>1 DEF Cocokan
<1> QED BY <1>2, FS_EmptySet DEF SegarBuat, Sama, Tunggal, Terbatas

LEMMA SnapTransaksiMinta == ASSUME TypeInv, NEW p \in Proses, SnapTransaksi(p) PROVE Minta(p)
<1>1. PICK k \in Pernah("kategori_barang"), g \in BarisAda("alamat_gudang"), a \in Pernah("alamat_pengguna") :
        BuatBaca(p, Baris("tagihan", baris[a].dari, 0, <<k, g, a>>), {})
  BY DEF SnapTransaksi
<1>2. PICK n \in Nat : n = Len(baris)
  BY BarisDomain DEF TypeInv
<1>3. /\ k \in 1 .. n /\ baris[k].tabel = "kategori_barang" /\ g \in 1 .. n /\ baris[g].tabel = "alamat_gudang"
      /\ a \in 1 .. n /\ baris[a].tabel = "alamat_pengguna" /\ a \in DOMAIN baris
  <2>1. /\ k \in DOMAIN baris /\ g \in DOMAIN baris /\ a \in DOMAIN baris
        /\ baris[k].tabel = "kategori_barang" /\ baris[g].tabel = "alamat_gudang" /\ baris[a].tabel = "alamat_pengguna"
    BY DEF Pernah, BarisAda
  <2> QED BY <1>2, <2>1, BarisNat
<1>4. PICK r, U, d : r = Baris("tagihan", d, 0, <<k, g, a>>) /\ U = {} /\ d = baris[a].dari
  OBVIOUS
<1>5. d \in Pengguna \cup Seller \cup Kurir
  BY <1>3, <1>4, BarisNat
<1>6. /\ r.tabel = "tagihan" /\ r.ada /\ r.rujuk = <<k, g, a>> /\ Len(r.rujuk) = 3 /\ r \in TipeBaris(n)
  <2>1. <<k, g, a>> \in Seq(1 .. n) /\ Len(<<k, g, a>>) = 3 /\ "tagihan" \in Tabel
    BY <1>2, <1>3, UrutKecil DEF Tabel
  <2> QED BY <1>4, <1>5, <2>1 DEF Baris, TipeBaris
<1>7. Rujukan(baris, r)
  <2>1. r.tabel = "tagihan" /\ Len(r.rujuk) = Panjang(r.tabel) /\ r.rujuk[1] = k /\ r.rujuk[2] = g /\ r.rujuk[3] = a
    BY <1>6, PanjangIsi
  <2> QED BY <2>1, <1>3 DEF Rujukan
<1>8. Cocokan(DOMAIN KolomBenar, U, r, Naik) /\ SegarBuat(baris, r) /\ U \subseteq Perubahan /\ IsFiniteSet(U)
  BY <1>4, <1>6, TagihanDiam
<1>9. BuatBaca(p, r, U) /\ r \in TipeBaris(Len(baris))
  BY <1>1, <1>2, <1>4, <1>6
<1> QED BY <1>6, <1>7, <1>8, <1>9, MintaBuat

LEMMA TambahTiga == ASSUME NEW T, NEW q \in Seq(T), Len(q) = 3, NEW i \in T PROVE
    LET s == Append(q, i) IN s \in Seq(T) /\ Len(s) = 4 /\ s[1] = q[1] /\ s[2] = q[2] /\ s[3] = q[3]
<1>1. PICK s : s = Append(q, i)
  OBVIOUS
<1>2. s \in Seq(T)
  BY <1>1, AppendProperties
<1>3. Len(s) = 4
  <2>1. Len(s) = Len(q) + 1
    BY <1>1, AppendProperties
  <2> QED BY <2>1
<1>4. 1 \in 1 .. 3 /\ 2 \in 1 .. 3 /\ 3 \in 1 .. 3
  OBVIOUS
<1>5. \A j \in 1 .. Len(q) : s[j] = q[j]
  BY <1>1, AppendProperties
<1>6. s[1] = q[1] /\ s[2] = q[2] /\ s[3] = q[3]
  <2>1. \A j \in 1 .. 3 : s[j] = q[j]
    BY <1>5, Zenon
  <2> QED BY <1>4, <2>1, Zenon
<1> QED BY <1>1, <1>2, <1>3, <1>6, Zenon

LEMMA LockTransaksiMinta == ASSUME TypeInv, NEW p \in Proses, LockTransaksi(p) PROVE Minta(p)
<1>1. PICK i \in Pernah("tagihan") : BuatBaca(p, Baris("pesanan", baris[i].dari, 0, Append(baris[i].rujuk, i)), {})
  BY DEF LockTransaksi
<1>2. i \in DOMAIN baris /\ baris[i].tabel = "tagihan"
  BY DEF Pernah
<1>3. PICK n \in Nat : n = Len(baris)
  BY BarisDomain DEF TypeInv
<1>4. PICK q, T, d : q = baris[i].rujuk /\ T = 1 .. n /\ d = baris[i].dari
  OBVIOUS
<1>5. /\ q \in Seq(T) /\ Len(q) = 3 /\ d \in Pengguna \cup Seller \cup Kurir /\ i \in T
      /\ baris[q[1]].tabel = "kategori_barang" /\ baris[q[2]].tabel = "alamat_gudang"
      /\ baris[q[3]].tabel = "alamat_pengguna"
  <2>1. baris[i] \in TipeBaris(n) /\ Rujukan(baris, baris[i]) /\ i \in 1 .. n /\ d \in Pengguna \cup Seller \cup Kurir
    BY <1>2, <1>3, <1>4, BarisNat
  <2>2. Len(q) = 3
    BY <2>1, <1>2, <1>4, PanjangIsi DEF Rujukan
  <2>3. q \in Seq(T)
    BY <2>1, <1>4 DEF TipeBaris
  <2>4. /\ baris[q[1]].tabel = "kategori_barang" /\ baris[q[2]].tabel = "alamat_gudang"
        /\ baris[q[3]].tabel = "alamat_pengguna"
    BY <2>1, <1>2, <1>4 DEF Rujukan
  <2> QED BY <2>1, <2>2, <2>3, <2>4, <1>4
<1>6. PICK s : s = Append(q, i)
  OBVIOUS
<1>7. s \in Seq(T) /\ Len(s) = 4 /\ s[1] = q[1] /\ s[2] = q[2] /\ s[3] = q[3]
  <2>1. q \in Seq(T) /\ Len(q) = 3 /\ i \in T
    BY <1>5
  <2> QED BY <1>6, <2>1, TambahTiga
<1>8. PICK r, U : r = Baris("pesanan", d, 0, s) /\ U = {}
  OBVIOUS
<1>9. r.tabel = "pesanan" /\ r.ada /\ r.rujuk = s /\ r \in TipeBaris(n)
  <2>1. s \in Seq(1 .. n) /\ "pesanan" \in Tabel
    BY <1>4, <1>7 DEF Tabel
  <2> QED BY <1>5, <1>8, <2>1 DEF Baris, TipeBaris
<1>10. Rujukan(baris, r)
  <2>1. r.tabel = "pesanan" /\ Len(r.rujuk) = Panjang(r.tabel)
    BY <1>7, <1>9, PanjangIsi
  <2> QED BY <2>1, <1>5, <1>7, <1>9 DEF Rujukan
<1>11. Cocokan(DOMAIN KolomBenar, U, r, Naik) /\ SegarBuat(baris, r) /\ U \subseteq Perubahan /\ IsFiniteSet(U)
  BY <1>8, <1>9, TagihanDiam
<1>12. BuatBaca(p, r, U) /\ r \in TipeBaris(Len(baris))
  BY <1>1, <1>3, <1>4, <1>6, <1>8, <1>9
<1> QED BY <1>9, <1>10, <1>11, <1>12, MintaBuat

\* Every request is one that has read what its row and its goroutine must satisfy.
LEMMA PermintaanMinta ==
    ASSUME TypeInv, NEW p \in Proses,
           \/ PermintaanPengguna(p) \/ PermintaanSeller(p) \/ PermintaanKurir(p)
           \/ SnapTransaksi(p) \/ LockTransaksi(p)
    PROVE  Minta(p)

<1>1. CASE PermintaanPengguna(p)
  BY <1>1, LikesBarangMinta, UnlikeBarangMinta, MasukanKomentarBarangMinta,
     HapusKomentarBarangMinta, MasukanChildKomentarMinta, MentionChildKomentarMinta,
     HapusChildKomentarMinta, TambahKeranjangBarangMinta, HapusKeranjangBarangMinta,
     BerikanReviewBarangMinta, LikeReviewBarangMinta, UnlikeReviewBarangMinta,
     FollowSellerMinta, UnfollowSellerMinta, MasukanAlamatPenggunaMinta,
     EditAlamatPenggunaMinta, HapusAlamatPenggunaMinta DEF PermintaanPengguna
<1>2. CASE PermintaanSeller(p)
  BY <1>2, TambahEtalaseSellerMinta, EditEtalaseSellerMinta, HapusEtalaseSellerMinta,
     TambahkanBarangKeEtalaseMinta, HapusBarangDariEtalaseMinta, TambahDiskonProdukMinta,
     EditDiskonProdukMinta, HapusDiskonProdukMinta, TetapKanDiskonPadaBarangMinta,
     HapusDiskonPadaBarangMinta, TambahRekeningSellerMinta, EditRekeningSellerMinta,
     SetDefaultRekeningSellerMinta, HapusRekeningSellerMinta, TambahAlamatGudangMinta,
     EditAlamatGudangMinta, HapusAlamatGudangMinta, MasukanBarangIndukMinta,
     EditBarangIndukMinta, HapusBarangIndukMinta, TambahKategoriBarangMinta,
     HapusKategoriBarangMinta, EditRekeningBarangIndukMinta,
     EditAlamatGudangBarangIndukMinta, EditAlamatGudangBarangKategoriMinta,
     MasukanDataDistributorMinta, HapusDataDistributorMinta, MasukanDataBrandMinta,
     HapusDataBrandMinta, MasukanKomentarSellerMinta, HapusKomentarSellerMinta,
     MasukanChildKomentarSellerMinta, HapusChildKomentarSellerMinta DEF PermintaanSeller
<1>3. CASE PermintaanKurir(p)
  BY <1>3, MasukanAlamatKurirMinta, HapusAlamatKurirMinta, MasukanRekeningKurirMinta,
     HapusRekeningKurirMinta, AjukanInformasiKendaraanMinta, AjukanInformasiKurirMinta DEF
     PermintaanKurir
<1> QED BY <1>1, <1>2, <1>3, SnapTransaksiMinta, LockTransaksiMinta

-----------------------------------------------------------------------------
(* Owners who wait.                                                         *)

LEMMA BebasTugas == ProsesBebas.tugas = "" /\ ProsesBebas.latar.kali = {} /\ ProsesBebas.latar = LatarKosong
BY DEF ProsesBebas, LatarKosong

LEMMA SendiriMinta ==
    ASSUME Tenang, NEW p \in Proses, NEW r, NEW ps, Ganti(proses, ps, p, r)
    PROVE  Sendiri(ps, latar) /\ \A q \in Proses : q # p => ps[q].tugas = ""
<1>1. \A q \in Proses : q # p => ps[q].tugas = ""
  BY BebasTugas DEF Ganti, Tenang
<1>2. \A i \in DOMAIN latar : latar[i].aktif # 0
  BY DEF Tenang
<1> QED BY <1>1, <1>2 DEF Sendiri

\* All goroutines but the n-th are old ones, or wait to activate a discount.
Bertambah(lt, ls, n) == \A i \in DOMAIN ls : (i \in DOMAIN lt /\ ls[i] = lt[i]) \/ ls[i].aktif # 0 \/ i = n

LEMMA SendiriLangkah ==
    ASSUME NEW pr, NEW ps, NEW lt, NEW ls, NEW n, Sendiri(pr, lt), NEW p \in Proses, pr[p].tugas # "",
           Ganti(pr, ps, p, ProsesBebas), Bertambah(lt, ls, n)
    PROVE  Sendiri(ps, ls) /\ \A q \in Proses : ps[q].tugas = ""
<1>1. \A q \in Proses : ps[q].tugas = ""
  BY BebasTugas DEF Sendiri, Ganti
<1>2. \A i \in DOMAIN ls : ls[i].aktif = 0 => i = n
  BY DEF Sendiri, Bertambah
<1> QED BY <1>1, <1>2 DEF Sendiri

LEMMA SendiriPutus ==
    ASSUME NEW pr, NEW ps, NEW lt, Sendiri(pr, lt), NEW p \in Proses, Ganti(pr, ps, p, ProsesBebas)
    PROVE  Sendiri(ps, lt) /\ \A q \in Proses : ps[q].tugas = "" \/ ps[q] = pr[q]
<1>1. \A q \in Proses : ps[q].tugas = "" \/ ps[q] = pr[q]
  BY BebasTugas DEF Ganti
<1> QED BY <1>1 DEF Sendiri

LEMMA SendiriSisa ==
    ASSUME NEW b, LatarSemua(b, latar), NEW i \in DOMAIN latar, NEW pr, Sendiri(pr, latar)
    PROVE  Sendiri(pr, Sisa(i))
<1>1. /\ Len(latar) \in Nat /\ DOMAIN latar = 1 .. Len(latar) /\ i \in 1 .. Len(latar)
      /\ DOMAIN Sisa(i) = 1 .. Len(latar) - 1
      /\ \A j \in 1 .. Len(latar) - 1 : Sisa(i)[j] = latar[Asal(i, j)]
  BY SisaIsi
<1>2. \A j \in 1 .. Len(latar) - 1 : Asal(i, j) \in DOMAIN latar
  BY <1>1 DEF Asal
<1>3. \A j, k \in 1 .. Len(latar) - 1 : Asal(i, j) = Asal(i, k) => j = k
  BY <1>1 DEF Asal
<1>4. PICK ls, n : ls = Sisa(i) /\ n = Len(latar) - 1
  OBVIOUS
<1>5. \A j \in DOMAIN ls : ls[j] = latar[Asal(i, j)] /\ Asal(i, j) \in DOMAIN latar
  BY <1>1, <1>2, <1>4
<1>6. \A j, k \in DOMAIN ls : Asal(i, j) = Asal(i, k) => j = k
  BY <1>1, <1>3, <1>4
<1>7. Sendiri(pr, ls)
  <2>1. \A p, q \in Proses : pr[p].tugas # "" /\ pr[q].tugas # "" => p = q
    BY DEF Sendiri
  <2>2. \A p \in Proses, j \in DOMAIN ls : pr[p].tugas # "" => ls[j].aktif # 0
    BY <1>5 DEF Sendiri
  <2>3. \A j, k \in DOMAIN ls : ls[j].aktif = 0 /\ ls[k].aktif = 0 => j = k
    BY <1>5, <1>6 DEF Sendiri
  <2> QED BY <2>1, <2>2, <2>3 DEF Sendiri
<1> QED BY <1>4, <1>7

\* The flag of a discount decides nothing a request has read.
LEMMA SegarDiskon ==
    ASSUME NEW b, NEW c, BarisSah(b), NEW a, Tandai(b, c, a), b[a].tabel = "diskon_produk",
           NEW r, ProsesSah(b, r), Segar(b, r)
    PROVE  Segar(c, r)
<1>1. /\ DOMAIN c = DOMAIN b
      /\ \A j \in DOMAIN b : /\ c[j].tabel = b[j].tabel /\ c[j].dari = b[j].dari /\ c[j].ke = b[j].ke
                             /\ c[j].rujuk = b[j].rujuk /\ c[j].ada = b[j].ada
                             /\ b[j].tabel # "diskon_produk" => c[j].tanda = b[j].tanda
  BY DEF Tandai
<1>2. \A t, o : Punya(c, t, o) = Punya(b, t, o)
  BY <1>1 DEF Punya
<1>3. \A j \in DOMAIN b : Terbuka(c[j]) <=> Terbuka(b[j])
  BY <1>1 DEF Terbuka
<1>4. r.tugas \in {"hapus", "ganti", "tandai", "pindah"} => r.id \in DOMAIN b
  <2>1. r.tugas \in {"hapus", "ganti", "tandai", "pindah"} => r.id # 0 /\ r.id \in 0 .. Len(b)
    BY DEF ProsesSah, TipeProses
  <2> QED BY <2>1, BarisDomain
<1>5. ASSUME r.tugas = "buat" PROVE SegarBuat(c, r.baris)
  <2>1. SegarBuat(b, r.baris)
    BY <1>5 DEF Segar
  <2>2. \A s : \A i \in DOMAIN b : Sama(c[i], s) => Sama(b[i], s)
    BY <1>1 DEF Sama, Ciri
  <2> QED BY <1>1, <1>2, <2>1, <2>2 DEF SegarBuat
<1>6. \A i \in DOMAIN b : SegarGanti(b, i) => SegarGanti(c, i)
  BY <1>1, <1>3 DEF SegarGanti
<1>7. ASSUME r.tugas = "hapus" PROVE SegarHapus(c, r.id, r.latar.ubah)
  <2>1. SegarHapus(b, r.id, r.latar.ubah) /\ r.id \in DOMAIN b
    BY <1>4, <1>7 DEF Segar
  <2>2. PICK s, t, U, i : s = b[r.id] /\ t = c[r.id] /\ U = r.latar.ubah /\ i = r.id
    OBVIOUS
  <2>3. \A k \in KolomRujuk : \A x : Menghitung(t, k, x) <=> Menghitung(s, k, x)
    <3>1. t.tabel = s.tabel /\ t.rujuk = s.rujuk /\ t.dari = s.dari /\ t.ke = s.ke
      BY <1>1, <2>1, <2>2
    <3>2. KolomRujuk \subseteq DOMAIN KolomBenar
      BY KolomDomain
    <3> QED BY <3>1, <3>2, Penghitungan, SMTT(30)
  <2>4. Cocokan(KolomRujuk, U, t, Turun)
    BY <2>1, <2>2, <2>3 DEF SegarHapus, Cocokan
  <2>5. SegarHapus(c, i, U)
    BY <1>1, <1>6, <2>1, <2>2, <2>4 DEF SegarHapus
  <2> QED BY <2>2, <2>5
<1>8. ASSUME r.tugas = "tandai" PROVE SegarTandai(c, r.id, r.pilih)
  <2>1. SegarTandai(b, r.id, r.pilih) /\ r.id \in DOMAIN b /\ r.pilih \subseteq DOMAIN b
    BY <1>4, <1>8, BarisDomain DEF Segar, ProsesSah, TipeProses
  <2>2. \A o : \A j \in Punya(b, "rekening_seller", o) : c[j].tanda = b[j].tanda
    BY <1>1 DEF Punya
  <2> QED BY <1>1, <1>2, <2>1, <2>2 DEF SegarTandai
<1>9. ASSUME r.tugas = "pindah" PROVE SegarPindah(c, r)
  <2>1. SegarPindah(b, r) /\ r.id \in DOMAIN b
    BY <1>4, <1>9 DEF Segar
  <2>2. Pindah(c, r) = Pindah(b, r)
    BY <1>1 DEF Pindah
  <2>3. \A j \in Pindah(b, r) : j \in DOMAIN b
    BY DEF Pindah
  <2> QED BY <1>1, <2>1, <2>2, <2>3 DEF SegarPindah
<1> QED BY <1>4, <1>5, <1>6, <1>7, <1>8, <1>9 DEF Segar

\* Rows that keep what tells two of a table apart; some may be deleted.
Serupa(b, c) ==
    /\ DOMAIN c = DOMAIN b
    /\ \A j \in DOMAIN b : /\ c[j].tabel = b[j].tabel /\ c[j].dari = b[j].dari
                           /\ c[j].ada => b[j].ada
                           /\ b[j].tabel \in Tunggal => c[j].ke = b[j].ke /\ c[j].rujuk = b[j].rujuk
RekeningTetap(b, c) ==
    \A j \in DOMAIN b : c[j].ada /\ b[j].tabel = "rekening_seller" => c[j].tanda = b[j].tanda

Ditambah(b, c, r) ==
    /\ Len(b) \in Nat /\ DOMAIN b = 1 .. Len(b) /\ DOMAIN c = 1 .. Len(b) + 1
    /\ \A j \in DOMAIN b : c[j] = b[j]
    /\ c[Len(b) + 1] = r

LEMMA PunyaHingga == ASSUME NEW b, BarisSah(b) PROVE \A t, o : IsFiniteSet(Punya(b, t, o)) /\ Punya(b, t, o) \subseteq DOMAIN b
<1>1. DOMAIN b = 1 .. Len(b) /\ Len(b) \in Nat
  BY BarisDomain
<1>2. IsFiniteSet(DOMAIN b)
  BY <1>1, FS_Interval
<1>3. \A t, o : Punya(b, t, o) \subseteq DOMAIN b
  BY DEF Punya
<1> QED BY <1>2, <1>3, FS_Subset

LEMMA GandaSerupa ==
    ASSUME NEW b, NEW c, Serupa(b, c), TanpaGandaB(b)
    PROVE  \A i, j \in DOMAIN c : c[i].ada /\ c[j].ada /\ Sama(c[i], c[j]) => i = j
<1>1. \A i, j \in DOMAIN b : Sama(c[i], c[j]) => Sama(b[i], b[j])
  BY DEF Sama, Serupa, Ciri
<1> QED BY <1>1 DEF TanpaGandaB, Serupa

LEMMA GandaRekening ==
    ASSUME NEW b, NEW c, Serupa(b, c), RekeningTetap(b, c), TanpaGandaB(b)
    PROVE  TanpaGandaB(c)
<1>1. ASSUME NEW o \in Seller, NEW i \in Punya(c, "rekening_seller", o), NEW j \in Punya(c, "rekening_seller", o),
             c[i].tanda, c[j].tanda
      PROVE  i = j
  <2>1. i \in Punya(b, "rekening_seller", o) /\ j \in Punya(b, "rekening_seller", o)
    BY DEF Punya, Serupa
  <2>2. b[i].tanda /\ b[j].tanda
    BY <1>1, <2>1 DEF RekeningTetap, Punya
  <2> QED BY <2>1, <2>2 DEF TanpaGandaB
<1> QED BY <1>1, GandaSerupa DEF TanpaGandaB

LEMMA BatasSerupa ==
    ASSUME NEW b, BarisSah(b), NEW c, Serupa(b, c), BatasB(b)
    PROVE  BatasB(c)
<1>1. \A t, o : Punya(c, t, o) \subseteq Punya(b, t, o)
  BY DEF Punya, Serupa
<1>2. \A t, o : /\ Cardinality(Punya(c, t, o)) <= Cardinality(Punya(b, t, o))
                /\ Cardinality(Punya(c, t, o)) \in Nat /\ Cardinality(Punya(b, t, o)) \in Nat
  BY <1>1, PunyaHingga, FS_Subset, FS_CardinalityType
<1>3. Batas \in Nat
  BY RelasiAssumption DEF RelasiAssumption
<1>4. \A t, o : Cardinality(Punya(b, t, o)) <= Batas => Cardinality(Punya(c, t, o)) <= Batas
  BY <1>2, <1>3
<1> QED BY <1>4 DEF BatasB

LEMMA GandaTambah ==
    ASSUME NEW b, NEW c, NEW r, Ditambah(b, c, r), SegarBuat(b, r), TanpaGandaB(b)
    PROVE  TanpaGandaB(c)
<1> DEFINE n == Len(b) + 1
<1>1. DOMAIN c = DOMAIN b \cup {n} /\ n \notin DOMAIN b /\ c[n] = r /\ \A j \in DOMAIN b : c[j] = b[j]
  BY DEF Ditambah
<1> HIDE DEF n
<1>2. \A i \in DOMAIN b : b[i].ada => ~Sama(b[i], r) /\ ~Sama(r, b[i])
  BY DEF SegarBuat, Sama
<1>3. \A i, j \in DOMAIN c : c[i].ada /\ c[j].ada /\ Sama(c[i], c[j]) => i = j
  <2> SUFFICES ASSUME NEW i \in DOMAIN c, NEW j \in DOMAIN c, c[i].ada, c[j].ada, Sama(c[i], c[j]), i # j
               PROVE  FALSE
    OBVIOUS
  <2>1. CASE i = n
    BY <1>1, <1>2, <2>1
  <2>2. CASE j = n
    BY <1>1, <1>2, <2>2
  <2>3. CASE i # n /\ j # n
    BY <1>1, <2>3 DEF TanpaGandaB
  <2> QED BY <2>1, <2>2, <2>3
<1>4. ASSUME NEW o \in Seller, NEW i \in Punya(c, "rekening_seller", o), NEW j \in Punya(c, "rekening_seller", o),
             c[i].tanda, c[j].tanda, i # j
      PROVE  FALSE
  <2>1. /\ i \in DOMAIN c /\ c[i].ada /\ c[i].tabel = "rekening_seller" /\ c[i].dari = o
        /\ j \in DOMAIN c /\ c[j].ada /\ c[j].tabel = "rekening_seller" /\ c[j].dari = o
    BY DEF Punya
  <2>2. r.tabel = "rekening_seller" /\ r.tanda => Punya(b, "rekening_seller", r.dari) = {}
    BY DEF SegarBuat
  <2>3. CASE i = n
    <3>1. j \in Punya(b, "rekening_seller", o) /\ r.tabel = "rekening_seller" /\ r.tanda /\ r.dari = o
      BY <1>1, <1>4, <2>1, <2>3 DEF Punya
    <3> QED BY <2>2, <3>1
  <2>4. CASE j = n
    <3>1. i \in Punya(b, "rekening_seller", o) /\ r.tabel = "rekening_seller" /\ r.tanda /\ r.dari = o
      BY <1>1, <1>4, <2>1, <2>4 DEF Punya
    <3> QED BY <2>2, <3>1
  <2>5. CASE i # n /\ j # n
    <3>1. /\ i \in Punya(b, "rekening_seller", o) /\ j \in Punya(b, "rekening_seller", o)
          /\ b[i].tanda /\ b[j].tanda
      BY <1>1, <1>4, <2>1, <2>5 DEF Punya
    <3> QED BY <1>4, <3>1 DEF TanpaGandaB
  <2> QED BY <2>3, <2>4, <2>5
<1> QED BY <1>3, <1>4 DEF TanpaGandaB

LEMMA BatasTambah ==
    ASSUME NEW b, BarisSah(b), NEW c, NEW r, Ditambah(b, c, r), SegarBuat(b, r), BatasB(b)
    PROVE  BatasB(c)
<1> DEFINE n == Len(b) + 1
<1>1. DOMAIN c = DOMAIN b \cup {n} /\ n \notin DOMAIN b /\ c[n] = r /\ \A j \in DOMAIN b : c[j] = b[j]
  BY DEF Ditambah
<1> HIDE DEF n
<1>2. Batas \in Nat
  BY RelasiAssumption DEF RelasiAssumption
<1>3. ASSUME NEW t, NEW o, Cardinality(Punya(b, t, o)) <= Batas,
             r.tabel = t /\ r.dari = o => Cardinality(Punya(b, t, o)) < Batas
      PROVE  Cardinality(Punya(c, t, o)) <= Batas
  <2>1. IsFiniteSet(Punya(b, t, o)) /\ Cardinality(Punya(b, t, o)) \in Nat /\ n \notin Punya(b, t, o)
    BY <1>1, PunyaHingga, FS_CardinalityType
  <2>2. Cardinality(Punya(b, t, o) \cup {n}) = Cardinality(Punya(b, t, o)) + 1
    BY <2>1, FS_AddElement
  <2>3. CASE n \in Punya(c, t, o)
    <3>1. Punya(c, t, o) = Punya(b, t, o) \cup {n} /\ r.tabel = t /\ r.dari = o
      BY <1>1, <2>3 DEF Punya
    <3> QED BY <1>2, <1>3, <2>1, <2>2, <3>1
  <2>4. CASE n \notin Punya(c, t, o)
    <3>1. Punya(c, t, o) = Punya(b, t, o)
      BY <1>1, <2>4 DEF Punya
    <3> QED BY <1>3, <3>1
  <2> QED BY <2>3, <2>4
<1>4. ASSUME NEW o \in Pengguna \cup Seller \cup Kurir, NEW t \in Terbatas
      PROVE  Cardinality(Punya(c, t, o)) <= Batas
  BY <1>3 DEF BatasB, SegarBuat
<1> QED BY <1>4 DEF BatasB

\* What is left of the rows when r deletes.
Dihapus(b, c, r) ==
    /\ DOMAIN c = DOMAIN b
    /\ \A j \in DOMAIN b :
          /\ c[j].tabel = b[j].tabel /\ c[j].dari = b[j].dari /\ c[j].ke = b[j].ke
          /\ c[j].rujuk = b[j].rujuk /\ c[j].tanda = b[j].tanda
          /\ c[j].ada <=> b[j].ada /\ j \notin Sasaran(b, r)

LEMMA HapusRinci ==
    ASSUME TypeInv, NEW p \in Proses, HapusTulis(p)
    PROVE  Dihapus(baris, baris', proses[p])
<1>1. PICK b, c, r : b = baris /\ c = baris' /\ r = proses[p]
  OBVIOUS
<1>2. c = [j \in DOMAIN b |-> IF j \in Sasaran(b, r) THEN [b[j] EXCEPT !.ada = FALSE] ELSE b[j]]
  BY <1>1, HapusIsi
<1>3. \A j \in DOMAIN b : b[j] \in TipeBaris(Len(b))
  BY <1>1, BarisProses
<1>4. ASSUME NEW j \in DOMAIN b
      PROVE  /\ c[j].tabel = b[j].tabel /\ c[j].dari = b[j].dari /\ c[j].ke = b[j].ke
             /\ c[j].rujuk = b[j].rujuk /\ c[j].tanda = b[j].tanda
             /\ c[j].ada <=> b[j].ada /\ j \notin Sasaran(b, r)
  <2>1. CASE j \in Sasaran(b, r)
    <3>1. c[j] = [b[j] EXCEPT !.ada = FALSE] /\ b[j] \in TipeBaris(Len(b))
      BY <1>2, <1>3, <2>1
    <3> QED BY <2>1, <3>1 DEF TipeBaris
  <2>2. CASE j \notin Sasaran(b, r)
    BY <1>2, <2>2
  <2> QED BY <2>1, <2>2
<1>5. DOMAIN c = DOMAIN b
  BY <1>2
<1>6. Dihapus(b, c, r)
  BY <1>4, <1>5 DEF Dihapus
<1> QED BY <1>1, <1>6

\* The default account moves.
Ditandai(b, c, r) ==
    /\ DOMAIN c = DOMAIN b
    /\ \A j \in DOMAIN b :
          /\ c[j].tabel = b[j].tabel /\ c[j].dari = b[j].dari /\ c[j].ke = b[j].ke
          /\ c[j].rujuk = b[j].rujuk /\ c[j].ada = b[j].ada
          /\ ~b[j].ada \/ j \notin r.pilih \cup {r.id} => c[j].tanda = b[j].tanda
          /\ b[j].ada /\ j \in r.pilih \cup {r.id} => (c[j].tanda <=> j = r.id)

LEMMA TandaiRinci ==
    ASSUME TypeInv, NEW p \in Proses, TandaiTulis(p)
    PROVE  Ditandai(baris, baris', proses[p])
<1>1. PICK b, c, r : b = baris /\ c = baris' /\ r = proses[p]
  OBVIOUS
<1>2. c = [j \in DOMAIN b |-> IF ~b[j].ada \/ j \notin r.pilih \cup {r.id} THEN b[j]
                              ELSE [b[j] EXCEPT !.tanda = j = r.id]]
  BY <1>1, TandaiIsi
<1>3. \A j \in DOMAIN b : b[j] \in TipeBaris(Len(b))
  BY <1>1, BarisProses
<1>4. ASSUME NEW j \in DOMAIN b
      PROVE  /\ c[j].tabel = b[j].tabel /\ c[j].dari = b[j].dari /\ c[j].ke = b[j].ke
             /\ c[j].rujuk = b[j].rujuk /\ c[j].ada = b[j].ada
             /\ ~b[j].ada \/ j \notin r.pilih \cup {r.id} => c[j].tanda = b[j].tanda
             /\ b[j].ada /\ j \in r.pilih \cup {r.id} => (c[j].tanda <=> j = r.id)
  <2>1. CASE ~b[j].ada \/ j \notin r.pilih \cup {r.id}
    BY <1>2, <2>1
  <2>2. CASE b[j].ada /\ j \in r.pilih \cup {r.id}
    <3>1. PICK t \in BOOLEAN : t = (j = r.id)
      OBVIOUS
    <3>2. c[j] = [b[j] EXCEPT !.tanda = t] /\ b[j] \in TipeBaris(Len(b))
      BY <1>2, <1>3, <2>2, <3>1
    <3>3. /\ c[j].tabel = b[j].tabel /\ c[j].dari = b[j].dari /\ c[j].ke = b[j].ke
          /\ c[j].rujuk = b[j].rujuk /\ c[j].ada = b[j].ada /\ c[j].tanda = t
      BY <3>2, IsiTanda
    <3> QED BY <2>2, <3>1, <3>3
  <2> QED BY <2>1, <2>2
<1>5. DOMAIN c = DOMAIN b
  BY <1>2
<1>6. Ditandai(b, c, r)
  BY <1>4, <1>5 DEF Ditandai
<1> QED BY <1>1, <1>6

LEMMA GandaTandai ==
    ASSUME NEW b, NEW c, NEW r, Ditandai(b, c, r), SegarTandai(b, r.id, r.pilih), TanpaGandaB(b)
    PROVE  TanpaGandaB(c)
<1>1. Serupa(b, c)
  BY DEF Serupa, Ditandai
<1>2. ASSUME NEW o \in Seller, NEW i \in Punya(c, "rekening_seller", o), NEW j \in Punya(c, "rekening_seller", o),
             c[i].tanda, c[j].tanda
      PROVE  i = j
  <2>1. /\ i \in Punya(b, "rekening_seller", o) /\ b[i].ada /\ b[i].dari = o /\ i \in DOMAIN b
        /\ j \in Punya(b, "rekening_seller", o) /\ b[j].ada /\ b[j].dari = o /\ j \in DOMAIN b
    BY DEF Punya, Ditandai
  <2>2. i = r.id \/ (b[i].tanda /\ i \notin r.pilih)
    BY <1>2, <2>1 DEF Ditandai
  <2>3. j = r.id \/ (b[j].tanda /\ j \notin r.pilih)
    BY <1>2, <2>1 DEF Ditandai
  <2>4. ~(i = r.id /\ b[j].tanda /\ j \notin r.pilih) /\ ~(j = r.id /\ b[i].tanda /\ i \notin r.pilih)
    BY <2>1 DEF SegarTandai
  <2>5. b[i].tanda /\ b[j].tanda => i = j
    BY <2>1 DEF TanpaGandaB
  <2> QED BY <2>2, <2>3, <2>4, <2>5
<1> QED BY <1>1, <1>2, GandaSerupa DEF TanpaGandaB

LEMMA TertibAkhir ==
    ASSUME NEW b, NEW ps, NEW ls, b = baris', ps = proses', ls = latar', Sendiri(ps, ls),
           \A q \in Proses : Segar(b, ps[q]), TanpaGandaB(b), BatasB(b)
    PROVE  TertibInv'
BY DEF TertibInv

-----------------------------------------------------------------------------
(* Steps.                                                                   *)

\* What moves no row to another owner moves no counter of people.
LEMMA MenghitungOrang ==
    ASSUME NEW r, NEW s, r.tabel = s.tabel, r.dari = s.dari, r.tabel \in TabelNama \/ r.ke = s.ke,
           NEW c \in KolomOrang, NEW x
    PROVE  Menghitung(r, c, x) <=> Menghitung(s, c, x)
<1>1. c \in DOMAIN KolomBenar /\ c \notin KolomRujuk
  BY KolomDomain DEF KolomOrang, KolomRujuk
<1>2. r.tabel = "follower" => r.ke = s.ke
  BY DEF TabelNama
<1> QED BY <1>1, <1>2, Penghitungan DEF KolomRujuk

LEMMA HitunganTetap ==
    ASSUME NEW b, NEW c, BarisSah(b), Lanjut(b, c), NEW r, ProsesSah(b, r), Hitungan(b, r)
    PROVE  Hitungan(c, r)
<1>1. ASSUME r.tugas = "hapus" PROVE Cocokan(KolomOrang, r.latar.ubah, c[r.id], Turun)
  <2>1. r.id \in DOMAIN b
    <3>1. r.id # 0 /\ r.id \in 0 .. Len(b)
      BY <1>1 DEF ProsesSah, TipeProses
    <3> QED BY <3>1, BarisDomain
  <2>2. PICK s, t : s = b[r.id] /\ t = c[r.id]
    OBVIOUS
  <2>3. s.tabel = t.tabel /\ s.dari = t.dari /\ (s.tabel \in TabelNama \/ s.ke = t.ke)
    BY <2>1, <2>2 DEF Lanjut, Turunan
  <2>4. \A k \in KolomOrang : \A x : Menghitung(s, k, x) <=> Menghitung(t, k, x)
    BY <2>3, MenghitungOrang
  <2>5. Cocokan(KolomOrang, r.latar.ubah, s, Turun)
    BY <1>1, <2>2 DEF Hitungan
  <2>6. Cocokan(KolomOrang, r.latar.ubah, t, Turun)
    BY <2>4, <2>5 DEF Cocokan
  <2> QED BY <2>2, <2>6
<1> QED BY <1>1 DEF Hitungan

LEMMA HitunganGanti ==
    ASSUME NEW b, NEW c, BarisSah(b), Lanjut(b, c), NEW pr, NEW ps, NEW p \in Proses, NEW r,
           ProsesSemua(b, pr), \A q \in Proses : Hitungan(b, pr[q]), Ganti(pr, ps, p, r), Hitungan(c, r)
    PROVE  \A q \in Proses : Hitungan(c, ps[q])
<1>1. \A q \in Proses : Hitungan(c, pr[q])
  BY HitunganTetap DEF ProsesSemua
<1> QED BY <1>1 DEF Ganti

LEMMA HitunganBebas == \A b : Hitungan(b, ProsesBebas)
<1>1. ProsesBebas.tugas = "" /\ ProsesBebas.latar.kali = {}
  BY DEF ProsesBebas, LatarKosong
<1> QED BY <1>1 DEF Hitungan

\* A counter of a threshold row is moved only while that row is there.
LEMMA AmbangHasil ==
    ASSUME TypeInv, AmbangInv, NEW l, LatarSah(baris, l), NEW U, NEW V, NEW B, NEW H, Hasil(l, U, V, B, H)
    PROVE  AmbangInv'
<1> SUFFICES ASSUME NEW k \in DOMAIN hitung', k[1] \in KolomAmbang PROVE k[2] \in ambang'
  BY DEF AmbangInv
<1>1. k[2] \notin H /\ (k \in DOMAIN hitung \/ k[2] \in ambang \cup B)
  <2>1. DomainHasil(B, H)
    BY HasilIsi
  <2> QED BY <2>1 DEF DomainHasil
<1>2. ambang' = (ambang \cup B) \ H
  BY DEF Hasil
<1>3. k[2] \in ambang \cup B
  BY <1>1 DEF AmbangInv
<1> QED BY <1>1, <1>2, <1>3

LEMMA LangkahAmbang == AmbangInv /\ UNCHANGED <<hitung, ambang>> => AmbangInv'
BY DEF AmbangInv

LEMMA SegarBebas == \A b, r : r.tugas = "" => Segar(b, r)
BY DEF Segar

LEMMA TertibMinta ==
    ASSUME TypeInv, tertib, TertibInv, NEW p \in Proses, Minta(p)
    PROVE  TertibInv'
<1>1. PICK r : Awal(r) /\ proses[p] = ProsesBebas /\ (tertib => Tenang) /\ Ganti(proses, proses', p, r)
  BY MintaTipe
<1>2. UNCHANGED <<baris, ambang, hitung, latar>>
  BY MintaTipe
<1>3. PICK b, ps, ls : b = baris /\ ps = proses' /\ ls = latar
  OBVIOUS
<1>4. b = baris' /\ ls = latar'
  BY <1>2, <1>3
<1>5. Sendiri(ps, ls) /\ \A q \in Proses : q # p => ps[q].tugas = ""
  BY <1>1, <1>3, SendiriMinta
<1>6. ASSUME NEW q \in Proses PROVE Segar(b, ps[q])
  <2>1. Segar(b, r)
    BY <1>1, <1>3 DEF Awal
  <2>2. ps[q] = r \/ ps[q].tugas = ""
    BY <1>1, <1>3, <1>5 DEF Ganti
  <2> QED BY <2>1, <2>2, SegarBebas
<1>7. TanpaGandaB(b) /\ BatasB(b)
  BY <1>3 DEF TertibInv
<1> QED BY <1>3, <1>4, <1>5, <1>6, <1>7, TertibAkhir

\* A step of the one request there is.
LEMMA TertibTulis ==
    ASSUME TypeInv, tertib, TertibInv, NEW p \in Proses, Langkah(p), proses[p].tugas # "", NEW n,
           Bertambah(latar, latar', n), NEW c, c = baris', TanpaGandaB(c), BatasB(c)
    PROVE  TertibInv'
<1>1. Ganti(proses, proses', p, ProsesBebas)
  BY LangkahTipe
<1>2. PICK ps, ls : ps = proses' /\ ls = latar'
  OBVIOUS
<1>3. Sendiri(ps, ls) /\ \A q \in Proses : ps[q].tugas = ""
  <2>1. Sendiri(proses, latar) /\ Ganti(proses, ps, p, ProsesBebas) /\ Bertambah(latar, ls, n)
    BY <1>1, <1>2 DEF TertibInv
  <2> QED BY <2>1, SendiriLangkah
<1>4. \A q \in Proses : Segar(c, ps[q])
  BY <1>3, SegarBebas
<1> QED BY <1>2, <1>3, <1>4, TertibAkhir

LEMMA SatuBertambah ==
    ASSUME NEW b, NEW lt, LatarSemua(b, lt), NEW l, LatarSah(b, l)
    PROVE  Bertambah(lt, Append(lt, l), Len(lt) + 1)
BY LatarTambah DEF Bertambah

LEMMA TertibHapus ==
    ASSUME TypeInv, tertib, TertibInv, NEW p \in Proses, Langkah(p), HapusTulis(p)
    PROVE  TertibInv'
<1>1. PICK b, c, r, lt, ls : b = baris /\ c = baris' /\ r = proses[p] /\ lt = latar /\ ls = latar'
  OBVIOUS
<1>2. r.tugas = "hapus" /\ ls = Append(lt, r.latar)
  BY <1>1, HapusIsi
<1>3. /\ LatarSemua(b, lt) /\ LatarSah(b, r.latar) /\ BarisSah(b)
  BY <1>1, BarisProses
<1>4. Bertambah(lt, ls, Len(lt) + 1)
  BY <1>2, <1>3, SatuBertambah
<1>5. Dihapus(b, c, r)
  BY <1>1, HapusRinci
<1>6. TanpaGandaB(b) /\ BatasB(b)
  BY <1>1 DEF TertibInv
<1>7. Serupa(b, c) /\ RekeningTetap(b, c)
  BY <1>5 DEF Dihapus, Serupa, RekeningTetap
<1>8. TanpaGandaB(c) /\ BatasB(c)
  BY <1>3, <1>6, <1>7, GandaRekening, BatasSerupa
<1> QED BY <1>1, <1>2, <1>4, <1>8, TertibTulis

LEMMA TertibGanti ==
    ASSUME TypeInv, tertib, TertibInv, NEW p \in Proses, Langkah(p), GantiTulis(p)
    PROVE  TertibInv'
<1>1. PICK b, c, r, i, lt, ls : b = baris /\ c = baris' /\ r = proses[p] /\ i = proses[p].id /\ lt = latar /\ ls = latar'
  OBVIOUS
<1>2. /\ r.tugas = "ganti" /\ i \in DOMAIN b /\ b[i].tabel \in TabelNama /\ Berganti(b, c, i)
      /\ ls = lt /\ DOMAIN c = DOMAIN b
  BY <1>1, GantiIsi
<1>3. BarisSah(b)
  BY <1>1, BarisProses
<1>4. Bertambah(lt, ls, 0)
  BY <1>2 DEF Bertambah
<1>5. TanpaGandaB(b) /\ BatasB(b)
  BY <1>1 DEF TertibInv
<1>6. Serupa(b, c) /\ RekeningTetap(b, c)
  <2>1. b[i].tabel \notin Tunggal
    BY <1>2 DEF TabelNama, Tunggal
  <2> QED BY <1>2, <2>1 DEF Berganti, Serupa, RekeningTetap
<1>7. TanpaGandaB(c) /\ BatasB(c)
  BY <1>3, <1>5, <1>6, GandaRekening, BatasSerupa
<1> QED BY <1>1, <1>2, <1>4, <1>7, TertibTulis

LEMMA TertibTandai ==
    ASSUME TypeInv, tertib, TertibInv, NEW p \in Proses, Langkah(p), TandaiTulis(p)
    PROVE  TertibInv'
<1>1. PICK b, c, r, lt, ls : b = baris /\ c = baris' /\ r = proses[p] /\ lt = latar /\ ls = latar'
  OBVIOUS
<1>2. r.tugas = "tandai" /\ ls = lt
  BY <1>1, TandaiIsi
<1>3. BarisSah(b)
  BY <1>1, BarisProses
<1>4. Bertambah(lt, ls, 0)
  BY <1>2 DEF Bertambah
<1>5. Ditandai(b, c, r)
  BY <1>1, TandaiRinci
<1>6. SegarTandai(b, r.id, r.pilih) /\ TanpaGandaB(b) /\ BatasB(b)
  BY <1>1, <1>2 DEF TertibInv, Segar
<1>7. Serupa(b, c)
  BY <1>5 DEF Ditandai, Serupa
<1>8. TanpaGandaB(c) /\ BatasB(c)
  BY <1>3, <1>5, <1>6, <1>7, GandaTandai, BatasSerupa
<1> QED BY <1>1, <1>2, <1>4, <1>8, TertibTulis

LEMMA TertibPindah ==
    ASSUME TypeInv, tertib, TertibInv, NEW p \in Proses, Langkah(p), PindahTulis(p)
    PROVE  TertibInv'
<1>1. PICK b, c, r, lt, ls : b = baris /\ c = baris' /\ r = proses[p] /\ lt = latar /\ ls = latar'
  OBVIOUS
<1>2. r.tugas = "pindah" /\ ls = Append(lt, r.latar) /\ Berpindah(b, c, r) /\ DOMAIN c = DOMAIN b
  BY <1>1, PindahIsi
<1>3. BarisSah(b) /\ LatarSemua(b, lt) /\ LatarSah(b, r.latar)
  BY <1>1, BarisProses
<1>4. Bertambah(lt, ls, Len(lt) + 1)
  BY <1>2, <1>3, SatuBertambah
<1>5. TanpaGandaB(b) /\ BatasB(b)
  BY <1>1 DEF TertibInv
<1>6. Serupa(b, c) /\ RekeningTetap(b, c)
  <2>1. \A j \in DOMAIN b : b[j].tabel # "kategori_barang" => c[j] = b[j]
    BY <1>2 DEF Berpindah, Pindah
  <2> QED BY <1>2, <2>1 DEF Berpindah, Serupa, RekeningTetap, Tunggal
<1>7. TanpaGandaB(c) /\ BatasB(c)
  BY <1>3, <1>5, <1>6, GandaRekening, BatasSerupa
<1> QED BY <1>1, <1>2, <1>4, <1>7, TertibTulis

LEMMA DuaBertambah ==
    ASSUME NEW b, NEW lt, LatarSemua(b, lt), NEW l, LatarSah(b, l), NEW m, LatarSah(b, m), m.aktif # 0
    PROVE  Bertambah(lt, Append(Append(lt, l), m), Len(lt) + 1)
<1>1. PICK ls : ls = Append(lt, l)
  OBVIOUS
<1>2. /\ LatarSemua(b, ls) /\ Len(lt) \in Nat /\ DOMAIN lt = 1 .. Len(lt) /\ DOMAIN ls = 1 .. Len(lt) + 1
      /\ \A i \in 1 .. Len(lt) : ls[i] = lt[i]
  BY <1>1, LatarTambah
<1>3. /\ Len(ls) \in Nat /\ DOMAIN ls = 1 .. Len(ls) /\ DOMAIN Append(ls, m) = 1 .. Len(ls) + 1
      /\ \A i \in 1 .. Len(ls) : Append(ls, m)[i] = ls[i]
      /\ Append(ls, m)[Len(ls) + 1] = m
  BY <1>2, LatarTambah
<1>4. Bertambah(lt, Append(ls, m), Len(lt) + 1)
  <2>1. ASSUME NEW i \in DOMAIN Append(ls, m)
        PROVE  \/ i \in DOMAIN lt /\ Append(ls, m)[i] = lt[i]
               \/ Append(ls, m)[i].aktif # 0
               \/ i = Len(lt) + 1
    <3>1. CASE i = Len(ls) + 1
      BY <1>3, <3>1
    <3>2. CASE i \in DOMAIN ls
      BY <1>2, <1>3, <3>2
    <3> QED BY <1>3, <3>1, <3>2
  <2> QED BY <2>1 DEF Bertambah
<1> QED BY <1>1, <1>4

LEMMA BuatRinci ==
    ASSUME TypeInv, NEW p \in Proses, BuatTulis(p)
    PROVE  /\ Ditambah(baris, baris', proses[p].baris) /\ proses[p].tugas = "buat"
           /\ proses[p].baris \in TipeBaris(Len(baris)) /\ Rujukan(baris, proses[p].baris)
           /\ proses[p].baris.ada
<1>1. PICK b, c, r : b = baris /\ c = baris' /\ r = proses[p].baris
  OBVIOUS
<1>2. /\ c = Append(b, r) /\ r \in TipeBaris(Len(b)) /\ Rujukan(b, r) /\ r.ada /\ proses[p].tugas = "buat"
      /\ BarisSah(b)
  BY <1>1, BuatIsi DEF TypeInv
<1>3. Ditambah(b, c, r)
  BY <1>2, BarisTambah, BarisDomain DEF Ditambah
<1> QED BY <1>1, <1>2, <1>3

LEMMA BuatBertambah ==
    ASSUME TypeInv, NEW p \in Proses, BuatTulis(p)
    PROVE  Bertambah(latar, latar', Len(latar) + 1)
<1>1. PICK b, c, r, lt, ls, n, l, m :
        /\ b = baris /\ c = baris' /\ r = proses[p] /\ lt = latar /\ ls = latar' /\ n = Len(baris) + 1
        /\ l = LatarBuat(proses[p], Len(baris) + 1) /\ m = LatarMenunggu(Len(baris) + 1)
  OBVIOUS
<1>2. /\ r.baris.tabel = "diskon_produk" => ls = Append(Append(lt, l), m)
      /\ r.baris.tabel # "diskon_produk" => ls = Append(lt, l)
  BY <1>1, BuatIsi
<1>3. Lanjut(b, c) /\ LatarSah(c, l) /\ (LatarSah(c, m) \/ r.baris.tabel # "diskon_produk")
  BY <1>1, BuatTipe
<1>4. BarisSah(b) /\ LatarSemua(b, lt)
  BY <1>1, BarisProses
<1>5. LatarSemua(c, lt)
  BY <1>3, <1>4, LatarLanjut
<1>6. m.aktif # 0
  <2>1. n \in Nat /\ n # 0 /\ m = LatarMenunggu(n)
    BY <1>1, <1>4, BarisDomain
  <2> QED BY <2>1 DEF LatarMenunggu, LatarKosong
<1>7. Bertambah(lt, ls, Len(lt) + 1)
  <2>1. CASE r.baris.tabel = "diskon_produk"
    BY <1>2, <1>3, <1>5, <1>6, <2>1, DuaBertambah
  <2>2. CASE r.baris.tabel # "diskon_produk"
    BY <1>2, <1>3, <1>5, <2>2, SatuBertambah
  <2> QED BY <2>1, <2>2
<1> QED BY <1>1, <1>7

LEMMA TertibBuat ==
    ASSUME TypeInv, tertib, TertibInv, NEW p \in Proses, Langkah(p), BuatTulis(p)
    PROVE  TertibInv'
<1>1. PICK b, c, r, lt, ls, s : b = baris /\ c = baris' /\ r = proses[p] /\ lt = latar /\ ls = latar' /\ s = proses[p].baris
  OBVIOUS
<1>2. Ditambah(b, c, s) /\ r.tugas = "buat"
  BY <1>1, BuatRinci
<1>3. BarisSah(b)
  BY <1>1, BarisProses
<1>4. Bertambah(lt, ls, Len(lt) + 1)
  BY <1>1, BuatBertambah
<1>5. SegarBuat(b, s) /\ TanpaGandaB(b) /\ BatasB(b)
  BY <1>1, <1>2 DEF TertibInv, Segar
<1>6. TanpaGandaB(c) /\ BatasB(c)
  BY <1>2, <1>3, <1>5, GandaTambah, BatasTambah
<1> QED BY <1>1, <1>2, <1>4, <1>6, TertibTulis

\* New rows of which none is of a table that may hold one only.
LEMMA GandaAnak ==
    ASSUME NEW b, BarisSah(b), NEW c, NEW r, Beranak(b, c, r), r.baris.tabel = "barang_induk",
           TanpaGandaB(b), BatasB(b)
    PROVE  TanpaGandaB(c) /\ BatasB(c)
<1>1. /\ \A i \in DOMAIN c : i \notin DOMAIN b => c[i].tabel \in {"barang_induk", "kategori_barang"}
      /\ \A i \in DOMAIN b : c[i] = b[i]
      /\ DOMAIN b \subseteq DOMAIN c
  <2> PICK n, m : n = Len(b) + 1 /\ m = r.anak.banyak
    OBVIOUS
  <2>1. /\ n \in Nat /\ m \in Nat /\ n = Len(b) + 1 /\ DOMAIN c = 1 .. n + m
        /\ \A i \in DOMAIN b : c[i] = b[i]
        /\ c[n] = r.baris
        /\ \A j \in n + 1 .. n + m : c[j] = AnakBaris(r, n)
    <3>1. Len(b) \in Nat
      BY BarisDomain
    <3>2. n \in Nat
      BY <3>1
    <3> QED BY <3>2 DEF Beranak
  <2>2. DOMAIN b = 1 .. Len(b) /\ Len(b) \in Nat
    BY BarisDomain
  <2>3. AnakBaris(r, n).tabel = "kategori_barang"
    BY DEF AnakBaris, Baris
  <2>4. ASSUME NEW i \in DOMAIN c, i \notin DOMAIN b PROVE i = n \/ i \in n + 1 .. n + m
    BY <2>1, <2>2, <2>4
  <2>5. \A i \in DOMAIN c : i \notin DOMAIN b => c[i].tabel \in {"barang_induk", "kategori_barang"}
    BY <2>1, <2>3, <2>4
  <2>6. DOMAIN b \subseteq DOMAIN c
    BY <2>1, <2>2
  <2> QED BY <2>1, <2>5, <2>6
<1>2. \A t, o : t \notin {"barang_induk", "kategori_barang"} => Punya(c, t, o) = Punya(b, t, o)
  BY <1>1 DEF Punya
<1>3. \A i, j \in DOMAIN c : c[i].ada /\ c[j].ada /\ Sama(c[i], c[j]) => i = j
  <2> SUFFICES ASSUME NEW i \in DOMAIN c, NEW j \in DOMAIN c, c[i].ada, c[j].ada, Sama(c[i], c[j]) PROVE i = j
    OBVIOUS
  <2>1. c[i].tabel \notin {"barang_induk", "kategori_barang"} /\ c[j].tabel = c[i].tabel
    BY DEF Sama, Tunggal
  <2>2. i \in DOMAIN b /\ j \in DOMAIN b
    BY <1>1, <2>1
  <2> QED BY <1>1, <2>2 DEF TanpaGandaB
<1>4. ASSUME NEW o \in Seller, NEW i \in Punya(c, "rekening_seller", o), NEW j \in Punya(c, "rekening_seller", o),
             c[i].tanda, c[j].tanda
      PROVE  i = j
  <2>1. i \in Punya(b, "rekening_seller", o) /\ j \in Punya(b, "rekening_seller", o)
    BY <1>2
  <2>2. b[i].tanda /\ b[j].tanda
    BY <1>1, <1>4, <2>1 DEF Punya
  <2> QED BY <2>1, <2>2 DEF TanpaGandaB
<1>5. BatasB(c)
  <2>1. \A t \in Terbatas : t \notin {"barang_induk", "kategori_barang"}
    BY DEF Terbatas
  <2> QED BY <1>2, <2>1 DEF BatasB
<1> QED BY <1>3, <1>4, <1>5 DEF TanpaGandaB

LEMMA TertibMasukan ==
    ASSUME TypeInv, tertib, TertibInv, NEW p \in Proses, Langkah(p), MasukanTulis(p)
    PROVE  TertibInv'
<1>1. PICK b, c, r, lt, ls, l : /\ b = baris /\ c = baris' /\ r = proses[p] /\ lt = latar /\ ls = latar'
                                /\ l = LatarMasukan(proses[p], Len(baris) + 1)
  OBVIOUS
<1>2. Beranak(b, c, r) /\ r.tugas = "masukan" /\ r.baris.tabel = "barang_induk" /\ ls = Append(lt, l)
  BY <1>1, MasukanIsi
<1>3. Lanjut(b, c) /\ LatarSah(c, l)
  BY <1>1, MasukanTipe
<1>4. BarisSah(b) /\ LatarSemua(b, lt)
  BY <1>1, BarisProses
<1>5. Bertambah(lt, ls, Len(lt) + 1)
  BY <1>2, <1>3, <1>4, LatarLanjut, SatuBertambah
<1>6. TanpaGandaB(c) /\ BatasB(c)
  BY <1>1, <1>2, <1>4, GandaAnak DEF TertibInv
<1> QED BY <1>1, <1>2, <1>5, <1>6, TertibTulis

LEMMA TertibPutus ==
    ASSUME TypeInv, tertib, TertibInv, NEW p \in Proses, Langkah(p), Putus(p)
    PROVE  TertibInv'
<1>1. Ganti(proses, proses', p, ProsesBebas)
  BY LangkahTipe
<1>2. UNCHANGED <<baris, latar>>
  BY DEF Putus
<1>3. PICK b, ps, ls : b = baris /\ ps = proses' /\ ls = latar
  OBVIOUS
<1>4. Sendiri(ps, ls) /\ \A q \in Proses : ps[q].tugas = "" \/ ps[q] = proses[q]
  BY <1>1, <1>3, SendiriPutus DEF TertibInv
<1>5. \A q \in Proses : Segar(b, ps[q])
  BY <1>3, <1>4, SegarBebas DEF TertibInv
<1>6. TanpaGandaB(b) /\ BatasB(b)
  BY <1>3 DEF TertibInv
<1>7. b = baris' /\ ps = proses' /\ ls = latar'
  BY <1>2, <1>3
<1> QED BY <1>4, <1>5, <1>6, <1>7, TertibAkhir

LEMMA TertibHitung ==
    ASSUME TypeInv, tertib, TertibInv, NEW i \in DOMAIN latar, LatarHitung(i)
    PROVE  TertibInv'
<1>1. latar' = Sisa(i) /\ UNCHANGED <<baris, proses>>
  BY HitungIsi
<1>2. PICK b, ps, ls : b = baris /\ ps = proses /\ ls = Sisa(i)
  OBVIOUS
<1>3. Sendiri(ps, ls)
  BY <1>2, SendiriSisa DEF TertibInv, TypeInv
<1>4. TanpaGandaB(b) /\ BatasB(b) /\ \A q \in Proses : Segar(b, ps[q])
  BY <1>2 DEF TertibInv
<1>5. b = baris' /\ ps = proses' /\ ls = latar'
  BY <1>1, <1>2
<1> QED BY <1>3, <1>4, <1>5, TertibAkhir

\* Rows of which one flag moved, that of an account excepted.
LEMMA SerupaTanda ==
    ASSUME NEW b, BarisSah(b), NEW c, NEW a, Tandai(b, c, a), b[a].tabel # "rekening_seller",
           TanpaGandaB(b), BatasB(b)
    PROVE  TanpaGandaB(c) /\ BatasB(c)
<1>1. Serupa(b, c) /\ RekeningTetap(b, c)
  BY DEF Tandai, Serupa, RekeningTetap
<1> QED BY <1>1, GandaRekening, BatasSerupa

LEMMA TertibAktif ==
    ASSUME TypeInv, tertib, TertibInv, NEW i \in DOMAIN latar, LatarAktif(i)
    PROVE  TertibInv'
<1>1. PICK b, c, ps, ls, a : b = baris /\ c = baris' /\ ps = proses /\ ls = Sisa(i) /\ a = latar[i].aktif
  OBVIOUS
<1>2. /\ b[a].tabel = "diskon_produk" /\ (c = b \/ Tandai(b, c, a)) /\ ls = latar' /\ ps = proses'
  BY <1>1, AktifTipe
<1>3. BarisSah(b) /\ \A q \in Proses : ProsesSah(b, ps[q])
  BY <1>1 DEF TypeInv, ProsesSemua
<1>4. /\ TanpaGandaB(b) /\ BatasB(b) /\ Sendiri(ps, latar)
      /\ \A q \in Proses : Segar(b, ps[q])
  BY <1>1 DEF TertibInv
<1>5. TanpaGandaB(c) /\ BatasB(c)
  BY <1>2, <1>3, <1>4, SerupaTanda
<1>6. Sendiri(ps, ls)
  BY <1>1, <1>4, SendiriSisa DEF TypeInv
<1>7. \A q \in Proses : Segar(c, ps[q])
  BY <1>2, <1>3, <1>4, SegarDiskon
<1> QED BY <1>1, <1>2, <1>5, <1>6, <1>7, TertibAkhir

LEMMA TertibSampai ==
    ASSUME TypeInv, tertib, TertibInv, NEW i, Sampai(i)
    PROVE  TertibInv'
<1>1. PICK b, c, ps, ls : b = baris /\ c = baris' /\ ps = proses /\ ls = latar
  OBVIOUS
<1>2. b[i].tabel = "pesanan" /\ Tandai(b, c, i) /\ Tenang /\ ls = latar' /\ ps = proses'
  BY <1>1, SampaiTipe
<1>3. BarisSah(b)
  BY <1>1 DEF TypeInv
<1>4. TanpaGandaB(b) /\ BatasB(b) /\ Sendiri(ps, ls)
  BY <1>1 DEF TertibInv
<1>5. TanpaGandaB(c) /\ BatasB(c)
  BY <1>2, <1>3, <1>4, SerupaTanda
<1>6. ASSUME NEW q \in Proses PROVE Segar(c, ps[q])
  <2>1. ps[q].tugas = ""
    BY <1>1, <1>2, BebasTugas DEF Tenang
  <2> QED BY <2>1, SegarBebas
<1> QED BY <1>1, <1>2, <1>4, <1>5, <1>6, TertibAkhir

-----------------------------------------------------------------------------
(* What the goroutines will add.                                            *)

\* One number of many is left out.
LEMMA JumlahSisa ==
    ASSUME NEW n \in Nat, NEW i \in 1 .. n, NEW f, Bilangan(f, 1 .. n), NEW g,
           \A j \in 1 .. n - 1 : g[j] = f[Asal(i, j)]
    PROVE  SumFunctionOnSet(g, 1 .. n - 1) = SumFunctionOnSet(f, 1 .. n) - f[i]
<1> DEFINE S == 1 .. n
           T == 1 .. n - 1
           b == [j \in T |-> Asal(i, j)]
<1>1. Padanan(b, T, S \ {i})
  <2>1. \A j \in T : Asal(i, j) \in S \ {i}
    BY DEF Asal
  <2>2. \A j, k \in T : Asal(i, j) = Asal(i, k) => j = k
    BY DEF Asal
  <2>3. \A k \in S \ {i} : \E j \in T : Asal(i, j) = k
    <3> SUFFICES ASSUME NEW k \in S \ {i} PROVE \E j \in T : Asal(i, j) = k
      OBVIOUS
    <3>1. CASE k < i
      BY <3>1 DEF Asal
    <3>2. CASE k > i
      <4>1. k - 1 \in T /\ Asal(i, k - 1) = k
        BY <3>2 DEF Asal
      <4> QED BY <4>1
    <3> QED BY <3>1, <3>2
  <2> HIDE DEF S, T
  <2> QED BY <2>1, <2>2, <2>3 DEF Padanan
<1>2. IsFiniteSet(S) /\ IsFiniteSet(T) /\ IsFiniteSet(S \ {i})
  BY FS_Interval, FS_Subset
<1>3. Bilangan(f, S \ {i})
  BY BilanganBagian
<1>4. \A j \in T : g[j] = f[b[j]]
  OBVIOUS
<1> HIDE DEF S, T, b
<1>5. SumFunctionOnSet(g, T) = SumFunctionOnSet(f, S \ {i})
  BY <1>1, <1>2, <1>3, <1>4, JumlahPadanan
<1>6. i \in S /\ Bilangan(f, S)
  BY DEF S
<1>7. SumFunctionOnSet(f, S) = f[i] + SumFunctionOnSet(f, S \ {i})
  BY <1>2, <1>6, JumlahSatu
<1>8. SumFunctionOnSet(f, S \ {i}) \in Int /\ f[i] \in Int
  BY <1>2, <1>3, <1>6, JumlahTipe DEF Bilangan
<1> QED BY <1>5, <1>7, <1>8 DEF S, T

\* What goroutine l adds to counter k, and all of them.
Ubah(l, k) == Tambahan(l.ubah, k)

Datang(lt, k) == SumFunctionOnSet([i \in DOMAIN lt |-> Ubah(lt[i], k)], DOMAIN lt)

LEMMA DatangSama == \A k : AkanDatang(k) = Datang(latar, k)
BY DEF AkanDatang, Datang, Ubah

LEMMA UbahTipe ==
    ASSUME NEW b, NEW l, LatarSah(b, l), NEW k
    PROVE  Ubah(l, k) \in Int
BY UbahSah, TambahanTipe DEF Ubah

LEMMA DatangTipe ==
    ASSUME NEW b, NEW lt, LatarSemua(b, lt), NEW k
    PROVE  Datang(lt, k) \in Int
<1> DEFINE f == [i \in DOMAIN lt |-> Ubah(lt[i], k)]
<1>1. \A i \in DOMAIN lt : LatarSah(b, lt[i])
  BY DEF LatarSemua
<1>2. Bilangan(f, DOMAIN lt)
  BY <1>1, UbahTipe DEF Bilangan
<1>3. IsFiniteSet(DOMAIN lt)
  BY FS_Interval DEF LatarSemua
<1> HIDE DEF f
<1>4. SumFunctionOnSet(f, DOMAIN lt) \in Int
  BY <1>2, <1>3, JumlahTipe
<1> QED BY <1>4 DEF Datang, f

LEMMA DatangTambah ==
    ASSUME NEW b, NEW lt, LatarSemua(b, lt), NEW l, LatarSah(b, l), NEW k
    PROVE  Datang(Append(lt, l), k) = Datang(lt, k) + Ubah(l, k)
<1> DEFINE n == Len(lt)
           ls == Append(lt, l)
           f == [i \in DOMAIN ls |-> Ubah(ls[i], k)]
           g == [i \in DOMAIN lt |-> Ubah(lt[i], k)]
<1>1. /\ LatarSemua(b, ls) /\ n \in Nat /\ DOMAIN lt = 1 .. n /\ DOMAIN ls = 1 .. n + 1
      /\ \A i \in 1 .. n : ls[i] = lt[i]
      /\ ls[n + 1] = l
  BY LatarTambah
<1> HIDE DEF ls, n
<1>2. Bilangan(f, 1 .. n + 1)
  <2>1. \A i \in DOMAIN ls : LatarSah(b, ls[i])
    BY <1>1 DEF LatarSemua
  <2> QED BY <1>1, <2>1, UbahTipe DEF Bilangan
<1>3. f[n + 1] = Ubah(l, k) /\ \A i \in 1 .. n : f[i] = g[i]
  BY <1>1
<1> HIDE DEF f, g
<1>4. SumFunctionOnSet(f, 1 .. n + 1) = SumFunctionOnSet(f, 1 .. n) + f[n + 1]
  BY <1>1, <1>2, JumlahAkhir
<1>5. SumFunctionOnSet(f, 1 .. n) = SumFunctionOnSet(g, 1 .. n)
  BY <1>3, JumlahSama
<1> QED BY <1>1, <1>3, <1>4, <1>5 DEF Datang, f, g, ls

LEMMA DatangSisa ==
    ASSUME NEW b, LatarSemua(b, latar), NEW i \in DOMAIN latar, NEW k
    PROVE  Datang(Sisa(i), k) = Datang(latar, k) - Ubah(latar[i], k)
<1> DEFINE n == Len(latar)
           ls == Sisa(i)
           f == [j \in DOMAIN latar |-> Ubah(latar[j], k)]
           g == [j \in DOMAIN ls |-> Ubah(ls[j], k)]
<1>1. /\ n \in Nat /\ DOMAIN latar = 1 .. n /\ i \in 1 .. n /\ DOMAIN ls = 1 .. n - 1
      /\ \A j \in 1 .. n - 1 : ls[j] = latar[Asal(i, j)]
  BY SisaIsi
<1> HIDE DEF n, ls
<1>2. Bilangan(f, 1 .. n)
  <2>1. \A j \in DOMAIN latar : LatarSah(b, latar[j])
    BY DEF LatarSemua
  <2> QED BY <1>1, <2>1, UbahTipe DEF Bilangan
<1>3. \A j \in 1 .. n - 1 : Asal(i, j) \in 1 .. n
  BY <1>1 DEF Asal
<1>4. f[i] = Ubah(latar[i], k) /\ \A j \in 1 .. n - 1 : g[j] = f[Asal(i, j)]
  BY <1>1, <1>3
<1> HIDE DEF f, g
<1>5. SumFunctionOnSet(g, 1 .. n - 1) = SumFunctionOnSet(f, 1 .. n) - f[i]
  BY <1>1, <1>2, <1>4, JumlahSisa
<1> QED BY <1>1, <1>4, <1>5 DEF Datang, f, g, ls

LEMMA CocokanTambahan ==
    ASSUME NEW S, NEW U, NEW r, NEW n \in Int, Cocokan(S, U, r, n), U \subseteq Perubahan,
           NEW c \in S, NEW x \in Nat
    PROVE  /\ Menghitung(r, c, x) => Tambahan(U, <<c, x>>) = n
           /\ ~Menghitung(r, c, x) => Tambahan(U, <<c, x>>) = 0
<1>1. \A u \in U : u = <<u[1], u[2], u[3]>>
  BY DEF Perubahan
<1>2. ASSUME Menghitung(r, c, x) PROVE Tambahan(U, <<c, x>>) = n
  <2>1. PICK e : e = <<c, x, n>>
    OBVIOUS
  <2>2. e \in U
    BY <1>2, <2>1 DEF Cocokan
  <2>3. <<e[1], e[2]>> = <<c, x>> /\ e[3] = n
    BY <2>1
  <2>4. \A u \in U : <<u[1], u[2]>> = <<c, x>> => u = e
    <3> SUFFICES ASSUME NEW u \in U, <<u[1], u[2]>> = <<c, x>> PROVE u = e
      OBVIOUS
    <3>1. u[1] = c /\ u[2] = x
      OBVIOUS
    <3>2. u[3] = n
      BY <3>1 DEF Cocokan
    <3> QED BY <1>1, <2>1, <3>1, <3>2
  <2>5. e[3] \in Int
    BY <2>3
  <2> QED BY <2>2, <2>3, <2>4, <2>5, TambahanSatu
<1>3. ASSUME ~Menghitung(r, c, x) PROVE Tambahan(U, <<c, x>>) = 0
  <2>1. \A u \in U : <<u[1], u[2]>> # <<c, x>>
    BY <1>3 DEF Cocokan
  <2> QED BY <2>1, TambahanNol
<1> QED BY <1>2, <1>3

-----------------------------------------------------------------------------
(* Counters of people.                                                      *)

IkutSah(r) == r.ikut \in TabelIkut \cup {""}
Disusul(lt, ls, U) == \A k : Datang(ls, k) = Datang(lt, k) + Tambahan(U, k)
Berkurang(b, r, U) == Cocokan(KolomOrang, U, b[r.id], Turun)
Catat(h, lt, k) == Nilai(h, k) + Datang(lt, k)
Orang(b, h, lt, t) ==
    \A c \in KolomOrang, x \in Nat \ {0} :
        /\ Catat(h, lt, <<c, x>>) <= Cardinality(Terhitung(b, c, x))
        /\ t => Catat(h, lt, <<c, x>>) = Cardinality(Terhitung(b, c, x))

\* A new row, and others after it that no counter of a person counts.
Diikuti(b, c, r) ==
    /\ Len(b) + 1 \in DOMAIN c /\ Len(b) + 1 \notin DOMAIN b /\ DOMAIN b \subseteq DOMAIN c
    /\ \A j \in DOMAIN b : c[j] = b[j]
    /\ c[Len(b) + 1] = r
    /\ \A j \in DOMAIN c : j \notin DOMAIN b /\ j # Len(b) + 1 => \A k \in KolomOrang : \A x : ~Menghitung(c[j], k, x)

\* Rows that the same counters of people count.
Setara(b, c) ==
    /\ DOMAIN c = DOMAIN b
    /\ \A j \in DOMAIN b : /\ c[j].tabel = b[j].tabel /\ c[j].dari = b[j].dari /\ c[j].ada = b[j].ada
                           /\ c[j].tabel \in TabelNama \/ c[j].ke = b[j].ke

LEMMA OrangSama == OrangInv <=> Orang(baris, hitung, latar, tertib)
<1>1. \A k : Catat(hitung, latar, k) = Isi(k) + AkanDatang(k)
  BY IsiNilai, DatangSama DEF Catat
<1> QED BY <1>1 DEF OrangInv, Orang

LEMMA OrangAkhir ==
    ASSUME NEW b, NEW h, NEW lt, NEW t, b = baris', h = hitung', lt = latar', t = tertib', Orang(b, h, lt, t)
    PROVE  OrangInv'
<1>1. ASSUME NEW k PROVE Catat(h, lt, k) = (Isi(k) + AkanDatang(k))'
  BY DEF Catat, Nilai, Isi, Datang, AkanDatang, Ubah
<1>2. ASSUME NEW c \in KolomOrang, NEW x \in Nat \ {0}
      PROVE  (/\ Isi(<<c, x>>) + AkanDatang(<<c, x>>) <= Cardinality(Terhitung(baris, c, x))
              /\ tertib => Isi(<<c, x>>) + AkanDatang(<<c, x>>) = Cardinality(Terhitung(baris, c, x)))'
  <2>1. PICK k : k = <<c, x>>
    OBVIOUS
  <2>2. /\ Catat(h, lt, k) <= Cardinality(Terhitung(b, c, x))
        /\ t => Catat(h, lt, k) = Cardinality(Terhitung(b, c, x))
    BY <2>1 DEF Orang
  <2>3. Catat(h, lt, k) = (Isi(k) + AkanDatang(k))'
    BY <1>1
  <2>4. (Isi(k) + AkanDatang(k) <= Cardinality(Terhitung(baris, c, x)))'
    BY <2>2, <2>3
  <2>5. (tertib => Isi(k) + AkanDatang(k) = Cardinality(Terhitung(baris, c, x)))'
    BY <2>2, <2>3
  <2> QED BY <2>1, <2>4, <2>5
<1> QED BY <1>2 DEF OrangInv

LEMMA TerhitungHingga ==
    ASSUME NEW b, BarisSah(b)
    PROVE  \A k, x : /\ Terhitung(b, k, x) \subseteq DOMAIN b /\ IsFiniteSet(Terhitung(b, k, x))
                     /\ Cardinality(Terhitung(b, k, x)) \in Nat
<1>1. IsFiniteSet(DOMAIN b)
  BY BarisDomain, FS_Interval
<1>2. \A k, x : Terhitung(b, k, x) \subseteq DOMAIN b
  BY DEF Terhitung
<1> QED BY <1>1, <1>2, FS_Subset, FS_CardinalityType

LEMMA TerhitungTambah ==
    ASSUME NEW b, BarisSah(b), NEW c, NEW r, Diikuti(b, c, r), r.ada, NEW k \in KolomOrang, NEW x
    PROVE  /\ Menghitung(r, k, x) => Cardinality(Terhitung(c, k, x)) = Cardinality(Terhitung(b, k, x)) + 1
           /\ ~Menghitung(r, k, x) => Terhitung(c, k, x) = Terhitung(b, k, x)
<1> DEFINE n == Len(b) + 1
<1>1. /\ n \in DOMAIN c /\ n \notin DOMAIN b /\ DOMAIN b \subseteq DOMAIN c /\ c[n] = r
      /\ \A j \in DOMAIN b : c[j] = b[j]
      /\ \A j \in DOMAIN c : Menghitung(c[j], k, x) => j \in DOMAIN b \/ j = n
  BY DEF Diikuti
<1> HIDE DEF n
<1>2. Menghitung(r, k, x) => Terhitung(c, k, x) = Terhitung(b, k, x) \cup {n}
  BY <1>1 DEF Terhitung
<1>3. ~Menghitung(r, k, x) => Terhitung(c, k, x) = Terhitung(b, k, x)
  BY <1>1 DEF Terhitung
<1>4. IsFiniteSet(Terhitung(b, k, x)) /\ n \notin Terhitung(b, k, x)
  BY <1>1, TerhitungHingga
<1>5. Cardinality(Terhitung(b, k, x) \cup {n}) = Cardinality(Terhitung(b, k, x)) + 1
  BY <1>4, FS_AddElement
<1> QED BY <1>2, <1>3, <1>5

\* The rows deleted with another one are counted by threshold rows only.
LEMMA TerhitungHapus ==
    ASSUME NEW b, BarisSah(b), NEW c, NEW r, Dihapus(b, c, r), IkutSah(r),
           NEW k \in KolomOrang, NEW x
    PROVE  Terhitung(c, k, x) = Terhitung(b, k, x) \ {r.id}
<1>1. k \in DOMAIN KolomBenar /\ k \notin KolomRujuk
  BY KolomDomain DEF KolomOrang, KolomRujuk
<1>2. \A j \in DOMAIN b : Menghitung(c[j], k, x) <=> Menghitung(b[j], k, x)
  BY MenghitungOrang DEF Dihapus
<1>3. \A j \in DOMAIN b : b[j].tabel # ""
  <2>1. "" \notin Tabel
    BY DEF Tabel, BerAmbang
  <2>2. \A j \in DOMAIN b : b[j] \in TipeBaris(Len(b))
    BY BarisDomain
  <2>3. \A j \in DOMAIN b : b[j].tabel \in Tabel
    BY <2>2 DEF TipeBaris
  <2> QED BY <2>1, <2>3
<1>4. \A j \in DOMAIN b : Menghitung(b[j], k, x) => b[j].tabel \notin TabelIkut
  BY <1>1, Penghitungan DEF TabelIkut, KolomRujuk
<1>5. \A j \in DOMAIN b : Menghitung(b[j], k, x) => (j \in Sasaran(b, r) <=> j = r.id)
  BY <1>3, <1>4 DEF Sasaran, IkutSah
<1> QED BY <1>2, <1>5 DEF Terhitung, Dihapus

LEMMA TerhitungTetap ==
    ASSUME NEW b, NEW c, Setara(b, c), NEW k \in KolomOrang, NEW x
    PROVE  Terhitung(c, k, x) = Terhitung(b, k, x)
<1>1. \A j \in DOMAIN b : Menghitung(c[j], k, x) <=> Menghitung(b[j], k, x)
  BY MenghitungOrang DEF Setara
<1> QED BY <1>1 DEF Terhitung, Setara

LEMMA CatatTipe ==
    ASSUME NEW b, NEW h, HitungSah(h), NEW lt, LatarSemua(b, lt), NEW k
    PROVE  Catat(h, lt, k) \in Int /\ Nilai(h, k) \in Int /\ Datang(lt, k) \in Int
BY NilaiTipe, DatangTipe DEF Catat

\* Rows that count the same, and goroutines that will add the same.
LEMMA OrangTetap ==
    ASSUME NEW b, NEW c, NEW h, NEW lt, NEW ls, NEW t, Orang(b, h, lt, t), Setara(b, c),
           \A k \in KolomOrang, x \in Nat : Datang(ls, <<k, x>>) = Datang(lt, <<k, x>>)
    PROVE  Orang(c, h, ls, t)
<1>1. \A k \in KolomOrang, x \in Nat : Catat(h, ls, <<k, x>>) = Catat(h, lt, <<k, x>>)
  BY DEF Catat
<1>2. \A k \in KolomOrang : \A x : Terhitung(c, k, x) = Terhitung(b, k, x)
  BY TerhitungTetap
<1> QED BY <1>1, <1>2 DEF Orang

LEMMA OrangTambah ==
    ASSUME NEW b, BarisSah(b), NEW c, NEW r, Diikuti(b, c, r), r.ada, NEW h, HitungSah(h),
           NEW lt, LatarSemua(b, lt), NEW ls, NEW t, Orang(b, h, lt, t),
           NEW U, U \subseteq Perubahan, Cocokan(KolomOrang, U, r, Naik),
           Disusul(lt, ls, U)
    PROVE  Orang(c, h, ls, t)
<1> SUFFICES ASSUME NEW k \in KolomOrang, NEW x \in Nat \ {0}
             PROVE  /\ Catat(h, ls, <<k, x>>) <= Cardinality(Terhitung(c, k, x))
                    /\ t => Catat(h, ls, <<k, x>>) = Cardinality(Terhitung(c, k, x))
  BY DEF Orang
<1>1. PICK q : q = <<k, x>>
  OBVIOUS
<1>2. PICK n \in Int : n = 1 /\ n = Naik
  BY DEF Naik
<1>3. k \in DOMAIN KolomBenar /\ x \in Nat
  BY KolomDomain
<1>4. /\ Menghitung(r, k, x) => Tambahan(U, q) = n
      /\ ~Menghitung(r, k, x) => Tambahan(U, q) = 0
  <2>1. Cocokan(KolomOrang, U, r, n)
    BY <1>2
  <2> QED BY <1>1, <1>3, <2>1, CocokanTambahan
<1>5. /\ Catat(h, lt, q) <= Cardinality(Terhitung(b, k, x))
      /\ t => Catat(h, lt, q) = Cardinality(Terhitung(b, k, x))
  BY <1>1 DEF Orang
<1>6. /\ Nilai(h, q) \in Int /\ Datang(lt, q) \in Int /\ Catat(h, lt, q) \in Int
      /\ Cardinality(Terhitung(b, k, x)) \in Nat
  <2>1. Cardinality(Terhitung(b, k, x)) \in Nat
    BY TerhitungHingga
  <2> QED BY <2>1, CatatTipe, TerhitungTambah
<1>7. Catat(h, ls, q) = Catat(h, lt, q) + Tambahan(U, q)
  <2>1. Tambahan(U, q) \in Int
    BY <1>2, <1>4
  <2> QED BY <2>1, <1>6 DEF Catat, Disusul
<1>8. CASE Menghitung(r, k, x)
  <2>1. Cardinality(Terhitung(c, k, x)) = Cardinality(Terhitung(b, k, x)) + 1
    BY <1>8, TerhitungTambah
  <2>2. Cardinality(Terhitung(b, k, x)) \in Nat
    BY TerhitungHingga
  <2>3. Catat(h, ls, q) = Catat(h, lt, q) + 1
    BY <1>2, <1>4, <1>7, <1>8
  <2> QED BY <2>1, <2>2, <2>3, <1>1, <1>5, <1>6
<1>9. CASE ~Menghitung(r, k, x)
  <2>1. Terhitung(c, k, x) = Terhitung(b, k, x)
    BY <1>9, TerhitungTambah
  <2>2. Catat(h, ls, q) = Catat(h, lt, q)
    BY <1>4, <1>6, <1>7, <1>9
  <2> QED BY <2>1, <2>2, <1>1, <1>5
<1> QED BY <1>8, <1>9

LEMMA OrangHapus ==
    ASSUME NEW b, BarisSah(b), NEW c, NEW r, Dihapus(b, c, r), IkutSah(r), r.id \in DOMAIN b,
           NEW h, HitungSah(h), NEW lt, LatarSemua(b, lt), NEW ls, NEW t, Orang(b, h, lt, t),
           NEW U, U \subseteq Perubahan, Berkurang(b, r, U),
           Disusul(lt, ls, U), t => b[r.id].ada
    PROVE  Orang(c, h, ls, t)
<1> SUFFICES ASSUME NEW k \in KolomOrang, NEW x \in Nat \ {0}
             PROVE  /\ Catat(h, ls, <<k, x>>) <= Cardinality(Terhitung(c, k, x))
                    /\ t => Catat(h, ls, <<k, x>>) = Cardinality(Terhitung(c, k, x))
  BY DEF Orang
<1>1. PICK q, s, i, S : q = <<k, x>> /\ s = b[r.id] /\ i = r.id /\ S = Terhitung(b, k, x)
  OBVIOUS
<1>2. PICK n \in Int : n = Turun /\ n + 1 = 0
  BY DEF Turun
<1>3. /\ Menghitung(s, k, x) => Tambahan(U, q) = n
      /\ ~Menghitung(s, k, x) => Tambahan(U, q) = 0
  <2>1. Cocokan(KolomOrang, U, s, n)
    BY <1>1, <1>2 DEF Berkurang
  <2>2. x \in Nat
    OBVIOUS
  <2>3. /\ Menghitung(s, k, x) => Tambahan(U, <<k, x>>) = n
        /\ ~Menghitung(s, k, x) => Tambahan(U, <<k, x>>) = 0
    BY <2>1, <2>2, CocokanTambahan
  <2> QED BY <1>1, <2>3
<1>w. PICK w : w = Catat(h, ls, q)
  OBVIOUS
<1>4. PICK v \in Int, d \in Int, m \in Nat, a \in Int :
        v = Nilai(h, q) /\ d = Datang(lt, q) /\ m = Cardinality(S) /\ a = Tambahan(U, q)
  <2>1. Nilai(h, q) \in Int /\ Datang(lt, q) \in Int
    BY CatatTipe
  <2>2. Cardinality(S) \in Nat
    BY <1>1, TerhitungHingga
  <2>3. Tambahan(U, q) \in Int
    BY <1>2, <1>3
  <2> QED BY <2>1, <2>2, <2>3
<1>5. v + d <= m /\ (t => v + d = m)
  BY <1>1, <1>4 DEF Orang, Catat
<1>6. w = v + (d + a)
  BY <1>w, <1>4 DEF Catat, Disusul
<1>7. Terhitung(c, k, x) = S \ {i}
  <2>1. Terhitung(c, k, x) = Terhitung(b, k, x) \ {r.id}
    BY TerhitungHapus
  <2> QED BY <1>1, <2>1
<1>9. w <= Cardinality(Terhitung(c, k, x)) /\ (t => w = Cardinality(Terhitung(c, k, x)))
  <2>1. CASE i \in S
    <3>1. Menghitung(s, k, x)
      BY <1>1, <2>1 DEF Terhitung
    <3>2. a = n
      BY <1>3, <1>4, <3>1
    <3>3. IsFiniteSet(S)
      BY <1>1, TerhitungHingga
    <3>4. Cardinality(S \ {i}) = m - 1
      BY <1>4, <2>1, <3>3, FS_RemoveElement
    <3>5. w <= m - 1 /\ (t => w = m - 1)
      BY <1>2, <1>5, <1>6, <3>2
    <3> QED BY <1>7, <3>4, <3>5
  <2>2. CASE i \notin S
    <3>1. S \ {i} = S
      BY <2>2
    <3>2. a = 0 \/ a = n
      BY <1>3, <1>4
    <3>3. t => a = 0
      <4>1. s.ada => ~Menghitung(s, k, x)
        BY <1>1, <2>2 DEF Terhitung
      <4> QED BY <4>1, <1>1, <1>3, <1>4
    <3>4. w <= m /\ (t => w = m)
      BY <1>2, <1>5, <1>6, <3>2, <3>3
    <3> QED BY <1>4, <1>7, <3>1, <3>4
  <2> QED BY <2>1, <2>2
<1> QED BY <1>1, <1>w, <1>9

LEMMA UbahBuat ==
    ASSUME NEW b, NEW r, ProsesSah(b, r), NEW n
    PROVE  LatarBuat(r, n).ubah = r.latar.ubah /\ LatarMenunggu(n).ubah = {}
<1>1. r.latar \in TipeLatar(Len(b))
  BY DEF ProsesSah, LatarSah
<1>2. LatarBuat(r, n).ubah = r.latar.ubah
  BY <1>1 DEF LatarBuat, TipeLatar
<1>3. LatarMenunggu(n).ubah = {}
  BY DEF LatarMenunggu, LatarKosong
<1> QED BY <1>2, <1>3

LEMMA SusulSatu ==
    ASSUME NEW b, NEW lt, LatarSemua(b, lt), NEW l, LatarSah(b, l)
    PROVE  Disusul(lt, Append(lt, l), l.ubah)
BY DatangTambah DEF Disusul, Ubah

LEMMA BuatSusul ==
    ASSUME TypeInv, NEW p \in Proses, BuatTulis(p)
    PROVE  Disusul(latar, latar', proses[p].latar.ubah)
<1>1. PICK b, c, r, lt, ls, n, l, m :
        /\ b = baris /\ c = baris' /\ r = proses[p] /\ lt = latar /\ ls = latar' /\ n = Len(baris) + 1
        /\ l = LatarBuat(proses[p], Len(baris) + 1) /\ m = LatarMenunggu(Len(baris) + 1)
  OBVIOUS
<1>2. /\ r.baris.tabel = "diskon_produk" => ls = Append(Append(lt, l), m)
      /\ r.baris.tabel # "diskon_produk" => ls = Append(lt, l)
  BY <1>1, BuatIsi
<1>3. Lanjut(b, c) /\ LatarSah(c, l) /\ (LatarSah(c, m) \/ r.baris.tabel # "diskon_produk")
  BY <1>1, BuatTipe
<1>4. BarisSah(b) /\ LatarSemua(b, lt) /\ ProsesSah(b, r)
  BY <1>1, BarisProses
<1>5. LatarSemua(c, lt)
  BY <1>3, <1>4, LatarLanjut
<1>6. l.ubah = r.latar.ubah /\ m.ubah = {}
  BY <1>1, <1>4, UbahBuat
<1>7. Disusul(lt, Append(lt, l), r.latar.ubah) /\ LatarSemua(c, Append(lt, l))
  <2>1. Disusul(lt, Append(lt, l), l.ubah) /\ LatarSemua(c, Append(lt, l))
    BY <1>3, <1>5, SusulSatu, LatarTambah
  <2> QED BY <2>1, <1>6
<1>8. CASE r.baris.tabel = "diskon_produk"
  <2>1. PICK lu : lu = Append(lt, l)
    OBVIOUS
  <2>2. Disusul(lu, Append(lu, m), m.ubah)
    BY <1>3, <1>7, <1>8, <2>1, SusulSatu
  <2>3. \A k : Tambahan(m.ubah, k) = 0
    BY <1>6, TambahanNol
  <2>4. \A k : Datang(Append(lu, m), k) = Datang(lu, k)
    <3>1. \A k : Datang(lu, k) \in Int
      BY <1>7, <2>1, DatangTipe
    <3> QED BY <2>2, <2>3, <3>1 DEF Disusul
  <2>5. Disusul(lt, Append(lu, m), r.latar.ubah)
    BY <1>7, <2>1, <2>4 DEF Disusul
  <2> QED BY <1>1, <1>2, <1>8, <2>1, <2>5
<1>9. CASE r.baris.tabel # "diskon_produk"
  BY <1>1, <1>2, <1>7, <1>9
<1> QED BY <1>8, <1>9

LEMMA DitambahDiikuti ==
    ASSUME NEW b, NEW c, NEW r, Ditambah(b, c, r)
    PROVE  Diikuti(b, c, r)
<1> DEFINE n == Len(b) + 1
<1>1. DOMAIN c = DOMAIN b \cup {n} /\ n \notin DOMAIN b /\ c[n] = r /\ \A j \in DOMAIN b : c[j] = b[j]
  BY DEF Ditambah
<1> QED BY <1>1 DEF Diikuti

LEMMA OrangBuat ==
    ASSUME TypeInv, ~gangguan, OrangInv, NEW p \in Proses, Hitungan(baris, proses[p]), Langkah(p), BuatTulis(p)
    PROVE  OrangInv'
<1>1. PICK b, c, r, lt, ls, s, h, t, U :
        /\ b = baris /\ c = baris' /\ r = proses[p] /\ lt = latar /\ ls = latar' /\ s = proses[p].baris
        /\ h = hitung /\ t = tertib /\ U = proses[p].latar.ubah
  OBVIOUS
<1>2. Ditambah(b, c, s) /\ r.tugas = "buat" /\ s.ada
  BY <1>1, BuatRinci
<1>3. BarisSah(b) /\ LatarSemua(b, lt) /\ HitungSah(h) /\ LatarSah(b, r.latar)
  BY <1>1, BarisProses DEF TypeInv
<1>4. U \subseteq Perubahan
  BY <1>1, <1>3 DEF LatarSah, TipeLatar
<1>5. Cocokan(KolomOrang, U, s, Naik)
  <2>1. Cocokan(DOMAIN KolomBenar, U, s, Naik)
    BY <1>1, <1>2 DEF Hitungan
  <2> QED BY <2>1, KolomDomain DEF Cocokan
<1>6. Disusul(lt, ls, U)
  BY <1>1, BuatSusul
<1>7. Orang(b, h, lt, t)
  BY <1>1, OrangSama
<1>8. Orang(c, h, ls, t)
  BY DitambahDiikuti, <1>2, <1>3, <1>4, <1>5, <1>6, <1>7, OrangTambah
<1>9. h = hitung' /\ t = tertib'
  BY <1>1, LangkahTipe
<1> QED BY <1>1, <1>8, <1>9, OrangAkhir

LEMMA AnakDiikuti ==
    ASSUME NEW b, BarisSah(b), NEW c, NEW r, Beranak(b, c, r)
    PROVE  Diikuti(b, c, r.baris)
<1> PICK n, m : n = Len(b) + 1 /\ m = r.anak.banyak
  OBVIOUS
<1>1. /\ n \in Nat /\ m \in Nat /\ n = Len(b) + 1 /\ DOMAIN c = 1 .. n + m
      /\ \A i \in DOMAIN b : c[i] = b[i]
      /\ c[n] = r.baris
      /\ \A j \in n + 1 .. n + m : c[j] = AnakBaris(r, n)
  <2>1. Len(b) \in Nat
    BY BarisDomain
  <2>2. n \in Nat
    BY <2>1
  <2> QED BY <2>2 DEF Beranak
<1>2. DOMAIN b = 1 .. Len(b) /\ Len(b) \in Nat
  BY BarisDomain
<1>3. AnakBaris(r, n).tabel = "kategori_barang"
  BY DEF AnakBaris, Baris
<1>4. n \in DOMAIN c /\ n \notin DOMAIN b /\ DOMAIN b \subseteq DOMAIN c
  BY <1>1, <1>2
<1>5. ASSUME NEW j \in DOMAIN c, j \notin DOMAIN b, j # n PROVE c[j] = AnakBaris(r, n)
  <2>1. j \in n + 1 .. n + m
    BY <1>1, <1>2, <1>5
  <2> QED BY <1>1, <2>1
<1>6. \A k \in KolomOrang : \A x : ~Menghitung(AnakBaris(r, n), k, x)
  <2>1. \A k \in KolomOrang : k \in DOMAIN KolomBenar /\ k \notin KolomRujuk
    BY KolomDomain DEF KolomOrang, KolomRujuk
  <2> QED BY <1>3, <2>1, Penghitungan DEF KolomRujuk
<1> QED BY <1>1, <1>4, <1>5, <1>6 DEF Diikuti

\* The goroutine of a new product also raises the counter of its own threshold row.
LEMMA UbahMasukan ==
    ASSUME NEW b, NEW r, ProsesSah(b, r), NEW n
    PROVE  LatarMasukan(r, n).ubah = r.latar.ubah \cup {<<"barang_kategori", n, r.anak.banyak>>}
<1>1. r.latar \in TipeLatar(Len(b))
  BY DEF ProsesSah, LatarSah
<1> QED BY <1>1 DEF LatarMasukan, TipeLatar

LEMMA OrangMasukan ==
    ASSUME TypeInv, ~gangguan, OrangInv, NEW p \in Proses, Hitungan(baris, proses[p]), Langkah(p), MasukanTulis(p)
    PROVE  OrangInv'
<1>1. PICK b, c, r, lt, ls, s, h, t, l, U :
        /\ b = baris /\ c = baris' /\ r = proses[p] /\ lt = latar /\ ls = latar' /\ s = proses[p].baris
        /\ h = hitung /\ t = tertib /\ l = LatarMasukan(proses[p], Len(baris) + 1)
        /\ U = LatarMasukan(proses[p], Len(baris) + 1).ubah
  OBVIOUS
<1>2. Beranak(b, c, r) /\ r.tugas = "masukan" /\ s.ada /\ ls = Append(lt, l)
  BY <1>1, MasukanIsi
<1>3. BarisSah(b) /\ LatarSemua(b, lt) /\ HitungSah(h) /\ ProsesSah(b, r)
  BY <1>1, BarisProses DEF TypeInv
<1>4. Lanjut(b, c) /\ LatarSah(c, l)
  BY <1>1, MasukanTipe
<1>5. U \subseteq Perubahan
  <2>1. l.ubah \subseteq Perubahan
    BY <1>4 DEF LatarSah, TipeLatar
  <2> QED BY <1>1, <2>1
<1>6. Cocokan(KolomOrang, U, s, Naik)
  <2>1. Cocokan(DOMAIN KolomBenar, r.latar.ubah, s, Naik)
    BY <1>1, <1>2 DEF Hitungan
  <2>2. PICK e : e = <<"barang_kategori", Len(b) + 1, r.anak.banyak>>
    OBVIOUS
  <2>3. U = r.latar.ubah \cup {e}
    BY <1>1, <1>3, <2>2, UbahMasukan
  <2>4. e[1] \notin KolomOrang
    BY <2>2 DEF KolomOrang
  <2> QED BY <2>1, <2>3, <2>4, KolomDomain DEF Cocokan
<1>7. Disusul(lt, ls, U)
  <2>1. LatarSemua(c, lt)
    BY <1>3, <1>4, LatarLanjut
  <2>2. Disusul(lt, ls, l.ubah)
    BY <1>2, <1>4, <2>1, SusulSatu
  <2> QED BY <1>1, <2>2
<1>8. Orang(b, h, lt, t)
  BY <1>1, OrangSama
<1>9. Diikuti(b, c, s)
  BY <1>1, <1>2, <1>3, AnakDiikuti
<1>10. Orang(c, h, ls, t)
  BY <1>2, <1>3, <1>5, <1>6, <1>7, <1>8, <1>9, OrangTambah
<1>11. h = hitung' /\ t = tertib'
  BY <1>1, LangkahTipe
<1> QED BY <1>1, <1>10, <1>11, OrangAkhir

LEMMA OrangHapusTulis ==
    ASSUME TypeInv, ~gangguan, OrangInv, tertib => TertibInv, NEW p \in Proses, Hitungan(baris, proses[p]),
           Langkah(p), HapusTulis(p)
    PROVE  OrangInv'
<1>1. PICK b, c, r, lt, ls, h, t, U :
        /\ b = baris /\ c = baris' /\ r = proses[p] /\ lt = latar /\ ls = latar'
        /\ h = hitung /\ t = tertib /\ U = proses[p].latar.ubah
  OBVIOUS
<1>2. r.tugas = "hapus" /\ r.id \in DOMAIN b /\ ls = Append(lt, r.latar)
  BY <1>1, HapusIsi
<1>3. BarisSah(b) /\ LatarSemua(b, lt) /\ HitungSah(h) /\ LatarSah(b, r.latar) /\ r \in TipeProses(Len(b))
  BY <1>1, BarisProses DEF TypeInv
<1>4. U \subseteq Perubahan
  BY <1>1, <1>3 DEF LatarSah, TipeLatar
<1>5. IkutSah(r)
  BY <1>3 DEF TipeProses, IkutSah
<1>6. Berkurang(b, r, U)
  BY <1>1, <1>2 DEF Hitungan, Berkurang
<1>7. Disusul(lt, ls, U)
  BY <1>1, <1>2, <1>3, SusulSatu
<1>8. Dihapus(b, c, r)
  BY <1>1, HapusRinci
<1>9. t => b[r.id].ada
  BY <1>1, <1>2 DEF TertibInv, Segar, SegarHapus
<1>10. Orang(b, h, lt, t)
  BY <1>1, OrangSama
<1>11. Orang(c, h, ls, t)
  BY <1>2, <1>3, <1>4, <1>5, <1>6, <1>7, <1>8, <1>9, <1>10, OrangHapus
<1>12. h = hitung' /\ t = tertib'
  BY <1>1, LangkahTipe
<1> QED BY <1>1, <1>11, <1>12, OrangAkhir

LEMMA OrangGanti ==
    ASSUME TypeInv, ~gangguan, OrangInv, NEW p \in Proses, Langkah(p), GantiTulis(p)
    PROVE  OrangInv'
<1>1. PICK b, c, i, lt, h, t :
        b = baris /\ c = baris' /\ i = proses[p].id /\ lt = latar /\ h = hitung /\ t = tertib
  OBVIOUS
<1>2. i \in DOMAIN b /\ b[i].tabel \in TabelNama /\ Berganti(b, c, i) /\ lt = latar' /\ DOMAIN c = DOMAIN b
  BY <1>1, GantiIsi
<1>3. Orang(b, h, lt, t)
  BY <1>1, OrangSama
<1>4. Setara(b, c)
  BY <1>2 DEF Berganti, Setara
<1>5. Orang(c, h, lt, t)
  BY <1>3, <1>4, OrangTetap
<1>6. h = hitung' /\ t = tertib'
  BY <1>1, LangkahTipe
<1> QED BY <1>1, <1>2, <1>5, <1>6, OrangAkhir

LEMMA OrangTandai ==
    ASSUME TypeInv, ~gangguan, OrangInv, NEW p \in Proses, Langkah(p), TandaiTulis(p)
    PROVE  OrangInv'
<1>1. PICK b, c, r, lt, h, t :
        b = baris /\ c = baris' /\ r = proses[p] /\ lt = latar /\ h = hitung /\ t = tertib
  OBVIOUS
<1>2. Ditandai(b, c, r) /\ lt = latar'
  BY <1>1, TandaiRinci, TandaiIsi
<1>3. Orang(b, h, lt, t)
  BY <1>1, OrangSama
<1>4. Setara(b, c)
  BY <1>2 DEF Ditandai, Setara
<1>5. Orang(c, h, lt, t)
  BY <1>3, <1>4, OrangTetap
<1>6. h = hitung' /\ t = tertib'
  BY <1>1, LangkahTipe
<1> QED BY <1>1, <1>2, <1>5, <1>6, OrangAkhir

LEMMA OrangPindah ==
    ASSUME TypeInv, ~gangguan, OrangInv, NEW p \in Proses, Hitungan(baris, proses[p]), Langkah(p), PindahTulis(p)
    PROVE  OrangInv'
<1>1. PICK b, c, r, lt, ls, h, t, U :
        /\ b = baris /\ c = baris' /\ r = proses[p] /\ lt = latar /\ ls = latar'
        /\ h = hitung /\ t = tertib /\ U = proses[p].latar.ubah
  OBVIOUS
<1>2. r.tugas = "pindah" /\ ls = Append(lt, r.latar) /\ Berpindah(b, c, r) /\ DOMAIN c = DOMAIN b
  BY <1>1, PindahIsi
<1>3. BarisSah(b) /\ LatarSemua(b, lt) /\ LatarSah(b, r.latar)
  BY <1>1, BarisProses
<1>4. Disusul(lt, ls, U)
  BY <1>1, <1>2, <1>3, SusulSatu
<1>5. \A u \in U : u[1] \in KolomAmbang
  BY <1>1, <1>2 DEF Hitungan, KolomKali, KolomAmbang
<1>6. ASSUME NEW k \in KolomOrang, NEW x \in Nat PROVE Datang(ls, <<k, x>>) = Datang(lt, <<k, x>>)
  <2>1. \A u \in U : <<u[1], u[2]>> # <<k, x>>
    BY <1>5, KolomDomain
  <2>2. Tambahan(U, <<k, x>>) = 0
    BY <2>1, TambahanNol
  <2>3. Datang(lt, <<k, x>>) \in Int
    BY <1>3, DatangTipe
  <2> QED BY <1>4, <2>2, <2>3 DEF Disusul
<1>7. Setara(b, c)
  BY <1>2 DEF Berpindah, Setara
<1>8. Orang(b, h, lt, t)
  BY <1>1, OrangSama
<1>9. Orang(c, h, ls, t)
  BY <1>2, <1>6, <1>7, <1>8, OrangTetap
<1>10. h = hitung' /\ t = tertib'
  BY <1>1, LangkahTipe
<1> QED BY <1>1, <1>9, <1>10, OrangAkhir

LEMMA OrangMinta ==
    ASSUME TypeInv, OrangInv, NEW p \in Proses, Minta(p)
    PROVE  OrangInv'
<1>1. UNCHANGED <<baris, ambang, hitung, latar>> /\ UNCHANGED <<gangguan, tertib>>
  BY MintaTipe
<1>2. PICK b, lt, h, t : b = baris /\ lt = latar /\ h = hitung /\ t = tertib
  OBVIOUS
<1>3. Orang(b, h, lt, t)
  BY <1>2, OrangSama
<1> QED BY <1>1, <1>2, <1>3, OrangAkhir

\* A counter of a person hears every change.
LEMMA KenaOrang ==
    ASSUME NEW U, NEW A, NEW c \in KolomOrang, NEW x \in Nat, x # 0
    PROVE  Tambahan(Kena(U, A), <<c, x>>) = Tambahan(U, <<c, x>>)
<1> DEFINE k == <<c, x>>
           S == {u \in Kena(U, A) : <<u[1], u[2]>> = k}
           R == {u \in U : <<u[1], u[2]>> = k}
<1>1. c \notin KolomAmbang
  BY KolomDomain
<1>2. ASSUME NEW u \in U, <<u[1], u[2]>> = k
      PROVE  u \in Kena(U, A)
  BY <1>1, <1>2 DEF Kena
<1>3. S = R
  BY <1>2 DEF Kena
<1>4. \A u \in S : [w \in Kena(U, A) |-> w[3]][u] = [w \in U |-> w[3]][u]
  BY DEF Kena
<1> DEFINE F == [w \in Kena(U, A) |-> w[3]]
           G == [w \in U |-> w[3]]
<1>5. SumFunctionOnSet(F, S) = SumFunctionOnSet(G, S)
  <2> HIDE DEF S
  <2>1. \A u \in S : F[u] = G[u]
    BY <1>4 DEF S
  <2> HIDE DEF F, G
  <2> QED BY <2>1, JumlahSama
<1>6. Tambahan(Kena(U, A), k) = SumFunctionOnSet(F, S) /\ Tambahan(U, k) = SumFunctionOnSet(G, R)
  BY DEF Tambahan
<1> QED BY <1>3, <1>5, <1>6

LEMMA KaliOrang ==
    ASSUME NEW b, HitungSah(hitung), NEW l, LatarSah(b, l), NEW A, NEW c \in KolomOrang, NEW x
    PROVE  Tambahan(Kena(Kali(l), A), <<c, x>>) = 0
<1>1. c \notin KolomAmbang
  BY KolomDomain
<1>2. \A u \in Kena(Kali(l), A) : u[1] \in KolomAmbang
  BY KaliSah DEF Kena
<1>3. \A u \in Kena(Kali(l), A) : <<u[1], u[2]>> # <<c, x>>
  BY <1>1, <1>2
<1> QED BY <1>3, TambahanNol

\* The goroutine: what it was to add is added.
LEMMA HitungNilai ==
    ASSUME TypeInv, ~gangguan, NEW i \in DOMAIN latar, LatarHitung(i), NEW c \in KolomOrang, NEW x \in Nat, x # 0
    PROVE  Nilai(hitung', <<c, x>>) = Nilai(hitung, <<c, x>>) + Ubah(latar[i], <<c, x>>)
<1>1. PICK U, V, B, H : Hasil(latar[i], U, V, B, H)
  BY HitungIsi
<1>2. LatarSah(baris, latar[i]) /\ HitungSah(hitung)
  BY DEF TypeInv, LatarSemua
<1>3. U = latar[i].ubah /\ V = Kali(latar[i])
  BY <1>1 DEF Hasil
<1> DEFINE k == <<c, x>>
<1>4. c \notin KolomAmbang
  BY KolomDomain
<1>5. k[1] = c
  OBVIOUS
<1>6. Nilai(hitung', k) = Nilai(hitung, k) + Tambahan(Kena(U, ambang \cup B), k) + Tambahan(Kena(V, ambang), k)
  <2> HIDE DEF k
  <2>1. k[1] \notin KolomAmbang
    BY <1>4, <1>5
  <2> QED BY <1>1, <1>2, <2>1, HasilIsi
<1>7. Tambahan(Kena(U, ambang \cup B), k) = Ubah(latar[i], k)
  BY <1>3, KenaOrang DEF Ubah
<1>8. Tambahan(Kena(V, ambang), k) = 0
  BY <1>2, <1>3, KaliOrang
<1>9. Nilai(hitung, k) \in Int /\ Ubah(latar[i], k) \in Int
  BY <1>2, NilaiTipe, UbahTipe
<1> HIDE DEF k
<1>10. Nilai(hitung', k) = Nilai(hitung, k) + Ubah(latar[i], k)
  BY <1>6, <1>7, <1>8, <1>9
<1> QED BY <1>10 DEF k

LEMMA CatatPindah ==
    ASSUME NEW b, NEW h, HitungSah(h), NEW g, NEW lt, LatarSemua(b, lt), NEW ls, NEW l, LatarSah(b, l), NEW k,
           Nilai(g, k) = Nilai(h, k) + Ubah(l, k), Datang(ls, k) = Datang(lt, k) - Ubah(l, k)
    PROVE  Catat(g, ls, k) = Catat(h, lt, k)
<1>1. Nilai(h, k) \in Int /\ Datang(lt, k) \in Int /\ Ubah(l, k) \in Int
  BY CatatTipe, UbahTipe
<1> QED BY <1>1 DEF Catat

LEMMA OrangCatat ==
    ASSUME NEW b, NEW h, NEW g, NEW lt, NEW ls, NEW t, Orang(b, h, lt, t),
           \A c \in KolomOrang, x \in Nat : x # 0 => Catat(g, ls, <<c, x>>) = Catat(h, lt, <<c, x>>)
    PROVE  Orang(b, g, ls, t)
BY DEF Orang

LEMMA OrangHitung ==
    ASSUME TypeInv, ~gangguan, OrangInv, NEW i \in DOMAIN latar, LatarHitung(i)
    PROVE  OrangInv'
<1>1. latar' = Sisa(i) /\ UNCHANGED <<baris, proses>> /\ UNCHANGED <<gangguan, tertib>>
  BY HitungIsi
<1>2. LatarSah(baris, latar[i]) /\ HitungSah(hitung) /\ LatarSemua(baris, latar)
  BY DEF TypeInv, LatarSemua
<1>3. PICK b, h, g, lt, ls, t, l : /\ b = baris /\ h = hitung /\ g = hitung' /\ lt = latar /\ ls = latar' /\ t = tertib
                                   /\ l = latar[i]
  OBVIOUS
<1>4. ASSUME NEW c \in KolomOrang, NEW x \in Nat, x # 0
      PROVE  Catat(g, ls, <<c, x>>) = Catat(h, lt, <<c, x>>)
  <2> DEFINE k == <<c, x>>
  <2>1. Nilai(g, k) = Nilai(h, k) + Ubah(l, k)
    BY <1>3, <1>4, HitungNilai
  <2>2. Datang(Sisa(i), k) = Datang(latar, k) - Ubah(latar[i], k)
    BY <1>2, DatangSisa
  <2>3. Datang(ls, k) = Datang(lt, k) - Ubah(l, k)
    BY <1>1, <1>3, <2>2
  <2> HIDE DEF k
  <2>4. HitungSah(h) /\ LatarSemua(b, lt) /\ LatarSah(b, l)
    BY <1>2, <1>3
  <2>5. Catat(g, ls, k) = Catat(h, lt, k)
    BY <2>1, <2>3, <2>4, CatatPindah
  <2> QED BY <2>5 DEF k
<1>5. Orang(b, h, lt, t)
  BY <1>3, OrangSama
<1>6. Orang(b, g, ls, t)
  BY <1>4, <1>5, OrangCatat
<1>7. b = baris' /\ t = tertib'
  BY <1>1, <1>3
<1> QED BY <1>3, <1>6, <1>7, OrangAkhir

LEMMA KosongNol ==
    ASSUME NEW l, l.ubah = {}
    PROVE  \A k : Ubah(l, k) = 0
BY TambahanNol DEF Ubah

LEMMA AktifUbah ==
    ASSUME NEW b, NEW l, LatarSah(b, l), l.aktif # 0
    PROVE  \A k : Ubah(l, k) = 0
BY KosongNol DEF LatarSah

LEMMA TandaiTetap ==
    ASSUME NEW b, NEW c, NEW i, Tandai(b, c, i)
    PROVE  /\ DOMAIN c = DOMAIN b
           /\ \A j \in DOMAIN b : /\ c[j].tabel = b[j].tabel /\ c[j].dari = b[j].dari /\ c[j].ke = b[j].ke
                                  /\ c[j].ada = b[j].ada /\ c[j].rujuk = b[j].rujuk
BY DEF Tandai

LEMMA OrangAktif ==
    ASSUME TypeInv, OrangInv, NEW i \in DOMAIN latar, LatarAktif(i)
    PROVE  OrangInv'
<1>1. /\ latar[i].aktif # 0 /\ latar' = Sisa(i) /\ (baris' = baris \/ Tandai(baris, baris', latar[i].aktif))
      /\ UNCHANGED <<ambang, hitung, proses>> /\ UNCHANGED <<gangguan, tertib>>
  BY AktifTipe
<1>2. LatarSah(baris, latar[i]) /\ LatarSemua(baris, latar)
  BY DEF TypeInv, LatarSemua
<1>3. PICK b, c, h, lt, ls, t : /\ b = baris /\ c = baris' /\ h = hitung /\ lt = latar /\ ls = latar' /\ t = tertib
  OBVIOUS
<1>4. \A k : Datang(ls, k) = Datang(lt, k)
  <2> TAKE k
  <2>1. Datang(Sisa(i), k) = Datang(latar, k) - Ubah(latar[i], k)
    BY <1>2, DatangSisa
  <2>2. Ubah(latar[i], k) = 0
    BY <1>1, <1>2, AktifUbah
  <2>3. Datang(latar, k) \in Int
    BY <1>2, DatangTipe
  <2>4. Datang(Sisa(i), k) = Datang(latar, k)
    BY <2>1, <2>2, <2>3
  <2> QED BY <1>1, <1>3, <2>4
<1>5. Orang(b, h, lt, t)
  BY <1>3, OrangSama
<1>6. c = b \/ Tandai(b, c, latar[i].aktif)
  BY <1>1, <1>3
<1>7. Setara(b, c)
  BY <1>6, TandaiTetap DEF Setara
<1>8. Orang(c, h, ls, t)
  BY <1>4, <1>5, <1>7, OrangTetap
<1>9. h = hitung' /\ t = tertib'
  BY <1>1, <1>3
<1> QED BY <1>3, <1>8, <1>9, OrangAkhir

LEMMA OrangSampai ==
    ASSUME TypeInv, OrangInv, NEW i, Sampai(i)
    PROVE  OrangInv'
<1>1. Tandai(baris, baris', i) /\ UNCHANGED <<ambang, hitung, latar, proses>> /\ UNCHANGED <<gangguan, tertib>>
  BY SampaiTipe
<1>3. PICK b, c, h, lt, t : /\ b = baris /\ c = baris' /\ h = hitung /\ lt = latar /\ t = tertib
  OBVIOUS
<1>5. Orang(b, h, lt, t)
  BY <1>3, OrangSama
<1>7. Setara(b, c)
  BY <1>1, <1>3, TandaiTetap DEF Setara
<1>8. Orang(c, h, lt, t)
  BY <1>5, <1>7, OrangTetap
<1>9. h = hitung' /\ t = tertib' /\ lt = latar'
  BY <1>1, <1>3
<1> QED BY <1>3, <1>8, <1>9, OrangAkhir

LEMMA OrangLangkah ==
    ASSUME TypeInv, ~gangguan, OrangInv, tertib => TertibInv, NEW p \in Proses, Hitungan(baris, proses[p]), Langkah(p)
    PROVE  OrangInv'
<1>1. \/ BuatTulis(p) \/ MasukanTulis(p) \/ HapusTulis(p)
      \/ GantiTulis(p) \/ TandaiTulis(p) \/ PindahTulis(p) \/ Putus(p)
  BY DEF Langkah
<1>2. ~Putus(p)
  BY DEF Putus
<1> QED BY <1>1, <1>2, OrangBuat, OrangMasukan, OrangHapusTulis, OrangGanti, OrangTandai, OrangPindah

-----------------------------------------------------------------------------
(* Counters of products, showcases and discounts, for owners who wait.      *)

LEMMA RujukSama == RujukInv <=> Rujuk(baris, ambang, hitung, latar)
BY DEF RujukInv

LEMMA RujukAkhir ==
    ASSUME NEW b, NEW a, NEW h, NEW lt, b = baris', a = ambang', h = hitung', lt = latar', Rujuk(b, a, h, lt)
    PROVE  RujukInv'
BY DEF RujukInv

LEMMA RujukMinta ==
    ASSUME TypeInv, RujukInv, NEW p \in Proses, Minta(p)
    PROVE  RujukInv'
<1>1. UNCHANGED <<baris, ambang, hitung, latar>>
  BY MintaTipe
<1>2. PICK b, a, lt, h : b = baris /\ a = ambang /\ lt = latar /\ h = hitung
  OBVIOUS
<1>3. Rujuk(b, a, h, lt)
  BY <1>2, RujukSama
<1> QED BY <1>1, <1>2, <1>3, RujukAkhir

\* Whoever runs finds every counter equal.
LEMMA RujukSendiri ==
    ASSUME NEW b, NEW a, NEW h, NEW lt, NEW pr, Sendiri(pr, lt), NEW p \in Proses, pr[p].tugas # "",
           Rujuk(b, a, h, lt)
    PROVE  SemuaAktif(lt) /\ Rata(b, a, h)
BY DEF Sendiri, SemuaAktif, Rujuk

\* One goroutine more.
LEMMA RujukTulis ==
    ASSUME NEW b, NEW a, NEW h, NEW lt, SemuaAktif(lt), NEW ls, NEW n, Bertambah(lt, ls, n), n \in DOMAIN ls,
           NEW l, ls[n] = l, l.aktif = 0, Melunasi(b, a, h, l)
    PROVE  Rujuk(b, a, h, ls)
<1>1. ~SemuaAktif(ls)
  BY DEF SemuaAktif
<1>2. ASSUME NEW i \in DOMAIN ls, ls[i].aktif = 0 PROVE ls[i] = l
  <2>1. (i \in DOMAIN lt /\ ls[i] = lt[i]) \/ i = n
    BY <1>2 DEF Bertambah
  <2>2. CASE i \in DOMAIN lt /\ ls[i] = lt[i]
    <3>1. lt[i].aktif # 0
      BY <2>2 DEF SemuaAktif
    <3> QED BY <2>2, <3>1, <1>2
  <2> QED BY <2>1, <2>2
<1> QED BY <1>1, <1>2 DEF Rujuk

\* The counters of threshold rows count by what a row refers to first.
TabelRujuk == {"keranjang", "review", "barang_ke_etalase", "barang_di_diskon", "kategori_barang"}

LEMMA RujukKolom ==
    ASSUME NEW r, NEW c \in KolomRujuk, NEW x
    PROVE  /\ c \in DOMAIN KolomBenar
           /\ Menghitung(r, c, x) <=> r.tabel = KolomBenar[c].tabel /\ x = r.rujuk[1]
           /\ KolomBenar[c].tabel \in TabelRujuk
           /\ KolomBenar[c].tabel = "kategori_barang" <=> c = "barang_kategori"
<1>1. c \in DOMAIN KolomBenar
  BY KolomDomain
<1>2. /\ c = "barang_keranjang" \/ c = "barang_review" \/ c = "etalase_barang" \/ c = "diskon_barang"
         \/ c = "barang_kategori"
  BY DEF KolomRujuk
<1>3. /\ KolomBenar[c].oleh = "rujuk" /\ KolomBenar[c].tabel \in TabelRujuk
      /\ KolomBenar[c].tabel = "kategori_barang" <=> c = "barang_kategori"
  BY <1>2 DEF KolomBenar, Dihitung, TabelRujuk
<1> QED BY <1>1, <1>3 DEF Menghitung

LEMMA RujukLama ==
    ASSUME NEW b, NEW n \in Nat, NEW r \in TipeBaris(n), Rujukan(b, r), NEW c \in KolomRujuk, NEW x, Menghitung(r, c, x)
    PROVE  x \in 1 .. n
<1>1. r.tabel \in TabelRujuk /\ x = r.rujuk[1]
  BY RujukKolom
<1>2. Len(r.rujuk) \in {1, 2, 3, 4}
  BY <1>1, PanjangIsi DEF TabelRujuk, Rujukan
<1> QED BY <1>1, <1>2, RujukIndeks

\* A threshold row that is not there holds nothing.
LEMMA NilaiLuar ==
    ASSUME AmbangInv, NEW c \in KolomAmbang, NEW x, x \notin ambang
    PROVE  Nilai(hitung, <<c, x>>) = 0
<1>1. PICK k : k = <<c, x>>
  OBVIOUS
<1>2. k[1] = c /\ k[2] = x
  BY <1>1
<1>3. k \notin DOMAIN hitung
  BY <1>2 DEF AmbangInv
<1> QED BY <1>1, <1>3 DEF Nilai

Hampa(a, h) == \A c \in KolomRujuk : \A x : x \notin a => Nilai(h, <<c, x>>) = 0

LEMMA HampaAwal == ASSUME AmbangInv, NEW a, a = ambang, NEW h, h = hitung PROVE Hampa(a, h)
BY NilaiLuar, KolomDomain DEF Hampa

LEMMA RujukTambah ==
    ASSUME NEW b, BarisSah(b), NEW c, NEW r, Ditambah(b, c, r), r.ada, NEW k \in KolomRujuk, NEW x
    PROVE  /\ Menghitung(r, k, x) => Cardinality(Terhitung(c, k, x)) = Cardinality(Terhitung(b, k, x)) + 1
           /\ ~Menghitung(r, k, x) => Terhitung(c, k, x) = Terhitung(b, k, x)
<1> DEFINE n == Len(b) + 1
<1>1. /\ n \in DOMAIN c /\ n \notin DOMAIN b /\ DOMAIN b \subseteq DOMAIN c /\ c[n] = r
      /\ \A j \in DOMAIN b : c[j] = b[j]
      /\ \A j \in DOMAIN c : j \in DOMAIN b \/ j = n
  BY DEF Ditambah
<1> HIDE DEF n
<1>2. Menghitung(r, k, x) => Terhitung(c, k, x) = Terhitung(b, k, x) \cup {n}
  BY <1>1 DEF Terhitung
<1>3. ~Menghitung(r, k, x) => Terhitung(c, k, x) = Terhitung(b, k, x)
  BY <1>1 DEF Terhitung
<1>4. IsFiniteSet(Terhitung(b, k, x)) /\ n \notin Terhitung(b, k, x)
  BY <1>1, TerhitungHingga
<1>5. Cardinality(Terhitung(b, k, x) \cup {n}) = Cardinality(Terhitung(b, k, x)) + 1
  BY <1>4, FS_AddElement
<1> QED BY <1>2, <1>3, <1>5

\* Nobody refers to a row that is still to be made.
LEMMA TerhitungBelum ==
    ASSUME NEW b, BarisSah(b), NEW k \in KolomRujuk, NEW x, x \notin DOMAIN b
    PROVE  Terhitung(b, k, x) = {}
<1>1. DOMAIN b = 1 .. Len(b) /\ Len(b) \in Nat /\ \A i \in DOMAIN b : b[i] \in TipeBaris(Len(b)) /\ Rujukan(b, b[i])
  BY BarisDomain
<1>2. \A i \in DOMAIN b : ~Menghitung(b[i], k, x)
  BY <1>1, RujukLama
<1> QED BY <1>2 DEF Terhitung

LEMMA MelunasiBuat ==
    ASSUME NEW b, BarisSah(b), NEW c, NEW r, Ditambah(b, c, r), r.ada, r \in TipeBaris(Len(b)), Rujukan(b, r),
           NEW a, AmbangSah(b, a), NEW h, HitungSah(h), Hampa(a, h), Rata(b, a, h),
           NEW l, LatarSah(c, l), l.buat \subseteq {Len(b) + 1}, Cocokan(DOMAIN KolomBenar, l.ubah, r, Naik)
    PROVE  Melunasi(c, a, h, l)
<1> SUFFICES ASSUME NEW k \in KolomRujuk, NEW x \in a \cup l.buat, c[x].ada
             PROVE  Nilai(h, <<k, x>>) + Tambahan(l.ubah, <<k, x>>) = Cardinality(Terhitung(c, k, x))
  BY DEF Melunasi
<1>1. k \in DOMAIN KolomBenar /\ Len(b) \in Nat /\ DOMAIN b = 1 .. Len(b)
  BY KolomDomain, BarisDomain
<1>2. x \in Nat
  BY <1>1 DEF AmbangSah
<1>3. l.ubah \subseteq Perubahan
  BY DEF LatarSah, TipeLatar
<1>4. PICK n \in Int : n = Naik /\ n = 1
  BY DEF Naik
<1>5. /\ Menghitung(r, k, x) => Tambahan(l.ubah, <<k, x>>) = n
      /\ ~Menghitung(r, k, x) => Tambahan(l.ubah, <<k, x>>) = 0
  <2>1. Cocokan(DOMAIN KolomBenar, l.ubah, r, n)
    BY <1>4
  <2> QED BY <1>1, <1>2, <1>3, <2>1, CocokanTambahan
<1>6. /\ Menghitung(r, k, x) => Cardinality(Terhitung(c, k, x)) = Cardinality(Terhitung(b, k, x)) + 1
      /\ ~Menghitung(r, k, x) => Terhitung(c, k, x) = Terhitung(b, k, x)
  BY RujukTambah
<1>7. PICK q \in Nat : q = Cardinality(Terhitung(b, k, x))
  BY TerhitungHingga
<1>8. Nilai(h, <<k, x>>) = q
  <2>1. CASE x \in a /\ x \in DOMAIN b
    <3>1. b[x].ada
      BY <2>1 DEF Ditambah
    <3> QED BY <1>7, <2>1, <3>1 DEF Rata
  <2>2. CASE x \notin DOMAIN b
    <3>1. x \notin a
      BY <2>2 DEF AmbangSah
    <3>2. Terhitung(b, k, x) = {}
      BY <2>2, TerhitungBelum
    <3>3. q = 0
      BY <1>7, <3>2, FS_EmptySet
    <3> QED BY <3>1, <3>3 DEF Hampa
  <2>3. x \in a => x \in DOMAIN b
    BY DEF AmbangSah
  <2>4. x \in l.buat => x \notin DOMAIN b
    BY <1>1
  <2> QED BY <2>1, <2>2, <2>3, <2>4
<1> QED BY <1>4, <1>5, <1>6, <1>7, <1>8

LEMMA LatarTertulis ==
    ASSUME NEW b, NEW r, ProsesSah(b, r), NEW n
    PROVE  /\ LatarBuat(r, n).aktif = 0
           /\ LatarBuat(r, n).buat \subseteq {n}
<1>1. r.latar \in TipeLatar(Len(b)) /\ r.latar.aktif = 0
  BY DEF ProsesSah, LatarSah
<1> QED BY <1>1 DEF LatarBuat, TipeLatar

LEMMA BuatDiDalam ==
    ASSUME TypeInv, NEW p \in Proses, BuatTulis(p)
    PROVE  /\ Len(latar) + 1 \in DOMAIN latar'
           /\ latar'[Len(latar) + 1] = LatarBuat(proses[p], Len(baris) + 1)
<1>1. PICK b, c, r, lt, ls, n, l, m :
        /\ b = baris /\ c = baris' /\ r = proses[p] /\ lt = latar /\ ls = latar' /\ n = Len(baris) + 1
        /\ l = LatarBuat(proses[p], Len(baris) + 1) /\ m = LatarMenunggu(Len(baris) + 1)
  OBVIOUS
<1>2. /\ r.baris.tabel = "diskon_produk" => ls = Append(Append(lt, l), m)
      /\ r.baris.tabel # "diskon_produk" => ls = Append(lt, l)
  BY <1>1, BuatIsi
<1>3. Lanjut(b, c) /\ LatarSah(c, l) /\ (LatarSah(c, m) \/ r.baris.tabel # "diskon_produk")
  BY <1>1, BuatTipe
<1>4. BarisSah(b) /\ LatarSemua(b, lt) /\ ProsesSah(b, r)
  BY <1>1, BarisProses
<1>5. LatarSemua(c, lt)
  BY <1>3, <1>4, LatarLanjut
<1>6. PICK lu : lu = Append(lt, l)
  OBVIOUS
<1>7. /\ LatarSemua(c, lu) /\ Len(lt) \in Nat /\ DOMAIN lt = 1 .. Len(lt) /\ DOMAIN lu = 1 .. Len(lt) + 1
      /\ lu[Len(lt) + 1] = l
  BY <1>3, <1>5, <1>6, LatarTambah
<1>8. CASE r.baris.tabel = "diskon_produk"
  <2>1. /\ Len(lu) \in Nat /\ DOMAIN lu = 1 .. Len(lu) /\ DOMAIN Append(lu, m) = 1 .. Len(lu) + 1
        /\ \A i \in 1 .. Len(lu) : Append(lu, m)[i] = lu[i]
    BY <1>3, <1>7, <1>8, LatarTambah
  <2>2. Len(lt) + 1 \in 1 .. Len(lu)
    BY <1>7, <2>1
  <2>3. Len(lt) + 1 \in DOMAIN Append(lu, m) /\ Append(lu, m)[Len(lt) + 1] = l
    BY <1>7, <2>1, <2>2
  <2> QED BY <1>1, <1>2, <1>6, <1>8, <2>3
<1>9. CASE r.baris.tabel # "diskon_produk"
  BY <1>1, <1>2, <1>6, <1>7, <1>9
<1> QED BY <1>8, <1>9

LEMMA RujukBuat ==
    ASSUME TypeInv, AmbangInv, TertibInv, RujukInv, NEW p \in Proses, Hitungan(baris, proses[p]), Langkah(p),
           BuatTulis(p)
    PROVE  RujukInv'
<1>1. PICK b, c, r, lt, ls, h, a, n, l :
        /\ b = baris /\ c = baris' /\ r = proses[p] /\ lt = latar /\ ls = latar' /\ h = hitung /\ a = ambang
        /\ n = Len(latar) + 1 /\ l = LatarBuat(proses[p], Len(baris) + 1)
  OBVIOUS
<1>2. /\ Ditambah(b, c, r.baris) /\ r.tugas = "buat" /\ r.baris \in TipeBaris(Len(b)) /\ Rujukan(b, r.baris)
      /\ r.baris.ada
  BY <1>1, BuatRinci
<1>3. BarisSah(b) /\ LatarSemua(b, lt) /\ HitungSah(h) /\ AmbangSah(b, a) /\ ProsesSah(b, r) /\ Hampa(a, h)
  BY <1>1, BarisProses, HampaAwal DEF TypeInv
<1>4. LatarSah(c, l)
  BY <1>1, BuatTipe
<1>5. Bertambah(lt, ls, n) /\ n \in DOMAIN ls /\ ls[n] = l
  BY <1>1, BuatBertambah, BuatDiDalam
<1>6. l.ubah = r.latar.ubah /\ l.aktif = 0 /\ l.buat \subseteq {Len(b) + 1}
  BY <1>1, <1>3, UbahBuat, LatarTertulis
<1>7. Hitungan(b, r)
  BY <1>1
<1>8. Cocokan(DOMAIN KolomBenar, l.ubah, r.baris, Naik)
  BY <1>2, <1>6, <1>7 DEF Hitungan
<1>9. SemuaAktif(lt) /\ Rata(b, a, h)
  <2>1. Rujuk(b, a, h, lt) /\ Sendiri(proses, lt)
    BY <1>1, RujukSama DEF TertibInv
  <2>2. proses[p].tugas # ""
    BY <1>1, <1>2
  <2> QED BY <2>1, <2>2, RujukSendiri
<1>10. Melunasi(c, a, h, l)
  BY <1>2, <1>3, <1>4, <1>6, <1>8, <1>9, MelunasiBuat
<1>12. Rujuk(c, a, h, ls)
  BY <1>5, <1>6, <1>9, <1>10, RujukTulis
<1>13. h = hitung' /\ a = ambang'
  BY <1>1, LangkahTipe
<1> QED BY <1>1, <1>12, <1>13, RujukAkhir

LEMMA SatuTertulis ==
    ASSUME NEW b, NEW lt, LatarSemua(b, lt), NEW l, LatarSah(b, l), NEW ls, ls = Append(lt, l)
    PROVE  Len(lt) + 1 \in DOMAIN ls /\ ls[Len(lt) + 1] = l /\ Bertambah(lt, ls, Len(lt) + 1)
BY LatarTambah, SatuBertambah

\* A new product has the categories that came with it, and nothing else refers to them.
LEMMA TerhitungAnak ==
    ASSUME NEW b, BarisSah(b), NEW c, NEW r, ProsesSah(b, r), r.tugas = "masukan", Beranak(b, c, r),
           NEW k \in KolomRujuk, NEW x
    PROVE  /\ x # Len(b) + 1 \/ k # "barang_kategori" => Terhitung(c, k, x) = Terhitung(b, k, x)
           /\ x = Len(b) + 1 /\ k = "barang_kategori" => Cardinality(Terhitung(c, k, x)) = r.anak.banyak
<1>1. PICK n, m, d : n = Len(b) + 1 /\ m = r.anak.banyak /\ d = AnakBaris(r, n)
  OBVIOUS
<1>2. Len(b) \in Nat /\ DOMAIN b = 1 .. Len(b) /\ n \in Nat /\ m \in Nat
  BY <1>1, BarisDomain, AnakIsi
<1>3. d.tabel = "kategori_barang" /\ d.ada /\ d.rujuk[1] = n
  BY <1>1, AnakIsi
<1>4. /\ DOMAIN c = 1 .. n + m /\ \A i \in DOMAIN b : c[i] = b[i]
      /\ c[n] = r.baris /\ \A j \in n + 1 .. n + m : c[j] = d
  BY <1>1, Zenon DEF Beranak
<1>5. r.baris.tabel = "barang_induk"
  BY DEF ProsesSah
<1>6. \A j \in DOMAIN c : j \in DOMAIN b \/ j = n \/ j \in n + 1 .. n + m
  BY <1>1, <1>2, <1>4
<1>7. ~Menghitung(c[n], k, x)
  BY <1>4, <1>5, RujukKolom DEF TabelRujuk
<1>8. Menghitung(d, k, x) <=> k = "barang_kategori" /\ x = n
  BY <1>3, RujukKolom
<1>9. DOMAIN b \subseteq DOMAIN c
  BY <1>1, <1>2, <1>4
<1>10. CASE x # n \/ k # "barang_kategori"
  <2>1. \A j \in DOMAIN c : Menghitung(c[j], k, x) => j \in DOMAIN b
    BY <1>4, <1>6, <1>7, <1>8, <1>10
  <2>2. Terhitung(c, k, x) = Terhitung(b, k, x)
    BY <1>4, <1>9, <2>1 DEF Terhitung
  <2> QED BY <1>1, <1>10, <2>2
<1>11. CASE x = n /\ k = "barang_kategori"
  <2>1. \A j \in DOMAIN b : ~Menghitung(b[j], k, x)
    <3>1. x \notin 1 .. Len(b)
      BY <1>1, <1>2, <1>11
    <3>2. \A i \in DOMAIN b : b[i] \in TipeBaris(Len(b)) /\ Rujukan(b, b[i])
      BY BarisDomain
    <3> QED BY <1>2, <3>1, <3>2, RujukLama
  <2>2. \A j \in n + 1 .. n + m : c[j].ada /\ Menghitung(c[j], k, x) /\ j \in DOMAIN c
    BY <1>2, <1>3, <1>4, <1>8, <1>11
  <2>3. Terhitung(c, k, x) = n + 1 .. n + m
    <3>1. \A j \in DOMAIN c : Menghitung(c[j], k, x) => j \in n + 1 .. n + m
      BY <1>4, <1>6, <1>7, <2>1
    <3> QED BY <2>2, <3>1 DEF Terhitung
  <2>4. Cardinality(n + 1 .. n + m) = m
    <3>1. n + 1 \in Int /\ n + m \in Int
      BY <1>2
    <3>2. Cardinality((n + 1) .. (n + m)) = IF n + 1 > n + m THEN 0 ELSE (n + m) - (n + 1) + 1
      BY <3>1, FS_Interval
    <3> QED BY <1>2, <3>2
  <2> QED BY <1>1, <1>11, <2>3, <2>4
<1> QED BY <1>1, <1>10, <1>11

\* The counters that the goroutine of a new product raises.
UbahAnak(U, V, n, m) == U = V \cup {<<"barang_kategori", n, m>>} /\ \A u \in V : u[1] \notin KolomRujuk

LEMMA TambahanAnak ==
    ASSUME NEW V, NEW n, NEW m \in Int, NEW U, UbahAnak(U, V, n, m), NEW k \in KolomRujuk, NEW x
    PROVE  /\ x = n /\ k = "barang_kategori" => Tambahan(U, <<k, x>>) = m
           /\ x # n \/ k # "barang_kategori" => Tambahan(U, <<k, x>>) = 0
<1>1. PICK e : e = <<"barang_kategori", n, m>>
  OBVIOUS
<1>2. /\ e[1] = "barang_kategori" /\ e[2] = n /\ e[3] = m /\ U = V \cup {e}
      /\ \A u \in V : u[1] \notin KolomRujuk
  BY <1>1 DEF UbahAnak
<1>3. \A u \in U : u = e \/ u[1] # k
  BY <1>2
<1>4. PICK i : i = <<k, x>>
  OBVIOUS
<1>5. \A u \in U : <<u[1], u[2]>> = i => u = e
  BY <1>3, <1>4
<1>6. CASE x = n /\ k = "barang_kategori"
  <2>1. <<e[1], e[2]>> = i /\ e \in U
    BY <1>2, <1>4, <1>6
  <2>2. Tambahan(U, i) = e[3]
    BY <1>2, <1>5, <2>1, TambahanSatu
  <2> QED BY <1>2, <1>4, <1>6, <2>2
<1>7. CASE x # n \/ k # "barang_kategori"
  <2>1. <<e[1], e[2]>> # i
    BY <1>2, <1>4, <1>7
  <2>2. \A u \in U : <<u[1], u[2]>> # i
    BY <1>5, <2>1
  <2>3. Tambahan(U, i) = 0
    BY <2>2, TambahanNol
  <2> QED BY <1>4, <1>7, <2>3
<1> QED BY <1>6, <1>7

LEMMA MelunasiMasukan ==
    ASSUME NEW b, BarisSah(b), NEW c, NEW r, ProsesSah(b, r), r.tugas = "masukan", Beranak(b, c, r),
           NEW a, AmbangSah(b, a), NEW h, Hampa(a, h), Rata(b, a, h),
           NEW l, \A x \in l.buat : x \notin DOMAIN b,
           NEW V, UbahAnak(l.ubah, V, Len(b) + 1, r.anak.banyak)
    PROVE  Melunasi(c, a, h, l)
<1> SUFFICES ASSUME NEW k \in KolomRujuk, NEW x \in a \cup l.buat, c[x].ada
             PROVE  Nilai(h, <<k, x>>) + Tambahan(l.ubah, <<k, x>>) = Cardinality(Terhitung(c, k, x))
  BY DEF Melunasi
<1>1. PICK n, m, U : n = Len(b) + 1 /\ m = r.anak.banyak /\ U = l.ubah
  OBVIOUS
<1>2. Len(b) \in Nat /\ DOMAIN b = 1 .. Len(b) /\ m \in Nat
  BY <1>1, BarisDomain, AnakIsi
<1>3. m \in Int /\ UbahAnak(U, V, n, m)
  BY <1>1, <1>2 DEF UbahAnak
<1>4. /\ x = n /\ k = "barang_kategori" => Tambahan(U, <<k, x>>) = m
      /\ x # n \/ k # "barang_kategori" => Tambahan(U, <<k, x>>) = 0
  BY <1>3, TambahanAnak
<1>5. /\ x # n \/ k # "barang_kategori" => Terhitung(c, k, x) = Terhitung(b, k, x)
      /\ x = n /\ k = "barang_kategori" => Cardinality(Terhitung(c, k, x)) = m
  BY <1>1, TerhitungAnak
<1>6. PICK q \in Nat : q = Cardinality(Terhitung(b, k, x))
  BY TerhitungHingga
<1>7. Nilai(h, <<k, x>>) = q /\ (x \notin DOMAIN b => q = 0)
  <2>1. CASE x \in a /\ x \in DOMAIN b
    <3>1. b[x].ada
      BY <2>1, Zenon DEF Beranak
    <3> QED BY <1>6, <2>1, <3>1 DEF Rata
  <2>2. CASE x \notin DOMAIN b
    <3>1. x \notin a
      BY <2>2 DEF AmbangSah
    <3>2. Terhitung(b, k, x) = {}
      BY <2>2, TerhitungBelum
    <3>3. q = 0
      BY <1>6, <3>2, FS_EmptySet
    <3> QED BY <3>1, <3>3 DEF Hampa
  <2>3. x \in a => x \in DOMAIN b
    BY DEF AmbangSah
  <2> QED BY <2>1, <2>2, <2>3
<1>8. CASE x # n \/ k # "barang_kategori"
  BY <1>1, <1>4, <1>5, <1>6, <1>7, <1>8
<1>9. CASE x = n /\ k = "barang_kategori"
  <2>1. x \notin DOMAIN b
    BY <1>1, <1>2, <1>9
  <2> QED BY <1>1, <1>2, <1>4, <1>5, <1>7, <1>9, <2>1
<1> QED BY <1>8, <1>9

LEMMA MasukanTertulis ==
    ASSUME NEW b, NEW r, ProsesSah(b, r), NEW n
    PROVE  LatarMasukan(r, n).aktif = 0 /\ LatarMasukan(r, n).buat = n .. n + r.anak.banyak
<1>1. r.latar \in TipeLatar(Len(b)) /\ r.latar.aktif = 0
  BY DEF ProsesSah, LatarSah
<1> QED BY <1>1 DEF LatarMasukan, TipeLatar

LEMMA RujukMasukan ==
    ASSUME TypeInv, AmbangInv, TertibInv, RujukInv, NEW p \in Proses, Hitungan(baris, proses[p]), Langkah(p),
           MasukanTulis(p)
    PROVE  RujukInv'
<1>1. PICK b, c, r, lt, ls, h, a, n, l, V :
        /\ b = baris /\ c = baris' /\ r = proses[p] /\ lt = latar /\ ls = latar' /\ h = hitung /\ a = ambang
        /\ n = Len(latar) + 1 /\ l = LatarMasukan(proses[p], Len(baris) + 1) /\ V = proses[p].latar.ubah
  OBVIOUS
<1>2. r.tugas = "masukan" /\ r.baris.tabel = "barang_induk" /\ Beranak(b, c, r) /\ ls = Append(lt, l) /\ Lanjut(b, c)
  BY <1>1, MasukanIsi
<1>3. BarisSah(b) /\ LatarSemua(b, lt) /\ AmbangSah(b, a) /\ ProsesSah(b, r) /\ Hampa(a, h)
  BY <1>1, BarisProses, HampaAwal DEF TypeInv
<1>4. LatarSah(c, l)
  BY <1>1, MasukanTipe
<1>5. n \in DOMAIN ls /\ ls[n] = l /\ Bertambah(lt, ls, n)
  <2>1. LatarSemua(c, lt)
    BY <1>2, <1>3, LatarLanjut
  <2>2. Len(lt) + 1 \in DOMAIN ls /\ ls[Len(lt) + 1] = l /\ Bertambah(lt, ls, Len(lt) + 1)
    BY <1>2, <1>4, <2>1, SatuTertulis
  <2> QED BY <1>1, <2>2
<1>6. l.aktif = 0 /\ \A x \in l.buat : x \notin DOMAIN b
  <2>1. Len(b) \in Nat /\ DOMAIN b = 1 .. Len(b) /\ r.anak.banyak \in Nat
    BY <1>2, <1>3, BarisDomain, AnakIsi
  <2>2. l.aktif = 0 /\ l.buat = Len(b) + 1 .. Len(b) + 1 + r.anak.banyak
    BY <1>1, <1>3, MasukanTertulis
  <2> QED BY <2>1, <2>2
<1>7. l.ubah = V \cup {<<"barang_kategori", Len(b) + 1, r.anak.banyak>>}
  BY <1>1, <1>3, UbahMasukan
<1>8. \A u \in V : u[1] \notin KolomRujuk
  <2>1. Cocokan(DOMAIN KolomBenar, V, r.baris, Naik)
    BY <1>1, <1>2 DEF Hitungan
  <2>2. ASSUME NEW u \in V, u[1] \in KolomRujuk PROVE FALSE
    <3>1. Menghitung(r.baris, u[1], u[2])
      BY <2>1, <2>2, KolomDomain DEF Cocokan
    <3>2. r.baris.tabel \in TabelRujuk
      BY <2>2, <3>1, RujukKolom
    <3> QED BY <1>2, <3>2 DEF TabelRujuk
  <2> QED BY <2>2
<1>9. SemuaAktif(lt) /\ Rata(b, a, h)
  <2>1. Rujuk(b, a, h, lt) /\ Sendiri(proses, lt)
    BY <1>1, RujukSama DEF TertibInv
  <2>2. proses[p].tugas # ""
    BY <1>1, <1>2
  <2> QED BY <2>1, <2>2, RujukSendiri
<1>10. Melunasi(c, a, h, l)
  <2>1. UbahAnak(l.ubah, V, Len(b) + 1, r.anak.banyak)
    BY <1>7, <1>8 DEF UbahAnak
  <2> QED BY <1>2, <1>3, <1>6, <1>9, <2>1, MelunasiMasukan
<1>11. Rujuk(c, a, h, ls)
  BY <1>5, <1>6, <1>9, <1>10, RujukTulis
<1>12. h = hitung' /\ a = ambang'
  BY <1>1, LangkahTipe
<1> QED BY <1>1, <1>11, <1>12, RujukAkhir

LEMMA TerhitungRujukHapus ==
    ASSUME NEW b, NEW c, NEW r, Dihapus(b, c, r), NEW k \in KolomRujuk, NEW x, x # r.id
    PROVE  Terhitung(c, k, x) = Terhitung(b, k, x) \ {r.id}
<1>1. DOMAIN c = DOMAIN b
  BY DEF Dihapus
<1>2. ASSUME NEW j \in DOMAIN b
      PROVE  c[j].ada /\ Menghitung(c[j], k, x) <=> b[j].ada /\ Menghitung(b[j], k, x) /\ j # r.id
  <2>1. c[j].tabel = b[j].tabel /\ c[j].rujuk = b[j].rujuk /\ (c[j].ada <=> b[j].ada /\ j \notin Sasaran(b, r))
    BY DEF Dihapus
  <2>2. Menghitung(c[j], k, x) <=> Menghitung(b[j], k, x)
    <3>1. Menghitung(c[j], k, x) <=> c[j].tabel = KolomBenar[k].tabel /\ x = c[j].rujuk[1]
      BY RujukKolom
    <3>2. Menghitung(b[j], k, x) <=> b[j].tabel = KolomBenar[k].tabel /\ x = b[j].rujuk[1]
      BY RujukKolom
    <3> QED BY <2>1, <3>1, <3>2
  <2>3. Menghitung(b[j], k, x) => x = b[j].rujuk[1]
    BY RujukKolom
  <2>4. j \in Sasaran(b, r) => j = r.id \/ b[j].rujuk[1] = r.id
    BY DEF Sasaran
  <2>5. r.id \in Sasaran(b, r)
    BY DEF Sasaran
  <2> QED BY <2>1, <2>2, <2>3, <2>4, <2>5
<1> QED BY <1>1, <1>2 DEF Terhitung

LEMMA MelunasiHapus ==
    ASSUME NEW b, BarisSah(b), NEW c, NEW r, Dihapus(b, c, r), r.id \in DOMAIN b, b[r.id].ada, NEW a, AmbangSah(b, a),
           NEW h, HitungSah(h), Rata(b, a, h), NEW l, LatarSah(b, l), l.buat = {},
           Cocokan(KolomRujuk, l.ubah, b[r.id], Turun)
    PROVE  Melunasi(c, a, h, l)
<1> SUFFICES ASSUME NEW k \in KolomRujuk, NEW x \in a \cup l.buat, c[x].ada
             PROVE  Nilai(h, <<k, x>>) + Tambahan(l.ubah, <<k, x>>) = Cardinality(Terhitung(c, k, x))
  BY DEF Melunasi
<1>1. x \in DOMAIN b /\ x \in Nat
  BY BarisDomain DEF AmbangSah
<1>2. b[x].ada /\ x # r.id
  BY <1>1 DEF Dihapus, Sasaran
<1>3. Nilai(h, <<k, x>>) = Cardinality(Terhitung(b, k, x))
  BY <1>2 DEF Rata
<1>4. l.ubah \subseteq Perubahan
  BY DEF LatarSah, TipeLatar
<1>6. PICK n \in Int, z \in Int : n = Turun /\ n + 1 = z /\ z = 0
  BY DEF Turun
<1>7. /\ Menghitung(b[r.id], k, x) => Tambahan(l.ubah, <<k, x>>) = n
      /\ ~Menghitung(b[r.id], k, x) => Tambahan(l.ubah, <<k, x>>) = 0
  <2>1. Cocokan(KolomRujuk, l.ubah, b[r.id], n)
    BY <1>6
  <2> QED BY <1>1, <1>4, <2>1, CocokanTambahan
<1>8. PICK T, d : T = Terhitung(b, k, x) /\ d = r.id
  OBVIOUS
<1>9. IsFiniteSet(T) /\ Cardinality(T) \in Nat /\ Terhitung(c, k, x) = T \ {d}
  BY <1>2, <1>8, TerhitungHingga, TerhitungRujukHapus
<1>10. CASE Menghitung(b[r.id], k, x)
  <2>1. d \in T
    BY <1>8, <1>10 DEF Terhitung
  <2>2. Cardinality(T \ {d}) = Cardinality(T) - 1
    BY <1>9, <2>1, FS_RemoveElement
  <2> QED BY <1>3, <1>6, <1>7, <1>8, <1>9, <1>10, <2>2
<1>11. CASE ~Menghitung(b[r.id], k, x)
  <2>1. d \notin T
    BY <1>8, <1>11 DEF Terhitung
  <2>2. T \ {d} = T
    BY <2>1
  <2>3. PICK q \in Nat : q = Cardinality(T)
    BY <1>9
  <2>4. Nilai(h, <<k, x>>) = q /\ Tambahan(l.ubah, <<k, x>>) = 0 /\ Cardinality(Terhitung(c, k, x)) = q
    BY <1>3, <1>7, <1>8, <1>9, <1>11, <2>2, <2>3
  <2> QED BY <2>4
<1> QED BY <1>10, <1>11

LEMMA RujukHapus ==
    ASSUME TypeInv, TertibInv, RujukInv, NEW p \in Proses, Hitungan(baris, proses[p]), Langkah(p), HapusTulis(p)
    PROVE  RujukInv'
<1>1. PICK b, c, r, lt, ls, h, a, l :
        /\ b = baris /\ c = baris' /\ r = proses[p] /\ lt = latar /\ ls = latar' /\ h = hitung /\ a = ambang
        /\ l = proses[p].latar
  OBVIOUS
<1>2. r.tugas = "hapus" /\ r.id \in DOMAIN b /\ ls = Append(lt, l)
  BY <1>1, HapusIsi
<1>3. /\ BarisSah(b) /\ LatarSemua(b, lt) /\ HitungSah(h) /\ AmbangSah(b, a) /\ ProsesSah(b, r)
      /\ LatarSah(b, l)
  BY <1>1, BarisProses DEF TypeInv
<1>4. Dihapus(b, c, r)
  BY <1>1, HapusRinci
<1>5. Len(lt) + 1 \in DOMAIN ls /\ ls[Len(lt) + 1] = l /\ Bertambah(lt, ls, Len(lt) + 1)
  BY <1>2, <1>3, SatuTertulis
<1>6. l.buat = {} /\ l.aktif = 0
  BY <1>1, <1>2, <1>3 DEF Hitungan, ProsesSah
<1>7. b[r.id].ada /\ Cocokan(KolomRujuk, l.ubah, b[r.id], Turun)
  BY <1>1, <1>2 DEF TertibInv, Segar, SegarHapus
<1>8. SemuaAktif(lt) /\ Rata(b, a, h)
  <2>1. Rujuk(b, a, h, lt) /\ Sendiri(proses, lt)
    BY <1>1, RujukSama DEF TertibInv
  <2>2. proses[p].tugas # ""
    BY <1>1, <1>2
  <2> QED BY <2>1, <2>2, RujukSendiri
<1>9. Melunasi(c, a, h, l)
  BY <1>2, <1>3, <1>4, <1>6, <1>7, <1>8, MelunasiHapus
<1>11. Rujuk(c, a, h, ls)
  BY <1>5, <1>6, <1>8, <1>9, RujukTulis
<1>12. h = hitung' /\ a = ambang'
  BY <1>1, LangkahTipe
<1> QED BY <1>1, <1>11, <1>12, RujukAkhir

\* Rows that the same counters of threshold rows count.
SamaRujuk(b, c) ==
    /\ DOMAIN c = DOMAIN b
    /\ \A j \in DOMAIN b : c[j].tabel = b[j].tabel /\ c[j].ada = b[j].ada /\ c[j].rujuk[1] = b[j].rujuk[1]

LEMMA TerhitungRujukTetap ==
    ASSUME NEW b, NEW c, SamaRujuk(b, c), NEW k \in KolomRujuk, NEW x
    PROVE  Terhitung(c, k, x) = Terhitung(b, k, x)
<1>1. ASSUME NEW j \in DOMAIN b
      PROVE  c[j].ada /\ Menghitung(c[j], k, x) <=> b[j].ada /\ Menghitung(b[j], k, x)
  <2>1. Menghitung(c[j], k, x) <=> c[j].tabel = KolomBenar[k].tabel /\ x = c[j].rujuk[1]
    BY RujukKolom
  <2>2. Menghitung(b[j], k, x) <=> b[j].tabel = KolomBenar[k].tabel /\ x = b[j].rujuk[1]
    BY RujukKolom
  <2> QED BY <2>1, <2>2 DEF SamaRujuk
<1> QED BY <1>1 DEF Terhitung, SamaRujuk

LEMMA RujukTetap ==
    ASSUME NEW b, NEW c, SamaRujuk(b, c), NEW a, a \subseteq DOMAIN b, NEW h, NEW lt, Rujuk(b, a, h, lt),
           \A i \in DOMAIN lt : lt[i].buat \subseteq DOMAIN b
    PROVE  Rujuk(c, a, h, lt)
<1>1. \A k \in KolomRujuk : \A x : Terhitung(c, k, x) = Terhitung(b, k, x)
  BY TerhitungRujukTetap
<1>2. \A x \in DOMAIN b : c[x].ada = b[x].ada
  BY DEF SamaRujuk
<1>3. Rata(b, a, h) => Rata(c, a, h)
  BY <1>1, <1>2 DEF Rata
<1>4. \A l : l.buat \subseteq DOMAIN b /\ Melunasi(b, a, h, l) => Melunasi(c, a, h, l)
  BY <1>1, <1>2 DEF Melunasi
<1> QED BY <1>3, <1>4 DEF Rujuk

LEMMA BuatLama ==
    ASSUME NEW b, BarisSah(b), NEW lt, LatarSemua(b, lt)
    PROVE  \A i \in DOMAIN lt : lt[i].buat \subseteq DOMAIN b
<1>1. \A i \in DOMAIN lt : lt[i] \in TipeLatar(Len(b))
  BY DEF LatarSemua, LatarSah
<1>2. DOMAIN b = 1 .. Len(b)
  BY BarisDomain
<1> QED BY <1>1, <1>2 DEF TipeLatar

LEMMA RujukGanti ==
    ASSUME TypeInv, RujukInv, NEW p \in Proses, Langkah(p), GantiTulis(p)
    PROVE  RujukInv'
<1>1. PICK b, c, r, lt, h, a :
        b = baris /\ c = baris' /\ r = proses[p] /\ lt = latar /\ h = hitung /\ a = ambang
  OBVIOUS
<1>2. Berganti(b, c, r.id) /\ lt = latar' /\ DOMAIN c = DOMAIN b
  BY <1>1, GantiIsi
<1>3. SamaRujuk(b, c)
  BY <1>2 DEF Berganti, SamaRujuk
<1>4. a \subseteq DOMAIN b /\ Rujuk(b, a, h, lt) /\ \A i \in DOMAIN lt : lt[i].buat \subseteq DOMAIN b
  BY <1>1, RujukSama, BuatLama DEF TypeInv, AmbangSah
<1>5. Rujuk(c, a, h, lt)
  BY <1>3, <1>4, RujukTetap
<1>6. h = hitung' /\ a = ambang'
  BY <1>1, LangkahTipe
<1> QED BY <1>1, <1>2, <1>5, <1>6, RujukAkhir

LEMMA RujukTandai ==
    ASSUME TypeInv, RujukInv, NEW p \in Proses, Langkah(p), TandaiTulis(p)
    PROVE  RujukInv'
<1>1. PICK b, c, r, lt, h, a :
        b = baris /\ c = baris' /\ r = proses[p] /\ lt = latar /\ h = hitung /\ a = ambang
  OBVIOUS
<1>2. Ditandai(b, c, r) /\ lt = latar'
  BY <1>1, TandaiRinci, TandaiIsi
<1>3. SamaRujuk(b, c)
  BY <1>2 DEF Ditandai, SamaRujuk
<1>4. a \subseteq DOMAIN b /\ Rujuk(b, a, h, lt) /\ \A i \in DOMAIN lt : lt[i].buat \subseteq DOMAIN b
  BY <1>1, RujukSama, BuatLama DEF TypeInv, AmbangSah
<1>5. Rujuk(c, a, h, lt)
  BY <1>3, <1>4, RujukTetap
<1>6. h = hitung' /\ a = ambang'
  BY <1>1, LangkahTipe
<1> QED BY <1>1, <1>2, <1>5, <1>6, RujukAkhir

\* The counters of warehouses and accounts are the only ones that hear of a move.
LEMMA RujukPindah ==
    ASSUME TypeInv, TertibInv, RujukInv, NEW p \in Proses, Hitungan(baris, proses[p]), Langkah(p), PindahTulis(p)
    PROVE  RujukInv'
<1>1. PICK b, c, r, lt, ls, h, a, l :
        /\ b = baris /\ c = baris' /\ r = proses[p] /\ lt = latar /\ ls = latar' /\ h = hitung /\ a = ambang
        /\ l = proses[p].latar
  OBVIOUS
<1>2. r.tugas = "pindah" /\ ls = Append(lt, l) /\ Berpindah(b, c, r) /\ DOMAIN c = DOMAIN b
  BY <1>1, PindahIsi
<1>3. BarisSah(b) /\ LatarSemua(b, lt) /\ AmbangSah(b, a) /\ ProsesSah(b, r) /\ LatarSah(b, l) /\ HitungSah(h)
  BY <1>1, BarisProses DEF TypeInv
<1>4. Len(lt) + 1 \in DOMAIN ls /\ ls[Len(lt) + 1] = l /\ Bertambah(lt, ls, Len(lt) + 1)
  BY <1>2, <1>3, SatuTertulis
<1>5. l.buat = {} /\ l.aktif = 0 /\ \A u \in l.ubah : u[1] \in KolomKali
  BY <1>1, <1>2, <1>3 DEF Hitungan, ProsesSah
<1>6. SemuaAktif(lt) /\ Rata(b, a, h)
  <2>1. Rujuk(b, a, h, lt) /\ Sendiri(proses, lt)
    BY <1>1, RujukSama DEF TertibInv
  <2>2. proses[p].tugas # ""
    BY <1>1, <1>2
  <2> QED BY <2>1, <2>2, RujukSendiri
<1>7. SamaRujuk(b, c)
  <2>1. ASSUME NEW j \in DOMAIN b PROVE c[j].rujuk[1] = b[j].rujuk[1]
    <3>1. Tempat(b, r) # 1
      BY DEF Tempat
    <3>2. CASE j \in Pindah(b, r)
      <4>1. 1 \in 1 .. 3
        OBVIOUS
      <4> QED BY <1>2, <3>1, <3>2, <4>1 DEF Berpindah
    <3>3. CASE j \notin Pindah(b, r)
      BY <1>2, <3>3 DEF Berpindah
    <3> QED BY <3>2, <3>3
  <2> QED BY <1>2, <2>1 DEF Berpindah, SamaRujuk
<1>8. ASSUME NEW k \in KolomRujuk, NEW x \in a \cup l.buat, c[x].ada
      PROVE  Nilai(h, <<k, x>>) + Tambahan(l.ubah, <<k, x>>) = Cardinality(Terhitung(c, k, x))
  <2>1. x \in a /\ b[x].ada
    BY <1>3, <1>5, <1>7, <1>8 DEF AmbangSah, SamaRujuk
  <2>2. k \notin KolomKali
    BY KolomDomain
  <2>3. \A u \in l.ubah : <<u[1], u[2]>> # <<k, x>>
    BY <1>5, <2>2
  <2>4. Tambahan(l.ubah, <<k, x>>) = 0
    BY <2>3, TambahanNol
  <2>5. Nilai(h, <<k, x>>) = Cardinality(Terhitung(b, k, x)) /\ Terhitung(c, k, x) = Terhitung(b, k, x)
    BY <1>6, <1>7, <2>1, TerhitungRujukTetap DEF Rata
  <2>6. Nilai(h, <<k, x>>) \in Int
    BY <1>3, NilaiTipe
  <2> QED BY <2>4, <2>5, <2>6
<1>9. Melunasi(c, a, h, l)
  BY <1>8 DEF Melunasi
<1>10. Rujuk(c, a, h, ls)
  BY <1>4, <1>5, <1>6, <1>9, RujukTulis
<1>11. h = hitung' /\ a = ambang'
  BY <1>1, LangkahTipe
<1> QED BY <1>1, <1>10, <1>11, RujukAkhir

LEMMA RujukLangkah ==
    ASSUME TypeInv, ~gangguan, AmbangInv, TertibInv, RujukInv, NEW p \in Proses, Hitungan(baris, proses[p]), Langkah(p)
    PROVE  RujukInv'
<1>1. \/ BuatTulis(p) \/ MasukanTulis(p) \/ HapusTulis(p)
      \/ GantiTulis(p) \/ TandaiTulis(p) \/ PindahTulis(p) \/ Putus(p)
  BY DEF Langkah
<1>2. ~Putus(p)
  BY DEF Putus
<1> QED BY <1>1, <1>2, RujukBuat, RujukMasukan, RujukHapus, RujukGanti, RujukTandai, RujukPindah

LEMMA RujukSampai ==
    ASSUME TypeInv, RujukInv, NEW i, Sampai(i)
    PROVE  RujukInv'
<1>1. Tandai(baris, baris', i) /\ UNCHANGED <<ambang, hitung, latar, proses>>
  BY SampaiTipe
<1>2. PICK b, c, lt, h, a : b = baris /\ c = baris' /\ lt = latar /\ h = hitung /\ a = ambang
  OBVIOUS
<1>3. SamaRujuk(b, c)
  BY <1>1, <1>2, TandaiTetap DEF SamaRujuk
<1>4. a \subseteq DOMAIN b /\ Rujuk(b, a, h, lt) /\ \A j \in DOMAIN lt : lt[j].buat \subseteq DOMAIN b
  BY <1>2, RujukSama, BuatLama DEF TypeInv, AmbangSah
<1>5. Rujuk(c, a, h, lt)
  BY <1>3, <1>4, RujukTetap
<1> QED BY <1>1, <1>2, <1>5, RujukAkhir

\* A discount that becomes active leaves the others where they were.
LEMMA RujukSisa ==
    ASSUME NEW b, LatarSemua(b, latar), NEW i \in DOMAIN latar, latar[i].aktif # 0, NEW a, NEW h,
           Rujuk(b, a, h, latar)
    PROVE  Rujuk(b, a, h, Sisa(i))
<1>1. PICK lt, ls : lt = latar /\ ls = Sisa(i)
  OBVIOUS
<1>2. /\ Len(lt) \in Nat /\ DOMAIN lt = 1 .. Len(lt) /\ i \in 1 .. Len(lt)
      /\ DOMAIN ls = 1 .. Len(lt) - 1
      /\ \A j \in 1 .. Len(lt) - 1 : ls[j] = lt[Asal(i, j)]
  BY <1>1, SisaIsi
<1>3. \A j \in DOMAIN ls : Asal(i, j) \in DOMAIN lt /\ ls[j] = lt[Asal(i, j)]
  BY <1>2 DEF Asal
<1>4. \A m \in DOMAIN lt : m = i \/ \E j \in DOMAIN ls : m = Asal(i, j)
  <2> SUFFICES ASSUME NEW m \in DOMAIN lt, m # i PROVE \E j \in DOMAIN ls : m = Asal(i, j)
    OBVIOUS
  <2>1. CASE m < i
    <3>1. m \in DOMAIN ls /\ m = Asal(i, m)
      BY <1>2, <2>1 DEF Asal
    <3> QED BY <3>1
  <2>2. CASE m > i
    <3>1. m - 1 \in DOMAIN ls /\ m = Asal(i, m - 1)
      BY <1>2, <2>2 DEF Asal
    <3> QED BY <3>1
  <2> QED BY <1>2, <2>1, <2>2
<1>5. SemuaAktif(ls) => SemuaAktif(lt)
  <2> SUFFICES ASSUME SemuaAktif(ls), NEW m \in DOMAIN lt PROVE lt[m].aktif # 0
    BY DEF SemuaAktif
  <2>1. CASE m = i
    BY <2>1, <1>1
  <2>2. CASE m # i
    <3>1. PICK j \in DOMAIN ls : m = Asal(i, j)
      BY <1>4, <2>2
    <3>2. ls[j].aktif # 0
      BY DEF SemuaAktif
    <3> QED BY <1>3, <3>1, <3>2
  <2> QED BY <2>1, <2>2
<1>6. Rujuk(b, a, h, lt)
  BY <1>1
<1>7. Rujuk(b, a, h, ls)
  BY <1>3, <1>5, <1>6 DEF Rujuk
<1> QED BY <1>1, <1>7

LEMMA RujukAktif ==
    ASSUME TypeInv, RujukInv, NEW i \in DOMAIN latar, LatarAktif(i)
    PROVE  RujukInv'
<1>1. /\ latar[i].aktif # 0 /\ latar' = Sisa(i) /\ (baris' = baris \/ Tandai(baris, baris', latar[i].aktif))
      /\ UNCHANGED <<ambang, hitung, proses>>
  BY AktifTipe
<1>2. PICK b, c, ls, h, a : b = baris /\ c = baris' /\ ls = latar' /\ h = hitung /\ a = ambang
  OBVIOUS
<1>3. SamaRujuk(b, c)
  BY <1>1, <1>2, TandaiTetap DEF SamaRujuk
<1>4. a \subseteq DOMAIN b /\ Rujuk(b, a, h, latar) /\ LatarSemua(b, latar)
  BY <1>2, RujukSama DEF TypeInv, AmbangSah
<1>5. Rujuk(b, a, h, ls)
  BY <1>1, <1>2, <1>4, RujukSisa
<1>6. Rujuk(c, a, h, ls)
  <2>1. LatarSemua(b, ls) /\ BarisSah(b)
    BY <1>1, <1>2, <1>4, SisaIsi DEF TypeInv
  <2>2. \A j \in DOMAIN ls : ls[j].buat \subseteq DOMAIN b
    BY <2>1, BuatLama
  <2> QED BY <1>3, <1>4, <1>5, <2>2, RujukTetap
<1> QED BY <1>1, <1>2, <1>6, RujukAkhir

\* The counter of a threshold row that is there hears every change.
LEMMA KenaAda ==
    ASSUME NEW U, NEW A, NEW c \in KolomAmbang, NEW x \in A
    PROVE  Tambahan(Kena(U, A), <<c, x>>) = Tambahan(U, <<c, x>>)
<1> DEFINE k == <<c, x>>
           S == {u \in Kena(U, A) : <<u[1], u[2]>> = k}
           R == {u \in U : <<u[1], u[2]>> = k}
           F == [w \in Kena(U, A) |-> w[3]]
           G == [w \in U |-> w[3]]
<1>1. ASSUME NEW u \in U, <<u[1], u[2]>> = k
      PROVE  u \in Kena(U, A)
  BY <1>1 DEF Kena
<1>2. S = R
  BY <1>1 DEF Kena
<1>3. \A u \in S : F[u] = G[u]
  BY DEF Kena
<1>4. SumFunctionOnSet(F, S) = SumFunctionOnSet(G, S)
  <2> HIDE DEF S, F, G
  <2> QED BY <1>3, JumlahSama
<1>5. Tambahan(Kena(U, A), k) = SumFunctionOnSet(F, S) /\ Tambahan(U, k) = SumFunctionOnSet(G, R)
  BY DEF Tambahan
<1> QED BY <1>2, <1>4, <1>5

LEMMA KaliRujuk ==
    ASSUME NEW b, NEW l, LatarSah(b, l), NEW A, NEW c \in KolomRujuk, NEW x
    PROVE  Tambahan(Kena(Kali(l), A), <<c, x>>) = 0
<1>1. c \notin KolomKali
  BY KolomDomain
<1>2. \A u \in l.kali : u[1] \in KolomKali
  BY DEF LatarSah
<1>3. \A u \in Kali(l) : u[1] \in KolomKali
  BY <1>2 DEF Kali
<1>4. \A u \in Kena(Kali(l), A) : <<u[1], u[2]>> # <<c, x>>
  BY <1>1, <1>3 DEF Kena
<1> QED BY <1>4, TambahanNol

LEMMA SisaAktif ==
    ASSUME NEW b, LatarSemua(b, latar), NEW i \in DOMAIN latar, NEW pr, Sendiri(pr, latar), latar[i].aktif = 0
    PROVE  SemuaAktif(Sisa(i))
<1>1. PICK lt, ls : lt = latar /\ ls = Sisa(i)
  OBVIOUS
<1>2. /\ Len(lt) \in Nat /\ DOMAIN lt = 1 .. Len(lt) /\ i \in 1 .. Len(lt)
      /\ DOMAIN ls = 1 .. Len(lt) - 1
      /\ \A j \in 1 .. Len(lt) - 1 : ls[j] = lt[Asal(i, j)]
  BY <1>1, SisaIsi
<1>3. \A j \in DOMAIN ls : Asal(i, j) \in DOMAIN lt /\ ls[j] = lt[Asal(i, j)] /\ Asal(i, j) # i
  BY <1>2 DEF Asal
<1>4. \A j, m \in DOMAIN lt : lt[j].aktif = 0 /\ lt[m].aktif = 0 => j = m
  BY <1>1 DEF Sendiri
<1>5. SemuaAktif(ls)
  BY <1>1, <1>3, <1>4 DEF SemuaAktif
<1> QED BY <1>1, <1>5

LEMMA RataHitung ==
    ASSUME TypeInv, NEW l, LatarSah(baris, l), NEW U, NEW V, NEW B, NEW H, Hasil(l, U, V, B, H),
           ~gangguan, Melunasi(baris, ambang, hitung, l),
           NEW k \in KolomRujuk, NEW x \in ambang', baris[x].ada
    PROVE  Nilai(hitung', <<k, x>>) = Cardinality(Terhitung(baris, k, x))
<1>1. U = l.ubah /\ V = Kali(l) /\ B = l.buat /\ H = l.buang /\ ambang' = (ambang \cup B) \ H
  BY DEF Hasil
<1>2. k \in KolomAmbang /\ x \in ambang \cup B /\ x \notin H
  BY <1>1, KolomDomain
<1>3. PICK e : e = <<k, x>>
  OBVIOUS
<1>4. e[1] = k /\ e[2] = x
  BY <1>3
<1>5. Nilai(hitung', e) = Nilai(hitung, e) + Tambahan(Kena(U, ambang \cup B), e) + Tambahan(Kena(V, ambang), e)
  <2>1. e[1] \in KolomAmbang => e[2] \notin H
    BY <1>2, <1>4
  <2> QED BY <2>1, HasilIsi
<1>6. Tambahan(Kena(U, ambang \cup B), e) = Tambahan(l.ubah, e)
  BY <1>1, <1>2, <1>3, KenaAda
<1>7. Tambahan(Kena(V, ambang), e) = 0
  BY <1>1, <1>3, KaliRujuk
<1>8. Nilai(hitung, e) \in Int /\ Tambahan(l.ubah, e) \in Int
  BY NilaiTipe, UbahTipe DEF TypeInv, Ubah
<1>9. Nilai(hitung, e) + Tambahan(l.ubah, e) = Cardinality(Terhitung(baris, k, x))
  BY <1>1, <1>2, <1>3 DEF Melunasi
<1>10. Nilai(hitung', e) = Cardinality(Terhitung(baris, k, x))
  BY <1>5, <1>6, <1>7, <1>8, <1>9
<1> QED BY <1>3, <1>10

LEMMA RujukHitung ==
    ASSUME TypeInv, ~gangguan, TertibInv, RujukInv, NEW i \in DOMAIN latar, LatarHitung(i)
    PROVE  RujukInv'
<1>1. /\ latar[i].aktif = 0 /\ latar' = Sisa(i) /\ UNCHANGED <<baris, proses>>
      /\ \E U, V, B, H : Hasil(latar[i], U, V, B, H)
  BY HitungIsi
<1>2. LatarSah(baris, latar[i]) /\ LatarSemua(baris, latar)
  BY DEF TypeInv, LatarSemua
<1>3. Melunasi(baris, ambang, hitung, latar[i])
  BY <1>1, RujukSama DEF Rujuk
<1>4. \A k \in KolomRujuk, x \in ambang' :
          baris[x].ada => Nilai(hitung', <<k, x>>) = Cardinality(Terhitung(baris, k, x))
  BY <1>1, <1>2, <1>3, RataHitung
<1>5. SemuaAktif(Sisa(i))
  BY <1>1, <1>2, SisaAktif DEF TertibInv
<1>6. PICK b, a, h, ls : b = baris /\ a = ambang' /\ h = hitung' /\ ls = latar'
  OBVIOUS
<1>7. Rata(b, a, h)
  BY <1>4, <1>6 DEF Rata
<1>8. SemuaAktif(ls)
  BY <1>1, <1>5, <1>6
<1>9. Rujuk(b, a, h, ls)
  BY <1>7, <1>8 DEF Rujuk, SemuaAktif
<1> QED BY <1>1, <1>6, <1>9, RujukAkhir

-----------------------------------------------------------------------------
(* The inductive invariant.                                                 *)

LEMMA InvAkhir ==
    ASSUME TypeInv', NEW b, NEW ps, b = baris', ps = proses', \A p \in Proses : Hitungan(b, ps[p]), AmbangInv',
           UNCHANGED <<gangguan, tertib>>, tertib => TertibInv', ~gangguan => OrangInv',
           tertib /\ ~gangguan => RujukInv'
    PROVE  Inv'
<1>1. \A p \in Proses : Hitungan(baris, proses[p])'
  BY DEF Hitungan
<1> QED BY <1>1 DEF Inv

LEMMA InitInv == Init => Inv
<1> SUFFICES ASSUME Init PROVE Inv
  OBVIOUS
<1>1. TypeInv
  BY InitTipe
<1>2. /\ \A p \in Proses : proses[p] = ProsesBebas
      /\ DOMAIN baris = {} /\ DOMAIN latar = {} /\ DOMAIN hitung = {} /\ ambang = {}
  BY DEF Init
<1>3. \A p \in Proses : Hitungan(baris, proses[p])
  BY <1>2, HitunganBebas
<1>4. AmbangInv
  BY <1>2 DEF AmbangInv
<1>5. TertibInv
  <2>1. \A p \in Proses : proses[p].tugas = ""
    BY <1>2, BebasTugas
  <2>2. Sendiri(proses, latar)
    BY <1>2, <2>1 DEF Sendiri
  <2>3. \A p \in Proses : Segar(baris, proses[p])
    BY <2>1, SegarBebas
  <2>4. \A t, o : Punya(baris, t, o) = {}
    BY <1>2 DEF Punya
  <2>5. TanpaGandaB(baris)
    BY <1>2, <2>4 DEF TanpaGandaB
  <2>6. BatasB(baris)
    <3>1. Cardinality({}) <= Batas
      BY FS_EmptySet, RelasiAssumption DEF RelasiAssumption
    <3> QED BY <2>4, <3>1 DEF BatasB
  <2> QED BY <2>2, <2>3, <2>5, <2>6 DEF TertibInv
<1>6. OrangInv
  <2>1. \A k : AkanDatang(k) = 0 /\ Isi(k) = 0
    BY <1>1, <1>2, DatangTenang DEF Isi
  <2>2. \A c, x : Terhitung(baris, c, x) = {}
    BY <1>2 DEF Terhitung
  <2>3. Cardinality({}) = 0
    BY FS_EmptySet
  <2> QED BY <2>1, <2>2, <2>3 DEF OrangInv
<1>7. RujukInv
  BY <1>2 DEF RujukInv, Rujuk, Rata
<1> QED BY <1>1, <1>3, <1>4, <1>5, <1>6, <1>7 DEF Inv

LEMMA InvMinta ==
    ASSUME Inv, NEW p \in Proses, Minta(p)
    PROVE  Inv'
<1>1. TypeInv /\ AmbangInv /\ \A q \in Proses : Hitungan(baris, proses[q])
  BY DEF Inv
<1>2. /\ TypeInv'
      /\ \E r : Awal(r) /\ Ganti(proses, proses', p, r)
      /\ UNCHANGED <<baris, ambang, hitung, latar>> /\ UNCHANGED <<gangguan, tertib>>
  BY <1>1, MintaTipe
<1>3. PICK b, pr, ps : b = baris /\ pr = proses /\ ps = proses'
  OBVIOUS
<1>4. \A q \in Proses : Hitungan(b, ps[q])
  <2>1. PICK r : Hitungan(b, r) /\ Ganti(pr, ps, p, r)
    BY <1>2, <1>3 DEF Awal
  <2>2. BarisSah(b) /\ ProsesSemua(b, pr)
    BY <1>1, <1>3 DEF TypeInv
  <2>3. \A q \in Proses : Hitungan(b, pr[q])
    BY <1>1, <1>3
  <2> QED BY <2>1, <2>2, <2>3, LanjutSama, HitunganGanti
<1>5. AmbangInv'
  BY <1>1, <1>2, LangkahAmbang
<1>6. tertib => TertibInv'
  BY <1>1, TertibMinta DEF Inv
<1>7. ~gangguan => OrangInv'
  BY <1>1, OrangMinta DEF Inv
<1>8. tertib /\ ~gangguan => RujukInv'
  BY <1>1, RujukMinta DEF Inv
<1>9. b = baris'
  BY <1>2, <1>3
<1> QED BY <1>2, <1>3, <1>4, <1>5, <1>6, <1>7, <1>8, <1>9, InvAkhir

LEMMA TertibLangkah ==
    ASSUME TypeInv, tertib, TertibInv, NEW p \in Proses, Langkah(p)
    PROVE  TertibInv'
<1>1. \/ BuatTulis(p) \/ MasukanTulis(p) \/ HapusTulis(p)
      \/ GantiTulis(p) \/ TandaiTulis(p) \/ PindahTulis(p) \/ Putus(p)
  BY DEF Langkah
<1> QED BY <1>1, TertibBuat, TertibMasukan, TertibHapus, TertibGanti, TertibTandai, TertibPindah, TertibPutus

LEMMA InvLangkah ==
    ASSUME Inv, NEW p \in Proses, Langkah(p)
    PROVE  Inv'
<1>1. TypeInv /\ AmbangInv /\ \A q \in Proses : Hitungan(baris, proses[q])
  BY DEF Inv
<1>2. /\ TypeInv' /\ Lanjut(baris, baris')
      /\ Ganti(proses, proses', p, ProsesBebas)
      /\ UNCHANGED <<ambang, hitung>> /\ UNCHANGED <<gangguan, tertib>>
  BY <1>1, LangkahTipe
<1>3. PICK b, c, pr, ps, r : b = baris /\ c = baris' /\ pr = proses /\ ps = proses' /\ r = ProsesBebas
  OBVIOUS
<1>4. \A q \in Proses : Hitungan(c, ps[q])
  <2>1. Hitungan(c, r) /\ Ganti(pr, ps, p, r) /\ Lanjut(b, c)
    BY <1>2, <1>3, HitunganBebas
  <2>2. BarisSah(b) /\ ProsesSemua(b, pr)
    BY <1>1, <1>3 DEF TypeInv
  <2>3. \A q \in Proses : Hitungan(b, pr[q])
    BY <1>1, <1>3
  <2> QED BY <2>1, <2>2, <2>3, HitunganGanti
<1>5. AmbangInv'
  BY <1>1, <1>2, LangkahAmbang
<1>6. tertib => TertibInv'
  BY <1>1, TertibLangkah DEF Inv
<1>7. ~gangguan => OrangInv'
  BY <1>1, OrangLangkah DEF Inv
<1>8. tertib /\ ~gangguan => RujukInv'
  BY <1>1, RujukLangkah DEF Inv
<1> QED BY <1>2, <1>3, <1>4, <1>5, <1>6, <1>7, <1>8, InvAkhir

LEMMA InvHitung ==
    ASSUME Inv, NEW i \in DOMAIN latar, LatarHitung(i)
    PROVE  Inv'
<1>1. TypeInv /\ AmbangInv /\ \A q \in Proses : Hitungan(baris, proses[q])
  BY DEF Inv
<1>2. /\ UNCHANGED <<baris, proses>> /\ UNCHANGED <<gangguan, tertib>>
      /\ \E U, V, B, H : Hasil(latar[i], U, V, B, H)
  BY HitungIsi
<1>3. TypeInv'
  BY <1>1, HitungTipe
<1>4. PICK b, pr : b = baris /\ pr = proses
  OBVIOUS
<1>5. \A q \in Proses : Hitungan(b, pr[q])
  BY <1>1, <1>4
<1>6. AmbangInv'
  <2>1. LatarSah(baris, latar[i])
    BY <1>1 DEF TypeInv, LatarSemua
  <2> QED BY <1>1, <1>2, <2>1, AmbangHasil
<1>7. tertib => TertibInv'
  BY <1>1, TertibHitung DEF Inv
<1>8. ~gangguan => OrangInv'
  BY <1>1, OrangHitung DEF Inv
<1>9. tertib /\ ~gangguan => RujukInv'
  BY <1>1, RujukHitung DEF Inv
<1>10. b = baris' /\ pr = proses'
  BY <1>2, <1>4
<1> QED BY <1>2, <1>3, <1>5, <1>6, <1>7, <1>8, <1>9, <1>10, InvAkhir

LEMMA HitunganSemua ==
    ASSUME NEW b, NEW c, BarisSah(b), Lanjut(b, c), NEW pr, ProsesSemua(b, pr), \A q \in Proses : Hitungan(b, pr[q])
    PROVE  \A q \in Proses : Hitungan(c, pr[q])
BY HitunganTetap DEF ProsesSemua

LEMMA TandaiLanjut ==
    ASSUME NEW b, BarisSah(b), NEW i, NEW c, Tandai(b, c, i), BarisSah(c)
    PROVE  Lanjut(b, c)
<1>1. Len(b) \in Nat /\ DOMAIN b = 1 .. Len(b) /\ Len(c) \in Nat /\ DOMAIN c = 1 .. Len(c)
  BY BarisDomain
<1>2. Len(b) = Len(c)
  BY <1>1 DEF Tandai
<1>3. \A j \in DOMAIN b : /\ c[j].tabel = b[j].tabel /\ c[j].dari = b[j].dari /\ c[j].ke = b[j].ke
                          /\ c[j].ada = b[j].ada /\ c[j].rujuk = b[j].rujuk
  BY TandaiTetap
<1> QED BY <1>1, <1>2, <1>3 DEF Lanjut, Turunan

LEMMA InvAktif ==
    ASSUME Inv, NEW i \in DOMAIN latar, LatarAktif(i)
    PROVE  Inv'
<1>1. TypeInv /\ AmbangInv /\ \A q \in Proses : Hitungan(baris, proses[q])
  BY DEF Inv
<1>2. /\ TypeInv' /\ (baris' = baris \/ Tandai(baris, baris', latar[i].aktif))
      /\ UNCHANGED <<ambang, hitung, proses>> /\ UNCHANGED <<gangguan, tertib>>
  BY <1>1, AktifTipe
<1>3. PICK b, c, pr : b = baris /\ c = baris' /\ pr = proses
  OBVIOUS
<1>4. \A q \in Proses : Hitungan(c, pr[q])
  <2>1. BarisSah(b) /\ ProsesSemua(b, pr) /\ BarisSah(c)
    BY <1>1, <1>2, <1>3 DEF TypeInv, BarisSah
  <2>2. Lanjut(b, c)
    BY <1>2, <1>3, <2>1, LanjutSama, TandaiLanjut
  <2>3. \A q \in Proses : Hitungan(b, pr[q])
    BY <1>1, <1>3
  <2> QED BY <2>1, <2>2, <2>3, HitunganSemua
<1>5. AmbangInv'
  BY <1>1, <1>2, LangkahAmbang
<1>6. tertib => TertibInv'
  BY <1>1, TertibAktif DEF Inv
<1>7. ~gangguan => OrangInv'
  BY <1>1, OrangAktif DEF Inv
<1>8. tertib /\ ~gangguan => RujukInv'
  BY <1>1, RujukAktif DEF Inv
<1>9. pr = proses'
  BY <1>2, <1>3
<1> QED BY <1>2, <1>3, <1>4, <1>5, <1>6, <1>7, <1>8, <1>9, InvAkhir

LEMMA InvSampai ==
    ASSUME Inv, NEW i, Sampai(i)
    PROVE  Inv'
<1>1. TypeInv /\ AmbangInv /\ \A q \in Proses : Hitungan(baris, proses[q])
  BY DEF Inv
<1>2. /\ TypeInv' /\ Tandai(baris, baris', i)
      /\ UNCHANGED <<ambang, hitung, latar, proses>> /\ UNCHANGED <<gangguan, tertib>>
  BY <1>1, SampaiTipe
<1>3. PICK b, c, pr : b = baris /\ c = baris' /\ pr = proses
  OBVIOUS
<1>4. \A q \in Proses : Hitungan(c, pr[q])
  <2>1. BarisSah(b) /\ ProsesSemua(b, pr) /\ BarisSah(c)
    BY <1>1, <1>2, <1>3 DEF TypeInv, BarisSah
  <2>2. Lanjut(b, c)
    BY <1>2, <1>3, <2>1, TandaiLanjut
  <2>3. \A q \in Proses : Hitungan(b, pr[q])
    BY <1>1, <1>3
  <2> QED BY <2>1, <2>2, <2>3, HitunganSemua
<1>5. AmbangInv'
  BY <1>1, <1>2, LangkahAmbang
<1>6. tertib => TertibInv'
  BY <1>1, TertibSampai DEF Inv
<1>7. ~gangguan => OrangInv'
  BY <1>1, OrangSampai DEF Inv
<1>8. tertib /\ ~gangguan => RujukInv'
  BY <1>1, RujukSampai DEF Inv
<1>9. pr = proses'
  BY <1>2, <1>3
<1> QED BY <1>2, <1>3, <1>4, <1>5, <1>6, <1>7, <1>8, <1>9, InvAkhir

LEMMA InvTetap ==
    ASSUME Inv, UNCHANGED vars
    PROVE  Inv'
<1>1. UNCHANGED <<baris, ambang, hitung, latar, proses>> /\ UNCHANGED <<gangguan, tertib>>
  BY DEF vars, keadaan
<1>2. TypeInv'
  BY <1>1 DEF Inv, TypeInv
<1>3. AmbangInv'
  BY <1>1, LangkahAmbang DEF Inv
<1>4. TertibInv => TertibInv'
  <2>1. PICK b, ps, ls : b = baris /\ ps = proses /\ ls = latar
    OBVIOUS
  <2>2. b = baris' /\ ps = proses' /\ ls = latar' /\ UNCHANGED gangguan /\ UNCHANGED hitung
    BY <1>1, <2>1
  <2>3. ASSUME TertibInv PROVE TertibInv'
    <3>1. Sendiri(ps, ls) /\ TanpaGandaB(b) /\ BatasB(b) /\ \A q \in Proses : Segar(b, ps[q])
      BY <2>1, <2>3 DEF TertibInv
    <3> QED BY <2>2, <3>1, TertibAkhir
  <2> QED BY <2>3
<1>5. PICK b, a, h, lt, ps, t : /\ b = baris /\ a = ambang /\ h = hitung /\ lt = latar /\ ps = proses
                                /\ t = tertib
  OBVIOUS
<1>6. b = baris' /\ a = ambang' /\ h = hitung' /\ lt = latar' /\ ps = proses' /\ t = tertib'
  BY <1>1, <1>5
<1>7. OrangInv => OrangInv'
  BY <1>5, <1>6, OrangSama, OrangAkhir
<1>8. RujukInv => RujukInv'
  BY <1>5, <1>6, RujukSama, RujukAkhir
<1>9. \A p \in Proses : Hitungan(b, ps[p])
  BY <1>5 DEF Inv
<1> QED BY <1>1, <1>2, <1>3, <1>4, <1>6, <1>7, <1>8, <1>9, InvAkhir DEF Inv

\* Every step keeps it.
LEMMA InvNext == Inv /\ [Next]_vars => Inv'
<1> SUFFICES ASSUME Inv, [Next]_vars PROVE Inv'
  OBVIOUS
<1>1. CASE UNCHANGED vars
  BY <1>1, InvTetap
<1>2. ASSUME NEW p \in Proses,
             PermintaanPengguna(p) \/ PermintaanSeller(p) \/ PermintaanKurir(p) \/ SnapTransaksi(p) \/ LockTransaksi(p)
      PROVE  Inv'
  BY <1>2, PermintaanMinta, InvMinta DEF Inv
<1>3. ASSUME NEW p \in Proses, Langkah(p) PROVE Inv'
  BY <1>3, InvLangkah
<1>4. ASSUME NEW i \in DOMAIN latar, LatarHitung(i) PROVE Inv'
  BY <1>4, InvHitung
<1>5. ASSUME NEW i \in DOMAIN latar, LatarAktif(i) PROVE Inv'
  BY <1>5, InvAktif
<1>6. ASSUME NEW i \in DOMAIN baris, Sampai(i) PROVE Inv'
  BY <1>6, InvSampai
<1> QED BY <1>1, <1>2, <1>3, <1>4, <1>5, <1>6 DEF Next

LEMMA InvSelalu == Spec => []Inv
<1> QED BY InitInv, InvNext, PTL DEF Spec

-----------------------------------------------------------------------------
(* What it says of the properties.                                          *)

LEMMA BarisTerhitung ==
    ASSUME NEW c, NEW x
    PROVE  JumlahBaris(<<c, x>>) = Cardinality(Terhitung(baris, c, x))
<1> DEFINE A == {i \in BarisAda(KolomBenar[c].tabel) : Pihak(i, KolomBenar[c].oleh) = x}
<1>1. A = Terhitung(baris, c, x)
  BY DEF BarisAda, Pernah, Pihak, Terhitung, Menghitung
<1>2. JumlahBaris(<<c, x>>) = Cardinality(A)
  BY DEF JumlahBaris
<1> QED BY <1>1, <1>2

LEMMA PenghitungIsi ==
    ASSUME TypeInv, NEW k \in Penghitung
    PROVE  /\ k = <<k[1], k[2]>> /\ k[2] \in Nat \ {0}
           /\ \/ k[1] \in KolomOrang /\ k[1] \notin KolomAmbang
              \/ k[1] \in KolomRujuk /\ k[1] \in KolomAmbang /\ k[2] \in ambang /\ baris[k[2]].ada
<1>1. DOMAIN baris = 1 .. Len(baris) /\ Len(baris) \in Nat /\ ambang \subseteq DOMAIN baris
  BY BarisDomain DEF TypeInv, AmbangSah
<1>2. CASE k \in (DOMAIN KolomBenar \ KolomAmbang) \X (Pengguna \cup Seller \cup Kurir)
  <2>1. k[1] \in DOMAIN KolomBenar \ KolomAmbang /\ k[2] \in Pengguna \cup Seller \cup Kurir
        /\ k = <<k[1], k[2]>>
    BY <1>2
  <2>2. k[2] \in Nat \ {0}
    BY <2>1, RelasiAssumption DEF RelasiAssumption
  <2>3. k[1] \in KolomOrang
    BY <2>1, KolomDomain
  <2> QED BY <2>1, <2>2, <2>3
<1>3. CASE k \in (DOMAIN KolomBenar \cap KolomAmbang) \X {i \in ambang : baris[i].ada}
  <2>1. k[1] \in DOMAIN KolomBenar \cap KolomAmbang /\ k[2] \in ambang /\ baris[k[2]].ada /\ k = <<k[1], k[2]>>
    BY <1>3
  <2>2. k[2] \in Nat \ {0}
    BY <1>1, <2>1
  <2>3. k[1] \in KolomRujuk
    BY <2>1, KolomDomain
  <2> QED BY <2>1, <2>2, <2>3
<1> QED BY <1>2, <1>3 DEF Penghitung, PenghitungOrang

LEMMA InvTidakLebih ==
    ASSUME Inv, ~gangguan
    PROVE  HitungTidakLebih
<1> SUFFICES ASSUME NEW k \in PenghitungOrang
             PROVE  Isi(k) + AkanDatang(k) <= JumlahBaris(k)
  BY DEF HitungTidakLebih
<1>1. PICK c, x : c = k[1] /\ x = k[2]
  OBVIOUS
<1>2. k = <<c, x>> /\ c \in DOMAIN KolomBenar \ KolomAmbang /\ x \in Pengguna \cup Seller \cup Kurir
  BY <1>1 DEF PenghitungOrang
<1>3. c \in KolomOrang /\ x \in Nat \ {0}
  BY <1>2, KolomDomain, RelasiAssumption DEF RelasiAssumption
<1>4. Isi(<<c, x>>) + AkanDatang(<<c, x>>) <= Cardinality(Terhitung(baris, c, x))
  BY <1>3 DEF Inv, OrangInv
<1> QED BY <1>2, <1>4, BarisTerhitung

LEMMA InvSesuai ==
    ASSUME Inv, ~gangguan, tertib
    PROVE  HitungSesuai
<1> SUFFICES ASSUME Tenang, NEW k \in Penghitung
             PROVE  Isi(k) = JumlahBaris(k)
  BY DEF HitungSesuai
<1>1. PICK c, x : c = k[1] /\ x = k[2]
  OBVIOUS
<1>2. /\ k = <<c, x>> /\ x \in Nat \ {0}
      /\ c \in KolomOrang \/ (c \in KolomRujuk /\ x \in ambang /\ baris[x].ada)
  BY <1>1, PenghitungIsi DEF Inv
<1>3. CASE c \in KolomOrang
  <2>1. Isi(<<c, x>>) + AkanDatang(<<c, x>>) = Cardinality(Terhitung(baris, c, x))
    BY <1>2, <1>3 DEF Inv, OrangInv
  <2>2. AkanDatang(<<c, x>>) = 0
    BY DatangTenang DEF Inv, Tenang
  <2>3. Isi(<<c, x>>) \in Int
    BY NilaiTipe, IsiNilai DEF Inv, TypeInv
  <2>4. Isi(<<c, x>>) = Cardinality(Terhitung(baris, c, x))
    BY <2>1, <2>2, <2>3
  <2> QED BY <1>2, <2>4, BarisTerhitung
<1>4. CASE c \in KolomRujuk /\ x \in ambang /\ baris[x].ada
  <2>1. Rata(baris, ambang, hitung)
    BY RujukSama DEF Inv, Rujuk, Tenang, SemuaAktif
  <2>2. Nilai(hitung, <<c, x>>) = Cardinality(Terhitung(baris, c, x))
    BY <1>4, <2>1 DEF Rata
  <2> QED BY <1>2, <2>2, BarisTerhitung, IsiNilai
<1> QED BY <1>2, <1>3, <1>4

LEMMA PalingSatu == ASSUME NEW S, \A i, j \in S : i = j PROVE Cardinality(S) <= 1
<1>1. CASE S = {}
  BY <1>1, FS_EmptySet
<1>2. CASE S # {}
  <2>1. PICK i : S = {i}
    BY <1>2
  <2>2. Cardinality(S) = 1
    BY <2>1, FS_Singleton
  <2> QED BY <2>2
<1> QED BY <1>1, <1>2

LEMMA InvGanda ==
    ASSUME Inv, tertib
    PROVE  TanpaGanda
<1>1. TanpaGandaB(baris) /\ BarisSah(baris)
  BY DEF Inv, TertibInv, TypeInv
<1>2. ASSUME NEW t \in Tunggal, NEW i \in BarisAda(t), NEW j \in BarisAda(t), Kunci(t, i) = Kunci(t, j)
      PROVE  i = j
  <2>1. /\ i \in DOMAIN baris /\ baris[i].tabel = t /\ baris[i].ada
        /\ j \in DOMAIN baris /\ baris[j].tabel = t /\ baris[j].ada
    BY DEF BarisAda, Pernah
  <2>2. Ciri(baris[i]) = Kunci(t, i) /\ Ciri(baris[j]) = Kunci(t, j)
    BY <2>1 DEF Ciri, Kunci
  <2>3. Sama(baris[i], baris[j])
    BY <1>2, <2>1, <2>2 DEF Sama
  <2> QED BY <1>1, <2>1, <2>3 DEF TanpaGandaB
<1>3. ASSUME NEW o \in Seller
      PROVE  Cardinality({i \in Milik("rekening_seller", o) : baris[i].tanda}) <= 1
  <2> DEFINE S == {i \in Milik("rekening_seller", o) : baris[i].tanda}
  <2>1. \A i, j \in S : i = j
    BY <1>1 DEF TanpaGandaB, Punya, Milik, BarisAda, Pernah
  <2> HIDE DEF S
  <2>2. Cardinality(S) <= 1
    BY <2>1, PalingSatu
  <2> QED BY <2>2 DEF S
<1>4. \A t \in Tunggal : \A i, j \in BarisAda(t) : Kunci(t, i) = Kunci(t, j) => i = j
  BY <1>2
<1> QED BY <1>3, <1>4 DEF TanpaGanda, Tunggal

LEMMA InvBatas ==
    ASSUME Inv, tertib
    PROVE  DalamBatas({"alamat_pengguna", "diskon_produk"})
<1>1. BatasB(baris)
  BY DEF Inv, TertibInv
<1>2. \A t, o : Milik(t, o) = Punya(baris, t, o)
  BY DEF Milik, BarisAda, Pernah, Punya
<1> QED BY <1>1, <1>2 DEF BatasB, DalamBatas, Terbatas

-----------------------------------------------------------------------------
(* What others refer to.                                                    *)

TerbukaKe(b, t, i) == \E j \in DOMAIN b : Terbuka(b[j]) /\ b[j].rujuk[t] = i
DirujukB(b, i) ==
    \/ /\ b[i].tabel = "alamat_gudang"
       /\ \/ TerbukaKe(b, 2, i)
          \/ \E k \in DOMAIN b : b[k].ada /\ b[k].tabel = "kategori_barang" /\ b[k].rujuk[2] = i
    \/ b[i].tabel = "alamat_pengguna" /\ TerbukaKe(b, 3, i)
Terjaga(b, c) ==
    \A i \in DOMAIN b :
        /\ b[i].ada /\ DirujukB(b, i) => c[i].ada
        /\ TerbukaKe(b, 2, i) \/ TerbukaKe(b, 3, i) => c[i] = b[i]
        /\ \A n \in DOMAIN b[i].rujuk :
              c[i].rujuk[n] # b[i].rujuk[n] => c[c[i].rujuk[n]].ada /\ c[c[i].rujuk[n]].dari = b[i].dari

LEMMA TerjagaAkhir ==
    ASSUME NEW b, NEW c, b = baris, c = baris', Terjaga(b, c)
    PROVE  RujukanTerjaga
<1>1. \A t, i : PesananTerbuka(t, i) <=> TerbukaKe(b, t, i)
  BY DEF PesananTerbuka, TerbukaKe, Terbuka, BarisAda, Pernah
<1>2. \A i : Dirujuk(i) <=> DirujukB(b, i)
  BY <1>1 DEF Dirujuk, DirujukB, BarisAda, Pernah
<1> QED BY <1>1, <1>2 DEF RujukanTerjaga, Terjaga

\* An order refers to a warehouse and to an address.
LEMMA TerbukaTabel ==
    ASSUME NEW b, BarisSah(b), NEW i
    PROVE  /\ TerbukaKe(b, 2, i) => b[i].tabel = "alamat_gudang"
           /\ TerbukaKe(b, 3, i) => b[i].tabel = "alamat_pengguna"
<1>1. \A j \in DOMAIN b : Rujukan(b, b[j])
  BY DEF BarisSah
<1> QED BY <1>1 DEF TerbukaKe, Terbuka, Rujukan

\* Rows that stay, but for a flag of others than warehouses and addresses.
LEMMA TerjagaTanda ==
    ASSUME NEW b, BarisSah(b), NEW c,
           \A j \in DOMAIN b : /\ c[j] = b[j] \/ b[j].tabel \notin {"alamat_gudang", "alamat_pengguna"}
                               /\ c[j].ada = b[j].ada /\ c[j].rujuk = b[j].rujuk
    PROVE  Terjaga(b, c)
BY TerbukaTabel DEF Terjaga

LEMMA TerjagaHapus ==
    ASSUME TypeInv, TertibInv, NEW p \in Proses, HapusTulis(p)
    PROVE  Terjaga(baris, baris')
<1>1. PICK b, c, r, U : b = baris /\ c = baris' /\ r = proses[p] /\ U = proses[p].latar.ubah
  OBVIOUS
<1>2. /\ r.tugas = "hapus"
      /\ c = [j \in DOMAIN b |-> IF j \in Sasaran(b, r) THEN [b[j] EXCEPT !.ada = FALSE] ELSE b[j]]
  BY <1>1, HapusIsi
<1>3. Dihapus(b, c, r) /\ BarisSah(b) /\ r.ikut \in TabelIkut \cup {""}
  BY <1>1, HapusRinci, BarisProses DEF TipeProses
<1>4. SegarHapus(b, r.id, U)
  BY <1>1, <1>2 DEF TertibInv, Segar
<1>5. ASSUME NEW i \in DOMAIN b, b[i].tabel \in {"alamat_gudang", "alamat_pengguna"}, i # r.id
      PROVE  c[i] = b[i]
  <2>1. i \notin Sasaran(b, r)
    BY <1>3, <1>5 DEF Sasaran, TabelIkut
  <2> QED BY <1>2, <2>1
<1>6. ~TerbukaKe(b, 2, r.id) /\ ~TerbukaKe(b, 3, r.id)
  BY <1>3, <1>4, TerbukaTabel DEF SegarHapus, SegarGanti, TerbukaKe
<1>7. ~DirujukB(b, r.id)
  BY <1>4, <1>6 DEF SegarHapus, DirujukB
<1>8. ASSUME NEW i \in DOMAIN b
      PROVE  /\ b[i].ada /\ DirujukB(b, i) => c[i].ada
             /\ TerbukaKe(b, 2, i) \/ TerbukaKe(b, 3, i) => c[i] = b[i]
             /\ c[i].rujuk = b[i].rujuk
  <2>1. DirujukB(b, i) => b[i].tabel \in {"alamat_gudang", "alamat_pengguna"}
    BY DEF DirujukB
  <2>2. TerbukaKe(b, 2, i) \/ TerbukaKe(b, 3, i) => b[i].tabel \in {"alamat_gudang", "alamat_pengguna"}
    BY <1>3, TerbukaTabel
  <2>3. c[i].rujuk = b[i].rujuk
    BY <1>3 DEF Dihapus
  <2> QED BY <1>5, <1>6, <1>7, <2>1, <2>2, <2>3
<1>9. Terjaga(b, c)
  BY <1>8 DEF Terjaga
<1> QED BY <1>1, <1>9

LEMMA TerjagaGanti ==
    ASSUME TypeInv, TertibInv, NEW p \in Proses, GantiTulis(p)
    PROVE  Terjaga(baris, baris')
<1>1. PICK b, c, r : b = baris /\ c = baris' /\ r = proses[p]
  OBVIOUS
<1>2. r.tugas = "ganti" /\ Berganti(b, c, r.id)
  BY <1>1, GantiIsi
<1>3. BarisSah(b) /\ SegarGanti(b, r.id)
  BY <1>1, <1>2, BarisProses DEF TertibInv, Segar
<1>4. ~TerbukaKe(b, 2, r.id) /\ ~TerbukaKe(b, 3, r.id)
  BY <1>3, TerbukaTabel DEF SegarGanti, TerbukaKe
<1>5. \A i \in DOMAIN b : c[i].ada = b[i].ada /\ c[i].rujuk = b[i].rujuk /\ (i # r.id => c[i] = b[i])
  BY <1>2 DEF Berganti
<1>6. Terjaga(b, c)
  BY <1>4, <1>5 DEF Terjaga
<1> QED BY <1>1, <1>6

LEMMA TerjagaTandai ==
    ASSUME TypeInv, TertibInv, NEW p \in Proses, TandaiTulis(p)
    PROVE  Terjaga(baris, baris')
<1>1. PICK b, c, r : b = baris /\ c = baris' /\ r = proses[p]
  OBVIOUS
<1>2. /\ r.tugas = "tandai" /\ b[r.id].tabel = "rekening_seller"
      /\ c = [j \in DOMAIN b |-> IF ~b[j].ada \/ j \notin r.pilih \cup {r.id} THEN b[j]
                                 ELSE [b[j] EXCEPT !.tanda = j = r.id]]
  BY <1>1, TandaiIsi
<1>3. BarisSah(b) /\ SegarTandai(b, r.id, r.pilih) /\ Ditandai(b, c, r)
  BY <1>1, <1>2, BarisProses, TandaiRinci DEF TertibInv, Segar
<1>4. ASSUME NEW j \in DOMAIN b, b[j].tabel \in {"alamat_gudang", "alamat_pengguna"}
      PROVE  c[j] = b[j]
  <2>1. j \notin r.pilih \cup {r.id}
    BY <1>2, <1>3, <1>4 DEF SegarTandai
  <2> QED BY <1>2, <2>1
<1>5. Terjaga(b, c)
  BY <1>3, <1>4, TerjagaTanda DEF Ditandai
<1> QED BY <1>1, <1>5

LEMMA TerjagaPindah ==
    ASSUME TypeInv, TertibInv, NEW p \in Proses, PindahTulis(p)
    PROVE  Terjaga(baris, baris')
<1>1. PICK b, c, r : b = baris /\ c = baris' /\ r = proses[p]
  OBVIOUS
<1>2. r.tugas = "pindah" /\ r.id \in DOMAIN b /\ Berpindah(b, c, r)
  BY <1>1, PindahIsi
<1>3. BarisSah(b) /\ SegarPindah(b, r)
  BY <1>1, <1>2, BarisProses DEF TertibInv, Segar
<1>4. ASSUME NEW i \in DOMAIN b, NEW n \in DOMAIN b[i].rujuk, c[i].rujuk[n] # b[i].rujuk[n]
      PROVE  c[c[i].rujuk[n]].ada /\ c[c[i].rujuk[n]].dari = b[i].dari
  <2>1. i \in Pindah(b, r)
    BY <1>2, <1>4 DEF Berpindah
  <2>2. b[i].tabel = "kategori_barang" /\ b[i].dari = b[r.id].dari /\ b[r.id].ada
    BY <1>3, <2>1 DEF SegarPindah, Pindah
  <2>3. n \in 1 .. 3
    <3>1. Len(b[i].rujuk) = 3 /\ b[i] \in TipeBaris(Len(b))
      <4>1. b[i] \in TipeBaris(Len(b)) /\ Rujukan(b, b[i])
        BY <1>3, BarisDomain
      <4>2. Panjang(b[i].tabel) = 3
        BY <2>2, PanjangIsi
      <4> QED BY <4>1, <4>2 DEF Rujukan
    <3> DEFINE S == 1 .. Len(b)
               u == b[i].rujuk
    <3>2. u \in Seq(S) /\ Len(u) = 3
      BY <3>1 DEF TipeBaris
    <3> HIDE DEF S, u
    <3>3. DOMAIN u = 1 .. 3
      BY <3>2
    <3> QED BY <3>3 DEF u
  <2>4. c[i].rujuk[n] = r.id
    BY <1>2, <1>4, <2>1, <2>3 DEF Berpindah
  <2>5. c[r.id].ada = b[r.id].ada /\ c[r.id].dari = b[r.id].dari
    BY <1>2 DEF Berpindah
  <2> QED BY <2>2, <2>4, <2>5
<1>5. ASSUME NEW i \in DOMAIN b
      PROVE  c[i].ada = b[i].ada /\ (TerbukaKe(b, 2, i) \/ TerbukaKe(b, 3, i) => c[i] = b[i])
  <2>1. TerbukaKe(b, 2, i) \/ TerbukaKe(b, 3, i) => i \notin Pindah(b, r)
    BY <1>3, TerbukaTabel DEF Pindah
  <2> QED BY <1>2, <2>1 DEF Berpindah
<1>6. Terjaga(b, c)
  BY <1>4, <1>5 DEF Terjaga
<1> QED BY <1>1, <1>6

LEMMA TerjagaTetap ==
    ASSUME NEW b, BarisSah(b), NEW c, \A j \in DOMAIN b : c[j] = b[j]
    PROVE  Terjaga(b, c)
BY TerjagaTanda

LEMMA TerjagaLangkah ==
    ASSUME TypeInv, TertibInv, NEW p \in Proses, Langkah(p)
    PROVE  Terjaga(baris, baris')
<1>1. \/ BuatTulis(p) \/ MasukanTulis(p) \/ HapusTulis(p)
      \/ GantiTulis(p) \/ TandaiTulis(p) \/ PindahTulis(p) \/ Putus(p)
  BY DEF Langkah
<1>2. BarisSah(baris)
  BY DEF TypeInv
<1>3. ASSUME BuatTulis(p) PROVE Terjaga(baris, baris')
  <2>1. \A j \in DOMAIN baris : baris'[j] = baris[j]
    BY <1>3, BuatRinci DEF Ditambah
  <2> QED BY <1>2, <2>1, TerjagaTetap
<1>4. ASSUME MasukanTulis(p) PROVE Terjaga(baris, baris')
  <2>1. Beranak(baris, baris', proses[p])
    BY <1>4, MasukanIsi
  <2>2. \A j \in DOMAIN baris : baris'[j] = baris[j]
    BY <2>1, Zenon DEF Beranak
  <2> QED BY <1>2, <2>2, TerjagaTetap
<1>5. ASSUME Putus(p) PROVE Terjaga(baris, baris')
  <2>1. baris' = baris
    BY <1>5 DEF Putus
  <2> QED BY <1>2, <2>1, TerjagaTetap
<1> QED BY <1>1, <1>3, <1>4, <1>5, TerjagaHapus, TerjagaGanti, TerjagaTandai, TerjagaPindah

LEMMA TerjagaFlag ==
    ASSUME NEW b, BarisSah(b), NEW c, NEW i, Tandai(b, c, i), b[i].tabel \in {"diskon_produk", "pesanan"}
    PROVE  Terjaga(b, c)
BY TerjagaTanda DEF Tandai

\* Every step of a behaviour in which owners wait.
LEMMA NextTerjaga == Inv /\ tertib /\ [Next]_vars => RujukanTerjaga
<1> SUFFICES ASSUME Inv, tertib, [Next]_vars PROVE Terjaga(baris, baris')
  BY TerjagaAkhir
<1>1. TypeInv /\ TertibInv /\ BarisSah(baris)
  BY DEF Inv, TypeInv
<1>2. ASSUME baris' = baris PROVE Terjaga(baris, baris')
  <2>1. \A j \in DOMAIN baris : baris'[j] = baris[j]
    BY <1>2
  <2> QED BY <1>1, <2>1, TerjagaTetap
<1>3. CASE UNCHANGED vars
  BY <1>2, <1>3 DEF vars
<1>4. ASSUME NEW p \in Proses,
             \/ PermintaanPengguna(p) \/ PermintaanSeller(p) \/ PermintaanKurir(p)
             \/ SnapTransaksi(p) \/ LockTransaksi(p)
      PROVE  Terjaga(baris, baris')
  BY <1>1, <1>2, <1>4, PermintaanMinta, MintaTipe
<1>5. ASSUME NEW p \in Proses, Langkah(p) PROVE Terjaga(baris, baris')
  BY <1>1, <1>5, TerjagaLangkah
<1>6. ASSUME NEW i \in DOMAIN latar, LatarHitung(i) PROVE Terjaga(baris, baris')
  BY <1>2, <1>6, HitungIsi
<1>7. ASSUME NEW i \in DOMAIN latar, LatarAktif(i) PROVE Terjaga(baris, baris')
  BY <1>1, <1>2, <1>7, AktifTipe, TerjagaFlag
<1>8. ASSUME NEW i \in DOMAIN baris, Sampai(i) PROVE Terjaga(baris, baris')
  BY <1>1, <1>8, SampaiTipe, TerjagaFlag
<1> QED BY <1>3, <1>4, <1>5, <1>6, <1>7, <1>8 DEF Next

-----------------------------------------------------------------------------
(* The theorems.                                                            *)

\* Rows, counters and goroutines stay within the types of the tables, and no row refers to one
\* that was never made, whatever requests overlap and whatever fails.
THEOREM TipeBenar == Spec => []TypeOK
<1>1. Inv => TypeOK
  BY InvTipe DEF Inv
<1> QED BY <1>1, InvSelalu, PTL

\* While no step fails, the counter of a person never promises more than its rows, however
\* requests overlap; for owners who wait for each answer every counter that KolomBenar names is
\* the number of its rows once nothing runs.
THEOREM HitungBenar == Spec => []HitungTertib
<1>1. Inv => HitungTertib
  BY InvTidakLebih, InvSesuai DEF HitungTertib
<1> QED BY <1>1, InvSelalu, PTL

\* For owners who wait nothing is there twice of which one is allowed, at most one account is the
\* default, and the limits on addresses and discounts hold, whatever fails.
THEOREM TanpaGandaBenar == Spec => []TanpaGandaTertib
<1>1. Inv => TanpaGandaTertib
  BY InvGanda, InvBatas DEF TanpaGandaTertib
<1> QED BY <1>1, InvSelalu, PTL

\* For owners who wait no step deletes the warehouse of a category or of an order that is not
\* finished, changes the warehouse or the address of such an order, or gives a category another
\* warehouse or account than one of its seller that is there, whatever fails.
THEOREM RujukanBenar == Spec => RujukanTertib
<1>1. Inv /\ [Next]_vars => [tertib => RujukanTerjaga]_vars
  BY NextTerjaga
<1> QED BY <1>1, InvSelalu, PTL DEF Spec, RujukanTertib

=============================================================================
