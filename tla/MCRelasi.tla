------------------------------ MODULE MCRelasi ------------------------------
(* Small instances of RelasiLayanan for TLC.  One run explores them all: a  *)
(* group of tables is chosen, from the empty database or from a shop that   *)
(* is already there, and requests come one at a time, with steps that fail  *)
(* or without, or two at once.                                              *)
EXTENDS RelasiLayanan, TLC

Simetri == Permutations(Proses)

VARIABLE kelompok   \* the tables whose rows are made, changed and deleted
varsEmpat == <<vars, kelompok>>

Satu(S) == {CHOOSE x \in S : TRUE}

\* Tables of different groups share no counter that is claimed: it is enough to look at each
\* group on its own.
KelompokKosong ==
    {{"follower"}, {"alamat_pengguna"}, {"rekening_seller"}, {"alamat_gudang"}, {"distributor_data"},
     {"brand_data"}, {"alamat_kurir"}, {"rekening_kurir"}, {"informasi_kendaraan_kurir"},
     {"informasi_kurir"}}
KelompokToko ==
    {{"barang_disukai"}, {"komentar", "komentar_child"}, {"keranjang"}, {"review", "review_like"},
     {"etalase", "barang_ke_etalase"}, {"diskon_produk", "barang_di_diskon"}}

\* Where products and categories come and go, a failing step lets the counters of warehouses and
\* accounts, of which nothing is claimed, drift without end: products without failures, and
\* categories and orders with one request at a time besides.
KelompokBarang == {{"keranjang", "barang_induk"}}
KelompokUrut ==
    {{"barang_induk", "kategori_barang"}, {"kategori_barang", "alamat_gudang"},
     {"tagihan", "pesanan", "kategori_barang"},
     {"tagihan", "pesanan", "alamat_gudang", "alamat_pengguna"}}
DariToko == KelompokToko \cup KelompokBarang \cup KelompokUrut

\* A seller with two warehouses, an account, and a product of one category, and a buyer with an
\* address, as the requests that make them leave them behind.
AwalToko == 6
InitToko ==
    \E o \in Pengguna, s \in Seller, m \in Nama, n \in Nama :
        /\ m < n
        /\ baris = <<Baris("alamat_gudang", s, m, << >>), Baris("alamat_gudang", s, n, << >>),
                     [Baris("rekening_seller", s, m, << >>) EXCEPT !.tanda = TRUE],
                     Baris("alamat_pengguna", o, m, << >>), Baris("barang_induk", s, m, << >>),
                     Baris("kategori_barang", s, 0, <<5, 1, 3>>)>>
        /\ ambang = 1 .. AwalToko
        /\ hitung = (<<"seller_gudang", s>> :> 2) @@ (<<"seller_rekening", s>> :> 1)
                        @@ (<<"pengguna_alamat", o>> :> 1) @@ (<<"seller_barang_induk", s>> :> 1)
                        @@ (<<"seller_kategori", s>> :> 1) @@ (<<"barang_kategori", 5>> :> 1)
                        @@ (<<"gudang_kategori", 1>> :> 1) @@ (<<"rekening_kategori", 3>> :> 1)
        /\ latar = << >>
        /\ proses = [p \in Proses |-> ProsesBebas]
        /\ gangguan \in BOOLEAN /\ tertib \in BOOLEAN

InitEmpat == /\ \/ Init /\ kelompok \in KelompokKosong
                \/ InitToko /\ kelompok \in DariToko
             /\ gangguan => tertib /\ kelompok \notin KelompokBarang \cup KelompokUrut
             /\ kelompok \in KelompokUrut => tertib

Tabel(r) == IF r.tugas = "pindah" THEN "kategori_barang"
            ELSE IF r.id # 0 THEN baris[r.id].tabel ELSE r.baris.tabel
DiKelompok == \A p \in Proses : proses[p] = ProsesBebas \/ Tabel(proses[p]) \in kelompok

\* Bounds of each instance: new rows, and names.
Baru == Len(baris) - IF kelompok \in DariToko THEN AwalToko ELSE 0
Dibuat == Cardinality({p \in Proses : proses[p].tugas \in {"buat", "masukan"}})
Paling == IF kelompok = {"kategori_barang", "alamat_gudang"} THEN 1
          ELSE IF gangguan \/ ~tertib \/ "pesanan" \in kelompok THEN 2 ELSE 3
Dipakai == {baris[i].ke : i \in DOMAIN baris} \cup {proses[p].baris.ke : p \in Proses}
SatuSaja == ~tertib /\ kelompok \notin DariToko => Dipakai \cap Nama \subseteq Satu(Nama)

NextEmpat == /\ Next /\ UNCHANGED kelompok
             /\ (DiKelompok /\ Baru + Dibuat <= Paling /\ SatuSaja)'
SpecEmpat == InitEmpat /\ [][NextEmpat]_varsEmpat
=============================================================================
