---------------------------- MODULE RelasiSeller ----------------------------
(***************************************************************************)
(* The seller's part of Relasi: showcases, discounts, bank accounts,        *)
(* warehouses, distributor and brand data, comments, and the products with  *)
(* their categories as far as names, warehouses, accounts and counters of   *)
(* categories are concerned                                                 *)
(* (src/app/service/seller_services).                                       *)
(***************************************************************************)
EXTENDS Relasi

-----------------------------------------------------------------------------
(* Showcases.  Any product is put into any showcase, deleted ones too; the  *)
(* products of a deleted showcase keep their counters.                      *)

TambahEtalaseSeller(p) ==
    \E o \in Seller, n \in Nama :
        /\ Cocok("etalase", o, n) = {}
        /\ BuatBaca(p, Baris("etalase", o, n, << >>), {<<"seller_etalase", o, 1>>})

EditEtalaseSeller(p) == \E i \in BarisAda("etalase"), n \in Nama : GantiBaca(p, i, n)

HapusEtalaseSeller(p) ==
    \E i \in BarisAda("etalase") :
        HapusBaca(p, i, {<<"seller_etalase", baris[i].dari, -1>>}, {i}, "barang_ke_etalase")

HitungEtalase(e, b, n) == {<<"barang_ke_etalase", b, n>>, <<"etalase_barang", e, n>>}

TambahkanBarangKeEtalase(p) ==
    \E o \in Seller, e \in Pernah("etalase"), b \in Pernah("barang_induk") :
        /\ \A i \in BarisAda("barang_ke_etalase") : baris[i].rujuk # <<e, b>>
        /\ BuatBaca(p, Baris("barang_ke_etalase", o, 0, <<e, b>>), HitungEtalase(e, b, 1))

HapusBarangDariEtalase(p) ==
    \E i \in BarisAda("barang_ke_etalase") :
        HapusBaca(p, i, HitungEtalase(baris[i].rujuk[1], baris[i].rujuk[2], -1), {}, "")

-----------------------------------------------------------------------------
(* Discounts: a draft until its time comes, and only a draft is edited or   *)
(* deleted.  That the discount of a category exists is not checked.         *)

TambahDiskonProduk(p) ==
    \E o \in Seller, n \in Nama :
        /\ Cocok("diskon_produk", o, n) = {}
        /\ Cardinality(Milik("diskon_produk", o)) < Batas
        /\ BuatBaca(p, Baris("diskon_produk", o, n, << >>), {<<"seller_diskon", o, 1>>})

EditDiskonProduk(p) ==
    \E i \in BarisAda("diskon_produk"), n \in Nama : ~baris[i].tanda /\ GantiBaca(p, i, n)

HapusDiskonProduk(p) ==
    \E i \in BarisAda("diskon_produk") :
        /\ ~baris[i].tanda
        /\ HapusBaca(p, i, {<<"seller_diskon", baris[i].dari, -1>>}, {i}, "barang_di_diskon")

HitungDiskon(o, d, b, k, n) ==
    {<<"seller_barang_di_diskon", o, n>>, <<"barang_di_diskon", b, n>>,
     <<"kategori_di_diskon", k, n>>, <<"diskon_barang", d, n>>}

TetapKanDiskonPadaBarang(p) ==
    \E d \in Pernah("diskon_produk"), k \in BarisAda("kategori_barang") :
        LET o == baris[k].dari
            b == baris[k].rujuk[1]
        IN  /\ \A i \in Milik("barang_di_diskon", o) : baris[i].rujuk[3] # k
            /\ BuatBaca(p, Baris("barang_di_diskon", o, 0, <<d, b, k>>), HitungDiskon(o, d, b, k, 1))

HapusDiskonPadaBarang(p) ==
    \E i \in BarisAda("barang_di_diskon") :
        LET r == baris[i].rujuk
        IN  HapusBaca(p, i, HitungDiskon(baris[i].dari, r[1], r[2], r[3], -1), {}, "")

-----------------------------------------------------------------------------
(* Bank accounts.  The first one is the default.  Whether a category has    *)
(* its earnings sent to an account is not asked when it is deleted, and the *)
(* threshold row deleted is the one that has the id of the account.         *)

TambahRekeningSeller(p) ==
    \E o \in Seller, n \in Nama :
        /\ Cocok("rekening_seller", o, n) = {}
        /\ BuatBaca(p, [Baris("rekening_seller", o, n, << >>)
                            EXCEPT !.tanda = Milik("rekening_seller", o) = {}],
                    {<<"seller_rekening", o, 1>>})

EditRekeningSeller(p) == \E i \in BarisAda("rekening_seller"), n \in Nama : GantiBaca(p, i, n)

SetDefaultRekeningSeller(p) == \E i \in BarisAda("rekening_seller") : TandaiBaca(p, i)

HapusRekeningSeller(p) ==
    \E i \in BarisAda("rekening_seller"), H \in AmbangMana("rekening_seller") :
        HapusBaca(p, i, {<<"seller_rekening", baris[i].dari, -1>>}, H, "")

-----------------------------------------------------------------------------
(* Warehouses.  One that an unfinished order uses stays as it is, and one   *)
(* that a category uses is not deleted.                                     *)

GudangBebas(i) == \A j \in BarisAda("pesanan") : baris[j].rujuk[2] # i \/ baris[j].tanda

TambahAlamatGudang(p) ==
    \E o \in Seller, n \in Nama :
        /\ Cocok("alamat_gudang", o, n) = {}
        /\ BuatBaca(p, Baris("alamat_gudang", o, n, << >>), {<<"seller_gudang", o, 1>>})

EditAlamatGudang(p) ==
    \E i \in BarisAda("alamat_gudang"), n \in Nama : GudangBebas(i) /\ GantiBaca(p, i, n)

\* (Mutant) the orders are not looked at.
HapusAlamatGudangPesanan(p) ==
    \E i \in BarisAda("alamat_gudang") :
        /\ \A j \in BarisAda("kategori_barang") : baris[j].rujuk[2] # i
        /\ HapusBaca(p, i, {<<"seller_gudang", baris[i].dari, -1>>}, {i}, "")

HapusAlamatGudang(p) ==
    \E i \in BarisAda("alamat_gudang") :
        /\ \A j \in BarisAda("kategori_barang") : baris[j].rujuk[2] # i
        /\ GudangBebas(i)
        /\ HapusBaca(p, i, {<<"seller_gudang", baris[i].dari, -1>>}, {i}, "")

-----------------------------------------------------------------------------
(* Products.  The warehouse and the account that a new one names need not   *)
(* be the seller's nor be there; its categories all get them.  When it is   *)
(* deleted its categories go with it, and the counters are lowered for as   *)
(* many of them as a counter says, which is asked for with the product in   *)
(* a field that is no condition: that of any product.                       *)

MasukanBarangInduk(p) ==
    \E o \in Seller, n \in Nama, g \in Pernah("alamat_gudang"), r \in Pernah("rekening_seller"),
       m \in 1 .. MaxBaris :
        /\ Cocok("barang_induk", o, n) = {}
        /\ MasukanBaca(p, Baris("barang_induk", o, n, << >>),
                       [banyak |-> m, gudang |-> g, rekening |-> r],
                       {<<"seller_barang_induk", o, 1>>, <<"seller_kategori", o, m>>,
                        <<"gudang_kategori", g, m>>, <<"rekening_kategori", r, m>>})

EditBarangInduk(p) == \E i \in BarisAda("barang_induk"), n \in Nama : GantiBaca(p, i, n)

\* What a search with a limit may find.  (A negative one makes the request panic before.)
Batasi(K, n) == {S \in SUBSET K : Cardinality(S) = IF Cardinality(K) < n THEN Cardinality(K) ELSE n}

\* One less of a column, for each of the categories S, on the row each refers to.
Kurangi(S, kolom, tempat) ==
    {<<kolom, g, -Cardinality({k \in S : baris[k].rujuk[tempat] = g})>> :
        g \in {baris[k].rujuk[tempat] : k \in S}}

HapusBarangInduk(p) ==
    \E i \in BarisAda("barang_induk"), x \in ambang \cap Pernah("barang_induk") :
        \E S \in Batasi(KategoriDari(i), Isi(<<"barang_kategori", x>>)) :
            HapusBaca(p, i, {<<"seller_barang_induk", baris[i].dari, -1>>,
                             <<"seller_kategori", baris[i].dari, -Cardinality(S)>>}
                            \cup Kurangi(S, "gudang_kategori", 2) \cup Kurangi(S, "rekening_kategori", 3),
                      {i} \cup S, "kategori_barang")

-----------------------------------------------------------------------------
(* Categories: <<product, warehouse, account>>.  One at a time; their names *)
(* are left out.                                                            *)

HitungKategori(o, r, n) ==
    {<<"seller_kategori", o, n>>, <<"barang_kategori", r[1], n>>,
     <<"gudang_kategori", r[2], n>>, <<"rekening_kategori", r[3], n>>}

TambahKategoriBarang(p) ==
    \E b \in BarisAda("barang_induk") :
        LET o == baris[b].dari
        IN  \E g \in Milik("alamat_gudang", o), r \in Milik("rekening_seller", o) :
                BuatBaca(p, Baris("kategori_barang", o, 0, <<b, g, r>>), HitungKategori(o, <<b, g, r>>, 1))

HapusKategoriBarang(p) ==
    \E i \in BarisAda("kategori_barang") :
        HapusBaca(p, i, HitungKategori(baris[i].dari, baris[i].rujuk, -1), {i}, "")

\* All categories of a product to another account: the goroutine takes them all to have had
\* the account of one of them.
EditRekeningBarangInduk(p) ==
    \E b \in BarisAda("barang_induk") : \E r \in Milik("rekening_seller", baris[b].dari) :
        LET lama == {baris[k].rujuk[3] : k \in KategoriDari(b)}
        IN  \E s \in IF lama = {} THEN {0} ELSE lama :
                PindahBaca(p, {}, r, [LatarKosong EXCEPT !.barang = b,
                    !.kali = {<<"rekening_kategori", s, -1>>, <<"rekening_kategori", r, 1>>}])

\* All categories of a product to another warehouse.  The old ones are read as far as the
\* counter of the product says, one if it says none.
EditAlamatGudangBarangInduk(p) ==
    \E b \in BarisAda("barang_induk") : \E g \in Milik("alamat_gudang", baris[b].dari) :
        LET K == KategoriDari(b)
            n == Isi(<<"barang_kategori", b>>)
        IN  \E S \in Batasi(K, IF n = 0 THEN 1 ELSE n) :
                PindahBaca(p, {}, g, [LatarKosong EXCEPT !.barang = b,
                    !.ubah = Kurangi(S, "gudang_kategori", 2),
                    !.kali = {<<"gudang_kategori", g, 1>>}])

EditAlamatGudangBarangKategori(p) ==
    \E k \in BarisAda("kategori_barang") : \E g \in Milik("alamat_gudang", baris[k].dari) :
        PindahBaca(p, {k}, g, [LatarKosong EXCEPT !.ubah =
            {<<"gudang_kategori", baris[k].rujuk[2], -1>>, <<"gudang_kategori", g, 1>>}])

-----------------------------------------------------------------------------
(* Distributor and brand data: one per seller, deleted while pending.       *)

MasukanDataDistributor(p) ==
    \E o \in Seller :
        /\ Milik("distributor_data", o) = {}
        /\ BuatBaca(p, Baris("distributor_data", o, 0, << >>), {<<"seller_distributor", o, 1>>})

HapusDataDistributor(p) ==
    \E i \in BarisAda("distributor_data") :
        HapusBaca(p, i, {<<"seller_distributor", baris[i].dari, -1>>}, {i}, "")

MasukanDataBrand(p) ==
    \E o \in Seller :
        /\ Milik("brand_data", o) = {}
        /\ BuatBaca(p, Baris("brand_data", o, 0, << >>), {<<"seller_brand", o, 1>>})

HapusDataBrand(p) ==
    \E i \in BarisAda("brand_data") :
        HapusBaca(p, i, {<<"seller_brand", baris[i].dari, -1>>}, {i}, "")

-----------------------------------------------------------------------------
(* Comments of a seller, in the same tables as those of buyers.  Here the   *)
(* threshold row is deleted, the one that has the id of the comment.        *)

MasukanKomentarSeller(p) ==
    \E o \in Seller, b \in Pernah("barang_induk") :
        BuatBaca(p, Baris("komentar", o, 0, <<b>>), {<<"barang_komentar", b, 1>>})

HapusKomentarSeller(p) ==
    \E i \in BarisAda("komentar"), H \in AmbangMana("komentar") :
        /\ baris[i].dari \in Seller
        /\ HapusBaca(p, i, {<<"barang_komentar", 0, -1>>}, H, "")

MasukanChildKomentarSeller(p) ==
    \E o \in Seller, k \in Pernah("komentar") :
        BuatBaca(p, Baris("komentar_child", o, 0, <<k>>), {<<"komentar_child", k, 1>>})

HapusChildKomentarSeller(p) ==
    \E i \in BarisAda("komentar_child") :
        /\ baris[i].dari \in Seller
        /\ HapusBaca(p, i, {<<"komentar_child", 0, -1>>}, {}, "")

-----------------------------------------------------------------------------
PermintaanSeller(p) ==
    \/ TambahEtalaseSeller(p) \/ EditEtalaseSeller(p) \/ HapusEtalaseSeller(p)
    \/ TambahkanBarangKeEtalase(p) \/ HapusBarangDariEtalase(p)
    \/ TambahDiskonProduk(p) \/ EditDiskonProduk(p) \/ HapusDiskonProduk(p)
    \/ TetapKanDiskonPadaBarang(p) \/ HapusDiskonPadaBarang(p)
    \/ TambahRekeningSeller(p) \/ EditRekeningSeller(p)
    \/ SetDefaultRekeningSeller(p) \/ HapusRekeningSeller(p)
    \/ TambahAlamatGudang(p) \/ EditAlamatGudang(p) \/ HapusAlamatGudang(p)
    \/ MasukanBarangInduk(p) \/ EditBarangInduk(p) \/ HapusBarangInduk(p)
    \/ TambahKategoriBarang(p) \/ HapusKategoriBarang(p)
    \/ EditRekeningBarangInduk(p) \/ EditAlamatGudangBarangInduk(p) \/ EditAlamatGudangBarangKategori(p)
    \/ MasukanDataDistributor(p) \/ HapusDataDistributor(p)
    \/ MasukanDataBrand(p) \/ HapusDataBrand(p)
    \/ MasukanKomentarSeller(p) \/ HapusKomentarSeller(p)
    \/ MasukanChildKomentarSeller(p) \/ HapusChildKomentarSeller(p)
=============================================================================
