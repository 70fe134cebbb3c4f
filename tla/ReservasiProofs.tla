--------------------------- MODULE ReservasiProofs ---------------------------
(***************************************************************************)
(* Proofs about Reservasi, for any number of buyers, categories, units,     *)
(* order codes and concurrent requests.                                     *)
(***************************************************************************)
EXTENDS MCReservasi, FiniteSetTheorems, WellFoundedInduction, TLAPS

\* The stages in which a request works through the lines of an order.
TahapPesanan == {"checkout", "batalCheckout", "snap", "batalTransaksi"}

\* A request in such a stage has its buyer and its order.
PermintaanLengkap ==
    \A p \in Proses : proses[p].tahap \in TahapPesanan =>
        /\ proses[p].pengguna \in Pengguna
        /\ proses[p].item \in DaftarItem

TypeInv == TypeOK /\ PermintaanLengkap

-----------------------------------------------------------------------------
(* Data.                                                                    *)

\* A list of items is a sequence of items.
LEMMA DaftarItemSeq ==
    ASSUME NEW item \in DaftarItem
    PROVE  /\ item \in Seq(Item)
           /\ Len(item) \in Nat \ {0}
           /\ DOMAIN item = 1 .. Len(item)
           /\ \A i \in DOMAIN item : item[i] \in Item
<1>1. PICK n \in 1 .. MaxItem : item \in [1 .. n -> Item]
  BY DEF DaftarItem
<1>2. n \in Nat \ {0}
  BY <1>1, ReservasiAssumption DEF ReservasiAssumption
<1>3. item \in Seq(Item) /\ Len(item) = n
  BY <1>1, <1>2
<1> QED BY <1>1, <1>2, <1>3

LEMMA NolType == [k \in Kategori |-> 0] \in TipeJumlah
BY DEF TipeJumlah

LEMMA PermintaanType ==
    ASSUME NEW tahap \in TahapProses, NEW u \in Pengguna, NEW item \in DaftarItem
    PROVE  Permintaan(tahap, u, item) \in TipeProses
BY NolType DEF Permintaan, ProsesBebas, TipeProses

LEMMA BebasType == ProsesBebas \in TipeProses
BY NolType DEF ProsesBebas, TipeProses, TahapProses

LEMMA LepasType ==
    ASSUME TypeOK, NEW p \in Proses, Lepas(p)
    PROVE  proses' \in [Proses -> TipeProses]
BY BebasType DEF Lepas, TypeOK

LEMMA RekamType ==
    ASSUME NEW r \in TipeProses, NEW ids \in SUBSET Varian, NEW jumlah \in TipeJumlah,
           NEW n \in Nat
    PROVE  [r EXCEPT !.varian = ids, !.jumlah = jumlah, !.i = n] \in TipeProses
BY DEF TipeProses

\* One turn of a loop keeps the types of the local variables.
LEMMA LanjutType ==
    ASSUME TypeOK, NEW p \in Proses, NEW ids \in SUBSET Varian,
           NEW jumlah \in TipeJumlah, Lanjut(p, ids, jumlah)
    PROVE  proses' \in [Proses -> TipeProses]
<1>1. proses[p] \in TipeProses
  BY DEF TypeOK
<1>2. proses[p].i + 1 \in Nat
  BY <1>1 DEF TipeProses
<1>3. [proses[p] EXCEPT !.varian = ids, !.jumlah = jumlah, !.i = proses[p].i + 1] \in TipeProses
  BY <1>1, <1>2, RekamType
<1> QED BY <1>3 DEF Lanjut, TypeOK

\* The line a loop is at is an item, and adding it keeps the sums natural.
LEMMA LoopItem ==
    ASSUME TypeOK, NEW p \in Proses, proses[p].i \in DOMAIN proses[p].item
    PROVE  /\ proses[p].item \in DaftarItem
           /\ proses[p].item[proses[p].i] \in Item
           /\ TambahJumlah(proses[p]) \in TipeJumlah
<1>1. proses[p] \in TipeProses
  BY DEF TypeOK
<1>2. proses[p].item # << >>
  OBVIOUS
<1>3. proses[p].item \in DaftarItem
  BY <1>1, <1>2 DEF TipeProses
<1>4. proses[p].item[proses[p].i] \in Item
  BY <1>3, DaftarItemSeq
<1>5. /\ proses[p].item[proses[p].i].kategori \in Kategori
      /\ proses[p].item[proses[p].i].jumlah \in Nat
  BY <1>4, ReservasiAssumption DEF Item, Jumlah, ReservasiAssumption
<1>6. proses[p].jumlah \in TipeJumlah
  BY <1>1 DEF TipeProses
<1> QED BY <1>3, <1>4, <1>5, <1>6 DEF TambahJumlah, TipeJumlah

\* The rows of a bill are rows of the tables.
LEMMA BarisBaruType ==
    ASSUME NEW t \in Tagihan
    PROVE  /\ BarisBaru(t) \in Seq(BarisTransaksi)
           /\ Len(BarisBaru(t)) = Len(t.item)
           /\ DOMAIN t.item = 1 .. Len(t.item)
           /\ Len(t.item) \in Nat \ {0}
           /\ \A n \in 1 .. Len(t.item) :
                 /\ BarisBaru(t)[n].kode = t.kode
                 /\ BarisBaru(t)[n].pengguna = t.pengguna
                 /\ BarisBaru(t)[n].kategori = t.item[n].kategori
<1>1. t.kode \in Kode /\ t.pengguna \in Pengguna /\ t.item \in DaftarItem
  BY DEF Tagihan
<1>2. /\ Len(t.item) \in Nat \ {0}
      /\ DOMAIN t.item = 1 .. Len(t.item)
      /\ \A i \in DOMAIN t.item : t.item[i] \in Item
  BY <1>1, DaftarItemSeq
<1>3. BarisBaru(t) \in [1 .. Len(t.item) -> BarisTransaksi]
  BY <1>1, <1>2 DEF BarisBaru, BarisTransaksi, Item
<1>4. BarisBaru(t) \in Seq(BarisTransaksi) /\ Len(BarisBaru(t)) = Len(t.item)
  BY <1>2, <1>3
<1>5. \A n \in 1 .. Len(t.item) :
         /\ BarisBaru(t)[n].kode = t.kode
         /\ BarisBaru(t)[n].pengguna = t.pengguna
         /\ BarisBaru(t)[n].kategori = t.item[n].kategori
  BY <1>2 DEF BarisBaru
<1> QED BY <1>2, <1>4, <1>5

-----------------------------------------------------------------------------
(* Type correctness: one lemma per group of handlers.                       *)

\* What a LIMIT returns is part of the query's result.
LEMMA LimitBagian ==
    ASSUME NEW S, NEW n, NEW T \in Limit(S, n)
    PROVE  T \subseteq S
BY DEF Limit

LEMMA TypeInit == Init => TypeOK
<1>1. SUFFICES ASSUME Init PROVE TypeOK
  OBVIOUS
<1>2. \A k \in Kategori : Cardinality({v \in Varian : KategoriDari[v] = k}) \in Nat
  BY FS_Subset, FS_CardinalityType, ReservasiAssumption DEF ReservasiAssumption
<1>3. varian \in [Varian -> TipeVarian]
  BY <1>1 DEF Init, TipeVarian, StatusVarian
<1>4. stok \in [Kategori -> Nat]
  BY <1>1, <1>2 DEF Init
<1>5. keranjang \subseteq Keranjang /\ terbitHapus \in [Keranjang -> Nat]
  BY <1>1, ReservasiAssumption DEF Init, Keranjang, ReservasiAssumption
<1>6. proses \in [Proses -> TipeProses]
  BY <1>1, BebasType DEF Init
<1>7. transaksi \in Seq(BarisTransaksi) /\ transaksiGagal \in Seq(BarisTransaksi)
  BY <1>1 DEF Init
<1> QED BY <1>1, <1>3, <1>4, <1>5, <1>6, <1>7 DEF Init, TypeOK

\* A step that changes the local variables only.
LEMMA TypeLokal ==
    ASSUME TypeOK, proses' \in [Proses -> TipeProses],
           UNCHANGED <<varian, stok, keranjang, terbitHapus, klien, buku, terbit>>
    PROVE  TypeOK'
BY DEF TypeOK, klien, buku

\* Marking and freeing units keeps their types.
LEMMA TahanType ==
    ASSUME TypeOK, NEW ids, NEW u \in Pengguna \cup {TanpaPengguna}
    PROVE  /\ TahanVarian(ids, u) \in [Varian -> TipeVarian]
           /\ LepasVarian(ids) \in [Varian -> TipeVarian]
BY DEF TypeOK, TahanVarian, LepasVarian, TipeVarian, StatusVarian

LEMMA StokType ==
    ASSUME TypeOK, NEW jumlah \in TipeJumlah
    PROVE  /\ KurangiStok(jumlah) \in [Kategori -> Nat]
           /\ KembalikanStok(jumlah) \in [Kategori -> Nat]
BY DEF TypeOK, TipeJumlah, KurangiStok, KembalikanStok

LEMMA TypePutus ==
    ASSUME TypeOK, NEW p \in Proses, Putus(p)
    PROVE  TypeOK'
BY LepasType, TypeLokal DEF Putus

LEMMA TypeCheckout ==
    ASSUME TypeOK, PermintaanLengkap, NEW p \in Proses, LangkahCheckout(p)
    PROVE  TypeOK'
<1>1. ASSUME NEW u \in Pengguna, NEW item \in DaftarItem, CheckoutBarangUser(p, u, item)
      PROVE  TypeOK'
  <2>1. PICK baris \in Limit(keranjang \cap ({u} \X KategoriItem(item)), 1) :
             proses' = [proses EXCEPT ![p] =
                          [Permintaan("checkout", u, item) EXCEPT !.baris = baris]]
    BY <1>1 DEF CheckoutBarangUser
  <2>2. baris \subseteq Keranjang
    BY <2>1, LimitBagian DEF TypeOK
  <2>3. Permintaan("checkout", u, item) \in TipeProses
    BY PermintaanType DEF TahapProses
  <2>4. [Permintaan("checkout", u, item) EXCEPT !.baris = baris] \in TipeProses
    BY <2>2, <2>3 DEF TipeProses
  <2>5. proses' \in [Proses -> TipeProses]
    BY <2>1, <2>4 DEF TypeOK
  <2> QED BY <1>1, <2>5, TypeLokal DEF CheckoutBarangUser
<1>2. ASSUME CheckoutBacaVarian(p) PROVE TypeOK'
  <2>1. CASE Lepas(p)
    BY <1>2, <2>1, LepasType, TypeLokal DEF CheckoutBacaVarian
  <2>2. CASE ~Lepas(p)
    <3>1. PICK ids : /\ ids \in Limit(SiapJual(proses[p].item[proses[p].i].kategori),
                                      proses[p].item[proses[p].i].jumlah)
                     /\ Lanjut(p, proses[p].varian \cup ids, TambahJumlah(proses[p]))
      BY <1>2, <2>2 DEF CheckoutBacaVarian
    <3>2. proses[p].varian \cup ids \in SUBSET Varian
      BY <3>1, LimitBagian DEF SiapJual, TypeOK, TipeProses
    <3>3. TambahJumlah(proses[p]) \in TipeJumlah
      BY <1>2, LoopItem DEF CheckoutBacaVarian
    <3>4. proses' \in [Proses -> TipeProses]
      BY <3>1, <3>2, <3>3, LanjutType
    <3> QED BY <1>2, <3>4, TypeLokal DEF CheckoutBacaVarian
  <2> QED BY <2>1, <2>2
<1>3. ASSUME CheckoutTulis(p) \/ CheckoutGagal(p)
      PROVE  proses' \in [Proses -> TipeProses]
  <2>1. proses[p] \in TipeProses
    BY DEF TypeOK
  <2>2. [proses[p] EXCEPT !.tahap = "latarKeranjang"] \in TipeProses
    BY <2>1 DEF TipeProses, TahapProses
  <2> QED BY <1>3, <2>2 DEF CheckoutTulis, CheckoutGagal, TypeOK
<1>4. ASSUME CheckoutTulis(p) PROVE TypeOK'
  <2>1. proses[p] \in TipeProses /\ proses[p].tahap = "checkout"
    BY <1>4 DEF TypeOK, CheckoutTulis
  <2>2. proses[p].jumlah \in TipeJumlah /\ proses[p].pengguna \in Pengguna \cup {TanpaPengguna}
    BY <2>1 DEF TipeProses
  <2>3. varian' \in [Varian -> TipeVarian] /\ stok' \in [Kategori -> Nat]
    BY <1>4, <2>2, TahanType, StokType DEF CheckoutTulis
  <2>4. [pengguna |-> proses[p].pengguna, item |-> proses[p].item] \in Pesanan
    BY <1>4 DEF CheckoutTulis, PermintaanLengkap, TahapPesanan, Pesanan
  <2> QED BY <1>3, <1>4, <2>3, <2>4 DEF CheckoutTulis, TypeOK, buku
<1>5. ASSUME CheckoutGagal(p) PROVE TypeOK'
  BY <1>3, <1>5, TypeLokal DEF CheckoutGagal
<1>6. ASSUME LatarKeranjang(p) PROVE TypeOK'
  <2>1. terbitHapus' \in [Keranjang -> Nat]
    BY <1>6 DEF LatarKeranjang, TypeOK
  <2>2. proses' \in [Proses -> TipeProses]
    BY <1>6, LepasType DEF LatarKeranjang
  <2> QED BY <1>6, <2>1, <2>2 DEF LatarKeranjang, TypeOK, klien, buku
<1> QED BY <1>1, <1>2, <1>4, <1>5, <1>6 DEF LangkahCheckout

LEMMA TypeBatal ==
    ASSUME TypeOK, PermintaanLengkap, NEW p \in Proses, LangkahBatal(p)
    PROVE  TypeOK'
<1>1. ASSUME NEW d \in dataCheckout, BatalCheckoutUser(p, d) PROVE TypeOK'
  <2>1. d.pengguna \in Pengguna /\ d.item \in DaftarItem
    BY DEF TypeOK, Pesanan
  <2>2. Permintaan("batalCheckout", d.pengguna, d.item) \in TipeProses
    BY <2>1, PermintaanType DEF TahapProses
  <2>3. proses' \in [Proses -> TipeProses] /\ dataCheckout' \subseteq dataCheckout
    BY <1>1, <2>2 DEF BatalCheckoutUser, Pakai, TypeOK
  <2> QED BY <1>1, <2>3 DEF BatalCheckoutUser, TypeOK, buku
<1>2. ASSUME NEW t \in tagihan, BatalTransaksi(p, t) PROVE TypeOK'
  <2>1. t.pengguna \in Pengguna /\ t.item \in DaftarItem /\ t.kode \in Kode
    BY DEF TypeOK, Tagihan
  <2>2. Permintaan("batalTransaksi", t.pengguna, t.item) \in TipeProses
    BY <2>1, PermintaanType DEF TahapProses
  <2>3. proses' \in [Proses -> TipeProses] /\ terpakai' \subseteq Kode
    BY <1>2, <2>1, <2>2 DEF BatalTransaksi, PakaiTagihan, TypeOK
  <2> QED BY <1>2, <2>3 DEF BatalTransaksi, TypeOK, buku
<1>3. ASSUME BatalBacaVarian(p) PROVE TypeOK'
  <2>1. PICK ids : /\ ids \in Limit(Ditahan(proses[p].pengguna,
                                           proses[p].item[proses[p].i].kategori),
                                   proses[p].item[proses[p].i].jumlah)
                   /\ Lanjut(p, proses[p].varian \cup ids, TambahJumlah(proses[p]))
    BY <1>3 DEF BatalBacaVarian
  <2>2. proses[p].varian \cup ids \in SUBSET Varian
    BY <2>1, LimitBagian DEF Ditahan, TypeOK, TipeProses
  <2>3. TambahJumlah(proses[p]) \in TipeJumlah
    BY <1>3, LoopItem DEF BatalBacaVarian
  <2>4. proses' \in [Proses -> TipeProses]
    BY <2>1, <2>2, <2>3, LanjutType
  <2> QED BY <1>3, <2>4, TypeLokal DEF BatalBacaVarian
<1>4. ASSUME BatalTransaksiBaca(p) PROVE TypeOK'
  <2> DEFINE r == proses[p]
             jumlah == [r.jumlah EXCEPT ![r.item[r.i].kategori] = r.item[r.i].jumlah]
  <2>1. PICK ids : /\ ids \in Limit(Ditahan(r.pengguna, r.item[r.i].kategori),
                                   r.item[r.i].jumlah)
                   /\ Lanjut(p, IF ids = {} THEN r.varian ELSE ids, jumlah)
    BY <1>4 DEF BatalTransaksiBaca
  <2>2. (IF ids = {} THEN r.varian ELSE ids) \in SUBSET Varian
    BY <2>1, LimitBagian DEF Ditahan, TypeOK, TipeProses
  <2>3. jumlah \in TipeJumlah
    <3>1. r.item[r.i] \in Item
      BY <1>4, LoopItem DEF BatalTransaksiBaca
    <3>2. r.item[r.i].jumlah \in Nat
      BY <3>1, ReservasiAssumption DEF Item, Jumlah, ReservasiAssumption
    <3>3. r.jumlah \in TipeJumlah
      BY DEF TypeOK, TipeProses
    <3> QED BY <3>2, <3>3 DEF TipeJumlah
  <2> HIDE DEF jumlah
  <2>4. proses' \in [Proses -> TipeProses]
    BY <2>1, <2>2, <2>3, LanjutType
  <2> QED BY <1>4, <2>4, TypeLokal DEF BatalTransaksiBaca
<1>5. ASSUME BatalTulis(p) \/ BatalTransaksiTulis(p) PROVE TypeOK'
  <2>1. proses[p].jumlah \in TipeJumlah
    BY DEF TypeOK, TipeProses
  <2>2. varian' \in [Varian -> TipeVarian]
    BY <1>5, TahanType DEF BatalTulis, BatalTransaksiTulis
  <2>3. stok' \in [Kategori -> Nat]
    BY <1>5, <2>1, StokType DEF BatalTulis, BatalTransaksiTulis
  <2>4. proses' \in [Proses -> TipeProses]
    BY <1>5, LepasType DEF BatalTulis, BatalTransaksiTulis
  <2> QED BY <1>5, <2>2, <2>3, <2>4 DEF BatalTulis, BatalTransaksiTulis, TypeOK, klien, buku
<1> QED BY <1>1, <1>2, <1>3, <1>4, <1>5 DEF LangkahBatal

LEMMA TypeSnap ==
    ASSUME TypeOK, PermintaanLengkap, NEW p \in Proses, LangkahSnap(p)
    PROVE  TypeOK'
<1>1. ASSUME NEW d \in dataCheckout, SnapTransaksi(p, d) PROVE TypeOK'
  <2>1. d.pengguna \in Pengguna /\ d.item \in DaftarItem
    BY DEF TypeOK, Pesanan
  <2>2. Permintaan("snap", d.pengguna, d.item) \in TipeProses
    BY <2>1, PermintaanType DEF TahapProses
  <2>3. proses' \in [Proses -> TipeProses] /\ dataCheckout' \subseteq dataCheckout
    BY <1>1, <2>2 DEF SnapTransaksi, Pakai, TypeOK
  <2> QED BY <1>1, <2>3 DEF SnapTransaksi, TypeOK, buku
<1>2. ASSUME proses[p].tahap = "snap", KeBatalCheckout(p)
      PROVE  proses' \in [Proses -> TipeProses]
  <2>1. proses[p].pengguna \in Pengguna /\ proses[p].item \in DaftarItem
    BY <1>2 DEF PermintaanLengkap, TahapPesanan
  <2>2. Permintaan("batalCheckout", proses[p].pengguna, proses[p].item) \in TipeProses
    BY <2>1, PermintaanType DEF TahapProses
  <2> QED BY <1>2, <2>2 DEF KeBatalCheckout, TypeOK
<1>3. ASSUME SnapPeriksa(p) PROVE TypeOK'
  <2>1. CASE KeBatalCheckout(p)
    BY <1>2, <1>3, <2>1, TypeLokal DEF SnapPeriksa
  <2>2. CASE Lanjut(p, proses[p].varian, proses[p].jumlah)
    <3>1. proses[p].varian \in SUBSET Varian /\ proses[p].jumlah \in TipeJumlah
      BY DEF TypeOK, TipeProses
    <3> QED BY <1>3, <2>2, <3>1, LanjutType, TypeLokal DEF SnapPeriksa
  <2> QED BY <1>3, <2>1, <2>2 DEF SnapPeriksa
<1>4. ASSUME SnapBatal(p) PROVE TypeOK'
  BY <1>2, <1>4, TypeLokal DEF SnapBatal
<1>5. ASSUME SnapSelesai(p) PROVE TypeOK'
  <2>1. PICK kode \in Kode, metode \in Metode :
            tagihan' = tagihan \cup {[kode |-> kode, metode |-> metode,
                                     pengguna |-> proses[p].pengguna,
                                     item |-> proses[p].item]}
    BY <1>5 DEF SnapSelesai
  <2>2. proses[p].pengguna \in Pengguna /\ proses[p].item \in DaftarItem
    BY <1>5 DEF SnapSelesai, PermintaanLengkap, TahapPesanan
  <2>3. tagihan' \subseteq Tagihan
    BY <2>1, <2>2 DEF TypeOK, Tagihan
  <2>4. proses' \in [Proses -> TipeProses]
    BY <1>5, LepasType DEF SnapSelesai
  <2> QED BY <1>5, <2>3, <2>4 DEF SnapSelesai, TypeOK, buku
<1> QED BY <1>1, <1>3, <1>4, <1>5 DEF LangkahSnap

\* A nonempty set of naturals has a least element.
LEMMA AdaTerkecil ==
    ASSUME NEW T \in SUBSET Nat, T # {}
    PROVE  \E x \in T : \A y \in T : x <= y
<1>1. PICK x \in T : \A y \in T : ~ (<<y, x>> \in OpToRel(<, Nat))
  BY NatLessThanWellFounded, WFMin
<1>2. ASSUME NEW y \in T PROVE x <= y
  <2>1. <<y, x>> \in Nat \X Nat
    OBVIOUS
  <2>2. ~(y < x)
    BY <1>1, <2>1 DEF OpToRel
  <2> QED BY <2>1, <2>2
<1> QED BY <1>2

\* The line of a bill that takes a unit is a line of the unit's category.
LEMMA BarisPertamaBenar ==
    ASSUME NEW item \in DaftarItem, NEW k \in KategoriItem(item)
    PROVE  /\ BarisPertama(item, k) \in 1 .. Len(item)
           /\ item[BarisPertama(item, k)].kategori = k
<1> DEFINE T == {i \in DOMAIN item : item[i].kategori = k}
           Q(i) == item[i].kategori = k /\ \A j \in DOMAIN item : item[j].kategori = k => i <= j
<1>1. DOMAIN item = 1 .. Len(item) /\ Len(item) \in Nat
  BY DaftarItemSeq
<1>2. T # {} /\ T \in SUBSET Nat
  BY <1>1 DEF KategoriItem
<1>3. PICK i \in T : \A j \in T : i <= j
  BY <1>2, AdaTerkecil
<1>4. i \in DOMAIN item /\ Q(i)
  BY <1>3
<1>5. BarisPertama(item, k) = CHOOSE x \in DOMAIN item : Q(x)
  BY DEF BarisPertama
<1>6. BarisPertama(item, k) \in DOMAIN item /\ Q(BarisPertama(item, k))
  <2> HIDE DEF Q
  <2> QED BY <1>4, <1>5
<1> QED BY <1>1, <1>6

\* Each unit is left alone or sold: it was held by the bill's buyer, and it gets a
\* row of its category among those the bill adds.
LEMMA JualVarianBenar ==
    ASSUME TypeOK, NEW t \in tagihan, NEW v \in Varian
    PROVE  \/ /\ JualVarian(t)[v] = varian[v]
              /\ ~ \E k \in KategoriItem(t.item) : v \in Ditahan(t.pengguna, k)
           \/ /\ varian[v].status = "Dipesan"
              /\ varian[v].pemegang = t.pengguna
              /\ JualVarian(t)[v].status = "Terjual"
              /\ JualVarian(t)[v].pemegang = t.pengguna
              /\ \E n \in 1 .. Len(t.item) : /\ JualVarian(t)[v].transaksi = Len(transaksi) + n
                                             /\ t.item[n].kategori = KategoriDari[v]
<1>1. t.item \in DaftarItem
  BY DEF TypeOK, Tagihan
<1>2. varian[v] \in TipeVarian
  BY DEF TypeOK
<1>3. ASSUME NEW k \in KategoriItem(t.item), v \in Ditahan(t.pengguna, k)
      PROVE  /\ KategoriDari[v] = k
             /\ varian[v].status = "Dipesan"
             /\ varian[v].pemegang = t.pengguna
             /\ JualVarian(t)[v] = [varian[v] EXCEPT
                   !.status = "Terjual",
                   !.transaksi = Len(transaksi) + BarisPertama(t.item, KategoriDari[v])]
  BY <1>3 DEF Ditahan, JualVarian
<1>4. CASE \E k \in KategoriItem(t.item) : v \in Ditahan(t.pengguna, k)
  <2>1. PICK k \in KategoriItem(t.item) : v \in Ditahan(t.pengguna, k)
    BY <1>4
  <2>2. BarisPertama(t.item, k) \in 1 .. Len(t.item) /\ t.item[BarisPertama(t.item, k)].kategori = k
    BY <1>1, BarisPertamaBenar
  <2> QED BY <1>2, <1>3, <2>1, <2>2 DEF TipeVarian
<1>5. CASE ~ \E k \in KategoriItem(t.item) : v \in Ditahan(t.pengguna, k)
  BY <1>5 DEF JualVarian
<1> QED BY <1>4, <1>5

LEMMA TerjualType ==
    ASSUME NEW r \in TipeVarian, NEW n \in Nat
    PROVE  [r EXCEPT !.status = "Terjual", !.transaksi = n] \in TipeVarian
BY DEF TipeVarian, StatusVarian

LEMMA JualType ==
    ASSUME TypeOK, NEW t \in tagihan
    PROVE  JualVarian(t) \in [Varian -> TipeVarian]
<1>1. Len(transaksi) \in Nat /\ t.pengguna \in Pengguna /\ t.item \in DaftarItem
  BY DEF TypeOK, Tagihan
<1>2. ASSUME NEW v \in Varian PROVE JualVarian(t)[v] \in TipeVarian
  <2>1. varian[v] \in TipeVarian
    BY DEF TypeOK
  <2>2. CASE ~ \E k \in KategoriItem(t.item) : v \in Ditahan(t.pengguna, k)
    BY <2>1, <2>2 DEF JualVarian
  <2>3. CASE \E k \in KategoriItem(t.item) : v \in Ditahan(t.pengguna, k)
    <3>1. KategoriDari[v] \in KategoriItem(t.item)
      BY <2>3 DEF Ditahan
    <3>2. BarisPertama(t.item, KategoriDari[v]) \in 1 .. Len(t.item) /\ Len(t.item) \in Nat
      BY <1>1, <3>1, BarisPertamaBenar, DaftarItemSeq
    <3> DEFINE n == Len(transaksi) + BarisPertama(t.item, KategoriDari[v])
    <3>3. n \in Nat
      BY <1>1, <3>2
    <3>4. JualVarian(t)[v] = [varian[v] EXCEPT !.status = "Terjual", !.transaksi = n]
      BY <2>3 DEF JualVarian
    <3> QED BY <2>1, <3>3, <3>4, TerjualType
  <2> QED BY <2>2, <2>3
<1> QED BY <1>2 DEF JualVarian

LEMMA TypeBayar ==
    ASSUME TypeOK, NEW p \in Proses, LangkahBayar(p)
    PROVE  TypeOK'
<1>1. ASSUME NEW t \in tagihan, KunciTransaksi(p, t) PROVE TypeOK'
  <2>1. t \in Tagihan /\ t.kode \in Kode
    BY DEF TypeOK, Tagihan
  <2>2. pembayaran' \subseteq Kode /\ terpakai' \subseteq Kode
    BY <1>1, <2>1 DEF KunciTransaksi, PakaiTagihan, TypeOK
  <2>3. transaksi' \in Seq(BarisTransaksi)
    <3>1. BarisBaru(t) \in Seq(BarisTransaksi)
      BY <2>1, BarisBaruType
    <3> QED BY <1>1, <3>1 DEF KunciTransaksi, TypeOK
  <2>4. varian' \in [Varian -> TipeVarian]
    BY <1>1, JualType DEF KunciTransaksi
  <2>5. {Len(transaksi) + n : n \in DOMAIN t.item} \in SUBSET Nat
    BY <2>1, BarisBaruType DEF TypeOK
  <2>6. [ProsesBebas EXCEPT !.tahap = "latarTransaksi",
                            !.nomor = {Len(transaksi) + n : n \in DOMAIN t.item}] \in TipeProses
    BY <2>5, BebasType DEF TipeProses, TahapProses
  <2>7. proses' \in [Proses -> TipeProses]
    BY <1>1, <2>6 DEF KunciTransaksi, TypeOK
  <2> QED BY <1>1, <2>2, <2>3, <2>4, <2>7 DEF KunciTransaksi, TypeOK
<1>2. ASSUME NEW t \in tagihan, GagalTransaksi(p, t) PROVE TypeOK'
  <2>1. t \in Tagihan /\ t.kode \in Kode
    BY DEF TypeOK, Tagihan
  <2>2. pembayaran' \subseteq Kode /\ terpakai' \subseteq Kode
    BY <1>2, <2>1 DEF GagalTransaksi, PakaiTagihan, TypeOK
  <2>3. transaksiGagal' \in Seq(BarisTransaksi)
    <3>1. BarisBaru(t) \in Seq(BarisTransaksi)
      BY <2>1, BarisBaruType
    <3> QED BY <1>2, <3>1 DEF GagalTransaksi, TypeOK
  <2> QED BY <1>2, <2>2, <2>3 DEF GagalTransaksi, TypeOK
<1>3. ASSUME LatarTransaksi(p) PROVE TypeOK'
  <2>1. CASE proses[p].nomor = {}
    BY <1>3, <2>1, LepasType DEF LatarTransaksi, TypeOK, klien, buku
  <2>2. CASE proses[p].nomor # {}
    <3>1. PICK n \in proses[p].nomor :
               /\ terbit' = terbit \cup {n}
               /\ proses' = [proses EXCEPT ![p] =
                                [proses[p] EXCEPT !.nomor = proses[p].nomor \ {n}]]
      BY <1>3, <2>2 DEF LatarTransaksi
    <3>2. proses[p] \in TipeProses /\ n \in Nat
      BY DEF TypeOK, TipeProses
    <3>3. [proses[p] EXCEPT !.nomor = proses[p].nomor \ {n}] \in TipeProses
      BY <3>2 DEF TipeProses
    <3>4. proses' \in [Proses -> TipeProses] /\ terbit' \subseteq Nat
      BY <3>1, <3>2, <3>3 DEF TypeOK
    <3> QED BY <1>3, <3>4 DEF LatarTransaksi, TypeOK, klien, buku
  <2> QED BY <2>1, <2>2
<1> QED BY <1>1, <1>2, <1>3 DEF LangkahBayar, LockTransaksiVa, LockTransaksiWallet,
       LockTransaksiGerai, PaidFailedTransaksiVa, PaidFailedTransaksiWallet,
       PaidFailedTransaksiGerai

-----------------------------------------------------------------------------
(* A request that works through an order has its buyer and its lines.       *)

LEMMA LengkapSatu ==
    ASSUME TypeOK, PermintaanLengkap, NEW p \in Proses, NEW r,
           proses' = [proses EXCEPT ![p] = r],
           r.tahap \in TahapPesanan => r.pengguna \in Pengguna /\ r.item \in DaftarItem
    PROVE  PermintaanLengkap'
BY DEF TypeOK, PermintaanLengkap

LEMMA LengkapPermintaan ==
    ASSUME TypeOK, PermintaanLengkap, NEW p \in Proses, NEW tahap,
           NEW u \in Pengguna, NEW item \in DaftarItem,
           proses' = [proses EXCEPT ![p] = Permintaan(tahap, u, item)]
    PROVE  PermintaanLengkap'
BY LengkapSatu DEF Permintaan, ProsesBebas

LEMMA LengkapLepas ==
    ASSUME TypeOK, PermintaanLengkap, NEW p \in Proses, Lepas(p)
    PROVE  PermintaanLengkap'
BY LengkapSatu DEF Lepas, ProsesBebas, TahapPesanan

LEMMA LengkapLanjut ==
    ASSUME TypeOK, PermintaanLengkap, NEW p \in Proses, NEW ids, NEW jumlah,
           Lanjut(p, ids, jumlah)
    PROVE  PermintaanLengkap'
<1>1. proses[p] \in TipeProses
  BY DEF TypeOK
<1> DEFINE r == [proses[p] EXCEPT !.varian = ids, !.jumlah = jumlah, !.i = proses[p].i + 1]
<1>2. r.tahap = proses[p].tahap /\ r.pengguna = proses[p].pengguna /\ r.item = proses[p].item
  BY <1>1 DEF TipeProses
<1>3. proses' = [proses EXCEPT ![p] = r]
  BY DEF Lanjut
<1>4. r.tahap \in TahapPesanan => r.pengguna \in Pengguna /\ r.item \in DaftarItem
  BY <1>2 DEF PermintaanLengkap
<1> HIDE DEF r
<1> QED BY <1>3, <1>4, LengkapSatu

LEMMA LengkapLangkah ==
    ASSUME TypeOK, PermintaanLengkap, NEW p \in Proses,
           LangkahCheckout(p) \/ LangkahBatal(p) \/ LangkahSnap(p) \/ LangkahBayar(p) \/ Putus(p)
    PROVE  PermintaanLengkap'
<1>0. proses[p] \in TipeProses
  BY DEF TypeOK
<1>1. ASSUME NEW u \in Pengguna, NEW item \in DaftarItem, CheckoutBarangUser(p, u, item)
      PROVE  PermintaanLengkap'
  BY <1>1, LengkapSatu DEF CheckoutBarangUser, Permintaan, ProsesBebas
<1>2. CASE CheckoutBacaVarian(p)
  BY <1>2, LengkapLepas, LengkapLanjut DEF CheckoutBacaVarian
<1>3. CASE CheckoutTulis(p) \/ CheckoutGagal(p)
  <2>1. [proses[p] EXCEPT !.tahap = "latarKeranjang"].tahap \notin TahapPesanan
    BY <1>0 DEF TipeProses, TahapPesanan
  <2> QED BY <1>3, <2>1, LengkapSatu DEF CheckoutTulis, CheckoutGagal
<1>4. CASE LatarKeranjang(p) \/ BatalTulis(p) \/ BatalTransaksiTulis(p) \/ SnapSelesai(p) \/ Putus(p)
  BY <1>4, LengkapLepas DEF LatarKeranjang, BatalTulis, BatalTransaksiTulis, SnapSelesai, Putus
<1>5. ASSUME NEW d \in dataCheckout, BatalCheckoutUser(p, d) \/ SnapTransaksi(p, d)
      PROVE  PermintaanLengkap'
  <2>1. d.pengguna \in Pengguna /\ d.item \in DaftarItem
    BY DEF TypeOK, Pesanan
  <2> QED BY <1>5, <2>1, LengkapPermintaan DEF BatalCheckoutUser, SnapTransaksi
<1>6. ASSUME NEW t \in tagihan, BatalTransaksi(p, t)
      PROVE  PermintaanLengkap'
  <2>1. t.pengguna \in Pengguna /\ t.item \in DaftarItem
    BY DEF TypeOK, Tagihan
  <2> QED BY <1>6, <2>1, LengkapPermintaan DEF BatalTransaksi
<1>7. CASE BatalBacaVarian(p) \/ BatalTransaksiBaca(p)
  BY <1>7, LengkapLanjut DEF BatalBacaVarian, BatalTransaksiBaca
<1>8. ASSUME proses[p].tahap = "snap", KeBatalCheckout(p) PROVE PermintaanLengkap'
  <2>1. proses[p].pengguna \in Pengguna /\ proses[p].item \in DaftarItem
    BY <1>8 DEF PermintaanLengkap, TahapPesanan
  <2> QED BY <1>8, <2>1, LengkapPermintaan DEF KeBatalCheckout
<1>9. CASE SnapPeriksa(p) \/ SnapBatal(p)
  BY <1>8, <1>9, LengkapLanjut DEF SnapPeriksa, SnapBatal
<1>10. ASSUME NEW t \in tagihan, KunciTransaksi(p, t) PROVE PermintaanLengkap'
  BY <1>10, LengkapSatu DEF KunciTransaksi, ProsesBebas, TahapPesanan
<1>11. ASSUME NEW t \in tagihan, GagalTransaksi(p, t) PROVE PermintaanLengkap'
  BY <1>11 DEF GagalTransaksi, PermintaanLengkap
<1>12. CASE LatarTransaksi(p)
  <2>1. CASE Lepas(p)
    BY <2>1, LengkapLepas
  <2>2. CASE ~Lepas(p)
    <3>1. PICK n \in proses[p].nomor :
             proses' = [proses EXCEPT ![p] = [proses[p] EXCEPT !.nomor = proses[p].nomor \ {n}]]
      BY <1>12, <2>2 DEF LatarTransaksi
    <3>2. [proses[p] EXCEPT !.nomor = proses[p].nomor \ {n}].tahap \notin TahapPesanan
      BY <1>0, <1>12 DEF TipeProses, LatarTransaksi, TahapPesanan
    <3> QED BY <3>1, <3>2, LengkapSatu
  <2> QED BY <2>1, <2>2
<1> QED BY <1>1, <1>2, <1>3, <1>4, <1>5, <1>6, <1>7, <1>9, <1>10, <1>11, <1>12
    DEF LangkahCheckout, LangkahBatal, LangkahSnap, LangkahBayar, LockTransaksiVa,
        LockTransaksiWallet, LockTransaksiGerai, PaidFailedTransaksiVa,
        PaidFailedTransaksiWallet, PaidFailedTransaksiGerai

-----------------------------------------------------------------------------
(* The effect of a step on the tables: five cases.                          *)

LEMMA LangkahTabel ==
    ASSUME TypeInv, [Next]_vars
    PROVE  \/ UNCHANGED <<varian, buku>>
           \/ \E ids : \E u \in Pengguna : varian' = TahanVarian(ids, u) /\ UNCHANGED buku
           \/ \E ids : varian' = LepasVarian(ids) /\ UNCHANGED buku
           \/ \E p \in Proses, t \in tagihan : KunciTransaksi(p, t)
           \/ \E p \in Proses, t \in tagihan : GagalTransaksi(p, t)
<1> DEFINE Kasus == \/ UNCHANGED <<varian, buku>>
                    \/ \E ids : \E u \in Pengguna : varian' = TahanVarian(ids, u) /\ UNCHANGED buku
                    \/ \E ids : varian' = LepasVarian(ids) /\ UNCHANGED buku
                    \/ \E p \in Proses, t \in tagihan : KunciTransaksi(p, t)
                    \/ \E p \in Proses, t \in tagihan : GagalTransaksi(p, t)
<1>1. ASSUME NEW p \in Proses, LangkahCheckout(p) PROVE Kasus
  <2>1. CASE CheckoutTulis(p)
    <3>1. proses[p].pengguna \in Pengguna
      BY <2>1 DEF CheckoutTulis, TypeInv, PermintaanLengkap, TahapPesanan
    <3> QED BY <2>1, <3>1 DEF CheckoutTulis
  <2>2. CASE ~CheckoutTulis(p)
    BY <1>1, <2>2 DEF LangkahCheckout, CheckoutBarangUser, CheckoutBacaVarian,
                      CheckoutGagal, LatarKeranjang
  <2> QED BY <2>1, <2>2
<1>2. ASSUME NEW p \in Proses, LangkahBatal(p) PROVE Kasus
  BY <1>2 DEF LangkahBatal, BatalCheckoutUser, BatalBacaVarian, BatalTulis,
              BatalTransaksi, BatalTransaksiBaca, BatalTransaksiTulis
<1>3. ASSUME NEW p \in Proses, LangkahSnap(p) PROVE Kasus
  BY <1>3 DEF LangkahSnap, SnapTransaksi, SnapPeriksa, SnapBatal, SnapSelesai
<1>4. ASSUME NEW p \in Proses, LangkahBayar(p) PROVE Kasus
  BY <1>4 DEF LangkahBayar, LockTransaksiVa, LockTransaksiWallet, LockTransaksiGerai,
              PaidFailedTransaksiVa, PaidFailedTransaksiWallet, PaidFailedTransaksiGerai,
              LatarTransaksi
<1>5. ASSUME NEW p \in Proses, Putus(p) PROVE Kasus
  BY <1>5 DEF Putus
<1>6. CASE UNCHANGED vars
  BY <1>6 DEF vars, buku
<1> QED BY <1>1, <1>2, <1>3, <1>4, <1>5, <1>6 DEF Next

LEMMA TypeLangkah == TypeInv /\ [Next]_vars => TypeInv'
<1>1. SUFFICES ASSUME TypeInv, [Next]_vars PROVE TypeInv'
  OBVIOUS
<1>2. ASSUME NEW p \in Proses,
             \/ LangkahCheckout(p) \/ LangkahBatal(p) \/ LangkahSnap(p)
             \/ LangkahBayar(p) \/ Putus(p)
      PROVE  TypeInv'
  BY <1>1, <1>2, TypeCheckout, TypeBatal, TypeSnap, TypeBayar, TypePutus, LengkapLangkah
     DEF TypeInv
<1>3. CASE UNCHANGED vars
  BY <1>1, <1>3 DEF TypeInv, TypeOK, PermintaanLengkap, vars
<1> QED BY <1>1, <1>2, <1>3 DEF Next

LEMMA TypeInvInit == Init => TypeInv
BY TypeInit DEF Init, ProsesBebas, PermintaanLengkap, TahapPesanan, TypeInv

\* The types hold along every behaviour, with the requests complete.
LEMMA TypeInvBenar == Spec => []TypeInv
BY TypeInvInit, TypeLangkah, PTL DEF Spec

\* Type correctness: every handler, from whatever its request read and however the
\* requests interleave, leaves each table and each local variable with values of
\* its type; the counter stok never goes below zero.
THEOREM TypeBenar == Spec => []TypeOK
<1>1. TypeInv => TypeOK
  BY DEF TypeInv
<1> QED BY <1>1, TypeInvBenar, PTL

\* A unit is Ready exactly when nobody holds it, in every interleaving of the
\* handlers.
THEOREM PemegangBenar == Spec => []PemegangKonsisten
<1>1. Init => PemegangKonsisten
  BY DEF Init, PemegangKonsisten
<1>2. TypeInv /\ PemegangKonsisten /\ [Next]_vars => PemegangKonsisten'
  <2> SUFFICES ASSUME TypeInv, PemegangKonsisten, [Next]_vars, NEW v \in Varian
               PROVE  varian'[v].status = "Ready" <=> varian'[v].pemegang = TanpaPengguna
    BY DEF PemegangKonsisten
  <2>1. varian[v] \in TipeVarian /\ TanpaPengguna \notin Pengguna
    BY ReservasiAssumption DEF TypeInv, TypeOK, ReservasiAssumption
  <2>2. varian[v].status = "Ready" <=> varian[v].pemegang = TanpaPengguna
    BY DEF PemegangKonsisten
  <2>3. CASE UNCHANGED varian
    BY <2>2, <2>3
  <2>4. ASSUME NEW ids, NEW u \in Pengguna, varian' = TahanVarian(ids, u)
        PROVE  varian'[v].status = "Ready" <=> varian'[v].pemegang = TanpaPengguna
    BY <2>1, <2>2, <2>4 DEF TahanVarian, TipeVarian
  <2>5. ASSUME NEW ids, varian' = LepasVarian(ids)
        PROVE  varian'[v].status = "Ready" <=> varian'[v].pemegang = TanpaPengguna
    BY <2>1, <2>2, <2>5 DEF LepasVarian, TipeVarian
  <2>6. ASSUME NEW p \in Proses, NEW t \in tagihan, KunciTransaksi(p, t)
        PROVE  varian'[v].status = "Ready" <=> varian'[v].pemegang = TanpaPengguna
    <3>1. t.pengguna \in Pengguna /\ TypeOK
      BY DEF TypeInv, TypeOK, Tagihan
    <3>2. varian' = JualVarian(t)
      BY <2>6 DEF KunciTransaksi
    <3> QED BY <2>1, <2>2, <3>1, <3>2, JualVarianBenar
  <2>7. ASSUME NEW p \in Proses, NEW t \in tagihan, GagalTransaksi(p, t)
        PROVE  UNCHANGED varian
    BY <2>7 DEF GagalTransaksi
  <2> QED BY <2>3, <2>4, <2>5, <2>6, <2>7, LangkahTabel
<1> QED BY <1>1, <1>2, TypeInvBenar, PTL DEF Spec

-----------------------------------------------------------------------------
(* What a sold unit points to.                                              *)

\* Booking a bill keeps the rows there are and adds its lines behind them.
LEMMA BukuTambah ==
    ASSUME NEW tabel \in Seq(BarisTransaksi), NEW t \in Tagihan
    PROVE  /\ tabel \o BarisBaru(t) \in Seq(BarisTransaksi)
           /\ Len(tabel \o BarisBaru(t)) = Len(tabel) + Len(t.item)
           /\ \A n \in DOMAIN tabel : /\ n \in DOMAIN (tabel \o BarisBaru(t))
                                      /\ (tabel \o BarisBaru(t))[n] = tabel[n]
           /\ \A n \in 1 .. Len(t.item) :
                 /\ Len(tabel) + n \in DOMAIN (tabel \o BarisBaru(t))
                 /\ (tabel \o BarisBaru(t))[Len(tabel) + n] = BarisBaru(t)[n]
           /\ \A m \in DOMAIN (tabel \o BarisBaru(t)) :
                 m \in DOMAIN tabel \/ \E n \in 1 .. Len(t.item) : m = Len(tabel) + n
<1>1. BarisBaru(t) \in Seq(BarisTransaksi) /\ Len(BarisBaru(t)) = Len(t.item) /\ Len(t.item) \in Nat
  BY BarisBaruType
<1> DEFINE b == BarisBaru(t)
<1>2. b \in Seq(BarisTransaksi) /\ Len(b) \in Nat
  BY <1>1
<1> HIDE DEF b
<1>3. /\ tabel \o b \in Seq(BarisTransaksi)
      /\ Len(tabel \o b) = Len(tabel) + Len(b)
      /\ DOMAIN (tabel \o b) = 1 .. Len(tabel) + Len(b)
      /\ DOMAIN tabel = 1 .. Len(tabel)
      /\ Len(tabel) \in Nat
  BY <1>2
<1>4. \A n \in 1 .. Len(tabel) : (tabel \o b)[n] = tabel[n]
  BY <1>2
<1>5. \A n \in 1 .. Len(b) : (tabel \o b)[Len(tabel) + n] = b[n]
  BY <1>2
<1>6. \A m \in 1 .. Len(tabel) + Len(b) :
         m \in 1 .. Len(tabel) \/ \E n \in 1 .. Len(b) : m = Len(tabel) + n
  <2> SUFFICES ASSUME NEW m \in 1 .. Len(tabel) + Len(b), m \notin 1 .. Len(tabel)
               PROVE  \E n \in 1 .. Len(b) : m = Len(tabel) + n
    OBVIOUS
  <2>1. m - Len(tabel) \in 1 .. Len(b) /\ m = Len(tabel) + (m - Len(tabel))
    BY <1>2, <1>3
  <2> QED BY <2>1
<1>7. \A n \in 1 .. Len(tabel) : n \in 1 .. Len(tabel) + Len(b)
  BY <1>2, <1>3
<1>8. \A n \in 1 .. Len(b) : Len(tabel) + n \in 1 .. Len(tabel) + Len(b)
  BY <1>2, <1>3
<1>9. Len(b) = Len(t.item) /\ b = BarisBaru(t)
  BY <1>1 DEF b
<1> QED BY <1>3, <1>4, <1>5, <1>6, <1>7, <1>8, <1>9

LEMMA TerjualMilikLangkah == TypeInv /\ TerjualMilikPembeli /\ [Next]_vars => TerjualMilikPembeli'
<1> DEFINE Milik(r, tabel, v) ==
             /\ r.transaksi \in DOMAIN tabel
             /\ tabel[r.transaksi].pengguna = r.pemegang
             /\ tabel[r.transaksi].kategori = KategoriDari[v]
<1> SUFFICES ASSUME TypeInv, TerjualMilikPembeli, [Next]_vars, NEW v \in Varian,
                    varian'[v].status = "Terjual"
             PROVE  Milik(varian'[v], transaksi', v)
  BY DEF TerjualMilikPembeli
<1>1. varian[v] \in TipeVarian /\ transaksi \in Seq(BarisTransaksi)
  BY DEF TypeInv, TypeOK
<1>2. varian[v].status = "Terjual" => Milik(varian[v], transaksi, v)
  BY DEF TerjualMilikPembeli
<1>3. CASE varian'[v] = varian[v] /\ UNCHANGED transaksi
  BY <1>2, <1>3
<1>4. ASSUME NEW ids, NEW u \in Pengguna, varian' = TahanVarian(ids, u)
      PROVE  varian'[v] = varian[v]
  BY <1>1, <1>4 DEF TahanVarian, TipeVarian
<1>5. ASSUME NEW ids, varian' = LepasVarian(ids)
      PROVE  varian'[v] = varian[v]
  BY <1>1, <1>5 DEF LepasVarian, TipeVarian
<1>6. ASSUME NEW p \in Proses, NEW t \in tagihan, KunciTransaksi(p, t)
      PROVE  Milik(varian'[v], transaksi', v)
  <2>1. t \in Tagihan /\ TypeOK
    BY DEF TypeInv, TypeOK
  <2>2. varian' = JualVarian(t) /\ transaksi' = transaksi \o BarisBaru(t)
    BY <1>6 DEF KunciTransaksi
  <2>3. CASE JualVarian(t)[v] = varian[v]
    BY <1>1, <1>2, <2>1, <2>2, <2>3, BukuTambah
  <2>4. CASE JualVarian(t)[v] # varian[v]
    <3>1. PICK n \in 1 .. Len(t.item) : /\ JualVarian(t)[v].pemegang = t.pengguna
                                        /\ JualVarian(t)[v].transaksi = Len(transaksi) + n
                                        /\ t.item[n].kategori = KategoriDari[v]
      BY <2>1, <2>4, JualVarianBenar
    <3>2. /\ Len(transaksi) + n \in DOMAIN transaksi'
          /\ transaksi'[Len(transaksi) + n] = BarisBaru(t)[n]
      BY <1>1, <2>1, <2>2, BukuTambah
    <3>3. /\ BarisBaru(t)[n].pengguna = t.pengguna
          /\ BarisBaru(t)[n].kategori = t.item[n].kategori
      BY <2>1, BarisBaruType
    <3> QED BY <2>2, <3>1, <3>2, <3>3
  <2> QED BY <2>3, <2>4
<1>7. ASSUME NEW p \in Proses, NEW t \in tagihan, GagalTransaksi(p, t)
      PROVE  varian'[v] = varian[v] /\ UNCHANGED transaksi
  BY <1>7 DEF GagalTransaksi
<1> HIDE DEF Milik
<1> QED BY <1>3, <1>4, <1>5, <1>6, <1>7, LangkahTabel DEF buku

LEMMA TerjualMilikInit == Init => TerjualMilikPembeli
BY DEF Init, TerjualMilikPembeli

\* A sold unit points to a paid transaksi of its holder, for its own category,
\* whatever ran between the bill and the report of its payment.
THEOREM TerjualMilikBenar == Spec => []TerjualMilikPembeli
BY TerjualMilikInit, TerjualMilikLangkah, TypeInvBenar, PTL DEF Spec

-----------------------------------------------------------------------------
(* A code is booked once.                                                   *)

\* Every row that was booked has its code in pembayaran.
KodeTercatat ==
    /\ \A n \in DOMAIN transaksi : transaksi[n].kode \in pembayaran
    /\ \A n \in DOMAIN transaksiGagal : transaksiGagal[n].kode \in pembayaran

\* The UNIQUE code of pembayaran is what keeps a bill out of one table once it is
\* in the other.
LEMMA KodeTercatatTetap ==
    ASSUME TypeInv, KodeTercatat, [Next]_vars
    PROVE  KodeTercatat'
<1>1. transaksi \in Seq(BarisTransaksi) /\ transaksiGagal \in Seq(BarisTransaksi)
  BY DEF TypeInv, TypeOK
<1>2. ASSUME NEW p \in Proses, NEW t \in tagihan, KunciTransaksi(p, t)
      PROVE  KodeTercatat'
  <2>1. t \in Tagihan
    BY DEF TypeInv, TypeOK
  <2>2. /\ transaksi' = transaksi \o BarisBaru(t)
        /\ pembayaran' = pembayaran \cup {t.kode}
        /\ transaksiGagal' = transaksiGagal
    BY <1>2 DEF KunciTransaksi
  <2>3. ASSUME NEW m \in DOMAIN transaksi' PROVE transaksi'[m].kode \in pembayaran'
    <3>1. CASE m \in DOMAIN transaksi
      BY <1>1, <2>1, <2>2, <3>1, BukuTambah DEF KodeTercatat
    <3>2. CASE \E n \in 1 .. Len(t.item) : m = Len(transaksi) + n
      BY <1>1, <2>1, <2>2, <3>2, BukuTambah, BarisBaruType
    <3> QED BY <1>1, <2>1, <2>2, <3>1, <3>2, BukuTambah
  <2> QED BY <2>2, <2>3 DEF KodeTercatat
<1>3. ASSUME NEW p \in Proses, NEW t \in tagihan, GagalTransaksi(p, t)
      PROVE  KodeTercatat'
  <2>1. t \in Tagihan
    BY DEF TypeInv, TypeOK
  <2>2. /\ transaksiGagal' = transaksiGagal \o BarisBaru(t)
        /\ pembayaran' = pembayaran \cup {t.kode}
        /\ transaksi' = transaksi
    BY <1>3 DEF GagalTransaksi
  <2>3. ASSUME NEW m \in DOMAIN transaksiGagal' PROVE transaksiGagal'[m].kode \in pembayaran'
    <3>1. CASE m \in DOMAIN transaksiGagal
      BY <1>1, <2>1, <2>2, <3>1, BukuTambah DEF KodeTercatat
    <3>2. CASE \E n \in 1 .. Len(t.item) : m = Len(transaksiGagal) + n
      BY <1>1, <2>1, <2>2, <3>2, BukuTambah, BarisBaruType
    <3> QED BY <1>1, <2>1, <2>2, <3>1, <3>2, BukuTambah
  <2> QED BY <2>2, <2>3 DEF KodeTercatat
<1>4. CASE UNCHANGED buku
  BY <1>4 DEF KodeTercatat, buku
<1> QED BY <1>2, <1>3, <1>4, LangkahTabel DEF buku

LEMMA KodeTercatatBenar == Spec => []KodeTercatat
<1>1. Init => KodeTercatat
  BY DEF Init, KodeTercatat
<1> QED BY <1>1, KodeTercatatTetap, TypeInvBenar, PTL DEF Spec

\* A bill is never booked both as paid and as failed, however its two outcomes are
\* reported.
THEOREM LunasAtauGagalBenar == Spec => []LunasAtauGagal
<1>1. Init => LunasAtauGagal
  BY DEF Init, LunasAtauGagal
<1>2. TypeInv /\ KodeTercatat /\ LunasAtauGagal /\ [Next]_vars => LunasAtauGagal'
  <2> SUFFICES ASSUME TypeInv, KodeTercatat, LunasAtauGagal, [Next]_vars,
                      NEW m \in DOMAIN transaksi', NEW n \in DOMAIN transaksiGagal'
               PROVE  transaksi'[m].kode # transaksiGagal'[n].kode
    BY DEF LunasAtauGagal
  <2>1. transaksi \in Seq(BarisTransaksi) /\ transaksiGagal \in Seq(BarisTransaksi)
    BY DEF TypeInv, TypeOK
  <2>2. ASSUME NEW p \in Proses, NEW t \in tagihan, KunciTransaksi(p, t)
        PROVE  transaksi'[m].kode # transaksiGagal'[n].kode
    <3>1. t \in Tagihan
      BY DEF TypeInv, TypeOK
    <3>2. /\ transaksi' = transaksi \o BarisBaru(t)
          /\ transaksiGagal' = transaksiGagal
          /\ t.kode \notin pembayaran
      BY <2>2 DEF KunciTransaksi
    <3>3. transaksiGagal'[n].kode \in pembayaran
      BY <3>2 DEF KodeTercatat
    <3>4. CASE m \in DOMAIN transaksi
      BY <2>1, <3>1, <3>2, <3>4, BukuTambah DEF LunasAtauGagal
    <3>5. CASE \E l \in 1 .. Len(t.item) : m = Len(transaksi) + l
      BY <2>1, <3>1, <3>2, <3>3, <3>5, BukuTambah, BarisBaruType
    <3> QED BY <2>1, <3>1, <3>2, <3>4, <3>5, BukuTambah
  <2>3. ASSUME NEW p \in Proses, NEW t \in tagihan, GagalTransaksi(p, t)
        PROVE  transaksi'[m].kode # transaksiGagal'[n].kode
    <3>1. t \in Tagihan
      BY DEF TypeInv, TypeOK
    <3>2. /\ transaksiGagal' = transaksiGagal \o BarisBaru(t)
          /\ transaksi' = transaksi
          /\ t.kode \notin pembayaran
      BY <2>3 DEF GagalTransaksi
    <3>3. transaksi'[m].kode \in pembayaran
      BY <3>2 DEF KodeTercatat
    <3>4. CASE n \in DOMAIN transaksiGagal
      BY <2>1, <3>1, <3>2, <3>4, BukuTambah DEF LunasAtauGagal
    <3>5. CASE \E l \in 1 .. Len(t.item) : n = Len(transaksiGagal) + l
      BY <2>1, <3>1, <3>2, <3>3, <3>5, BukuTambah, BarisBaruType
    <3> QED BY <2>1, <3>1, <3>2, <3>4, <3>5, BukuTambah
  <2>4. CASE UNCHANGED buku
    BY <2>4 DEF LunasAtauGagal, buku
  <2> QED BY <2>2, <2>3, <2>4, LangkahTabel DEF buku
<1> QED BY <1>1, <1>2, TypeInvBenar, KodeTercatatBenar, PTL DEF Spec

\* The gateway took each code once, and only codes it took are booked.
TagihanUnik ==
    /\ pembayaran \subseteq {t.kode : t \in tagihan}
    /\ \A s, t \in tagihan : s.kode = t.kode => s = t

\* The bills change when Snap makes one, with a code no bill has.
LEMMA LangkahTagihan ==
    ASSUME [Next]_vars
    PROVE  \/ UNCHANGED tagihan
           \/ /\ UNCHANGED buku
              /\ \E t : /\ tagihan' = tagihan \cup {t}
                        /\ t.kode \notin {s.kode : s \in tagihan}
<1> DEFINE Kasus == \/ UNCHANGED tagihan
                    \/ /\ UNCHANGED buku
                       /\ \E t : /\ tagihan' = tagihan \cup {t}
                                 /\ t.kode \notin {s.kode : s \in tagihan}
<1>1. ASSUME NEW p \in Proses, SnapSelesai(p) PROVE Kasus
  <2>1. PICK kode \in Kode, metode \in Metode :
            /\ kode \notin {t.kode : t \in tagihan}
            /\ tagihan' = tagihan \cup {[kode |-> kode, metode |-> metode,
                                         pengguna |-> proses[p].pengguna,
                                         item |-> proses[p].item]}
    BY <1>1 DEF SnapSelesai
  <2> QED BY <1>1, <2>1 DEF SnapSelesai
<1>2. ASSUME NEW p \in Proses, LangkahSnap(p) PROVE Kasus
  BY <1>1, <1>2 DEF LangkahSnap, SnapTransaksi, SnapPeriksa, SnapBatal, klien
<1>3. ASSUME NEW p \in Proses, LangkahCheckout(p) PROVE UNCHANGED tagihan
  BY <1>3 DEF LangkahCheckout, CheckoutBarangUser, CheckoutBacaVarian, CheckoutTulis,
              CheckoutGagal, LatarKeranjang, klien
<1>4. ASSUME NEW p \in Proses, LangkahBatal(p) PROVE UNCHANGED tagihan
  BY <1>4 DEF LangkahBatal, BatalCheckoutUser, BatalBacaVarian, BatalTulis,
              BatalTransaksi, BatalTransaksiBaca, BatalTransaksiTulis, klien
<1>5. ASSUME NEW p \in Proses, LangkahBayar(p) PROVE UNCHANGED tagihan
  BY <1>5 DEF LangkahBayar, LockTransaksiVa, LockTransaksiWallet, LockTransaksiGerai,
              PaidFailedTransaksiVa, PaidFailedTransaksiWallet, PaidFailedTransaksiGerai,
              KunciTransaksi, GagalTransaksi, LatarTransaksi, klien
<1>6. ASSUME NEW p \in Proses, Putus(p) PROVE UNCHANGED tagihan
  BY <1>6 DEF Putus, klien
<1>7. CASE UNCHANGED vars
  BY <1>7 DEF vars
<1> QED BY <1>2, <1>3, <1>4, <1>5, <1>6, <1>7 DEF Next

LEMMA TagihanUnikBenar == Spec => []TagihanUnik
<1>1. Init => TagihanUnik
  BY DEF Init, TagihanUnik
<1>2. TypeInv /\ TagihanUnik /\ [Next]_vars => TagihanUnik'
  <2> SUFFICES ASSUME TypeInv, TagihanUnik, [Next]_vars PROVE TagihanUnik'
    OBVIOUS
  <2>1. pembayaran' = pembayaran \/ \E t \in tagihan : pembayaran' = pembayaran \cup {t.kode}
    BY LangkahTabel DEF KunciTransaksi, GagalTransaksi, buku
  <2>2. CASE UNCHANGED tagihan
    BY <2>1, <2>2 DEF TagihanUnik
  <2>3. ASSUME NEW t, tagihan' = tagihan \cup {t}, t.kode \notin {s.kode : s \in tagihan},
               UNCHANGED buku
        PROVE  TagihanUnik'
    BY <2>3 DEF TagihanUnik, buku
  <2> QED BY <2>2, <2>3, LangkahTagihan
<1> QED BY <1>1, <1>2, TypeInvBenar, PTL DEF Spec

\* Booking a bill gives its code one row per line and leaves other codes alone.
LEMMA BarisKodeTambah ==
    ASSUME NEW tabel \in Seq(BarisTransaksi), NEW t \in Tagihan, NEW kode
    PROVE  /\ kode # t.kode => BarisKode(tabel \o BarisBaru(t), kode) = BarisKode(tabel, kode)
           /\ BarisKode(tabel, t.kode) = {} =>
                 Cardinality(BarisKode(tabel \o BarisBaru(t), t.kode)) = Len(t.item)
<1>1. Len(t.item) \in Nat \ {0} /\ Len(tabel) \in Nat
  BY BarisBaruType
<1> DEFINE baru == tabel \o BarisBaru(t)
           L == Len(tabel)
<1>2. \A n \in DOMAIN tabel : n \in DOMAIN baru /\ baru[n] = tabel[n]
  BY BukuTambah
<1>3. \A n \in 1 .. Len(t.item) : L + n \in DOMAIN baru /\ baru[L + n].kode = t.kode
  BY BukuTambah, BarisBaruType
<1>4. \A m \in DOMAIN baru : m \in DOMAIN tabel \/ \E n \in 1 .. Len(t.item) : m = L + n
  BY BukuTambah
<1> HIDE DEF baru
<1>5. ASSUME kode # t.kode PROVE BarisKode(baru, kode) = BarisKode(tabel, kode)
  BY <1>2, <1>3, <1>4, <1>5 DEF BarisKode
<1>6. ASSUME BarisKode(tabel, t.kode) = {} PROVE Cardinality(BarisKode(baru, t.kode)) = Len(t.item)
  <2>1. BarisKode(baru, t.kode) = {m \in DOMAIN baru : \E n \in 1 .. Len(t.item) : m = L + n}
    BY <1>2, <1>3, <1>4, <1>6 DEF BarisKode
  <2>2. \A m : m \in L + 1 .. L + Len(t.item) <=> \E n \in 1 .. Len(t.item) : m = L + n
    <3>1. ASSUME NEW m \in L + 1 .. L + Len(t.item)
          PROVE  m - L \in 1 .. Len(t.item) /\ m = L + (m - L)
      BY <1>1
    <3>2. ASSUME NEW n \in 1 .. Len(t.item) PROVE L + n \in L + 1 .. L + Len(t.item)
      BY <1>1
    <3> QED BY <3>1, <3>2
  <2>3. BarisKode(baru, t.kode) = L + 1 .. L + Len(t.item)
    BY <1>3, <2>1, <2>2
  <2>4. L + 1 \in Int /\ L + Len(t.item) \in Int /\ ~ (L + 1 > L + Len(t.item))
    BY <1>1
  <2>5. Cardinality(L + 1 .. L + Len(t.item)) = (L + Len(t.item)) - (L + 1) + 1
    BY <2>4, FS_Interval
  <2> QED BY <1>1, <2>3, <2>5
<1>7. baru = tabel \o BarisBaru(t)
  BY DEF baru
<1> QED BY <1>5, <1>6, <1>7

\* A bill is booked once, however often its outcome is reported and however the
\* reports interleave: its code has no row in a table, or one per line.
THEOREM BayarSekaliBenar == Spec => []BayarSekali
<1> DEFINE Sekali(tabel, t) == Cardinality(BarisKode(tabel, t.kode)) \in {0, Len(t.item)}
<1>1. Init => BayarSekali
  BY DEF Init, BayarSekali
<1>2. TypeInv /\ KodeTercatat /\ TagihanUnik /\ BayarSekali /\ [Next]_vars => BayarSekali'
  <2> SUFFICES ASSUME TypeInv, KodeTercatat, TagihanUnik, BayarSekali, [Next]_vars,
                      NEW s \in tagihan'
               PROVE  Sekali(transaksi', s) /\ Sekali(transaksiGagal', s)
    BY DEF BayarSekali
  <2>1. transaksi \in Seq(BarisTransaksi) /\ transaksiGagal \in Seq(BarisTransaksi)
    BY DEF TypeInv, TypeOK
  <2>2. ASSUME s \in tagihan PROVE Sekali(transaksi, s) /\ Sekali(transaksiGagal, s)
    BY <2>2 DEF BayarSekali
  <2>3. ASSUME s.kode \notin pembayaran
        PROVE  BarisKode(transaksi, s.kode) = {} /\ BarisKode(transaksiGagal, s.kode) = {}
    BY <2>3 DEF KodeTercatat, BarisKode
  <2>4. ASSUME NEW p \in Proses, NEW t \in tagihan, KunciTransaksi(p, t)
        PROVE  Sekali(transaksi', s) /\ Sekali(transaksiGagal', s)
    <3>1. /\ t \in Tagihan /\ s \in tagihan
          /\ transaksi' = transaksi \o BarisBaru(t)
          /\ transaksiGagal' = transaksiGagal
          /\ t.kode \notin pembayaran
      BY <2>4 DEF KunciTransaksi, TypeInv, TypeOK
    <3>2. CASE s.kode = t.kode
      <4>1. s = t
        BY <3>1, <3>2 DEF TagihanUnik
      <4>2. Cardinality(BarisKode(transaksi', t.kode)) = Len(t.item)
        BY <2>1, <2>3, <3>1, <3>2, BarisKodeTambah
      <4> QED BY <2>2, <3>1, <4>1, <4>2
    <3>3. CASE s.kode # t.kode
      <4>1. BarisKode(transaksi', s.kode) = BarisKode(transaksi, s.kode)
        BY <2>1, <3>1, <3>3, BarisKodeTambah
      <4> QED BY <2>2, <3>1, <4>1
    <3> QED BY <3>2, <3>3
  <2>5. ASSUME NEW p \in Proses, NEW t \in tagihan, GagalTransaksi(p, t)
        PROVE  Sekali(transaksi', s) /\ Sekali(transaksiGagal', s)
    <3>1. /\ t \in Tagihan /\ s \in tagihan
          /\ transaksiGagal' = transaksiGagal \o BarisBaru(t)
          /\ transaksi' = transaksi
          /\ t.kode \notin pembayaran
      BY <2>5 DEF GagalTransaksi, TypeInv, TypeOK
    <3>2. CASE s.kode = t.kode
      <4>1. s = t
        BY <3>1, <3>2 DEF TagihanUnik
      <4>2. Cardinality(BarisKode(transaksiGagal', t.kode)) = Len(t.item)
        BY <2>1, <2>3, <3>1, <3>2, BarisKodeTambah
      <4> QED BY <2>2, <3>1, <4>1, <4>2
    <3>3. CASE s.kode # t.kode
      <4>1. BarisKode(transaksiGagal', s.kode) = BarisKode(transaksiGagal, s.kode)
        BY <2>1, <3>1, <3>3, BarisKodeTambah
      <4> QED BY <2>2, <3>1, <4>1
    <3> QED BY <3>2, <3>3
  <2>6. CASE UNCHANGED buku
    <3>1. CASE s \in tagihan
      BY <2>2, <2>6, <3>1 DEF buku
    <3>2. CASE s \notin tagihan
      <4>1. s.kode \notin {t.kode : t \in tagihan}
        BY <3>2, LangkahTagihan
      <4>2. BarisKode(transaksi, s.kode) = {} /\ BarisKode(transaksiGagal, s.kode) = {}
        BY <2>3, <4>1 DEF TagihanUnik
      <4> QED BY <2>6, <4>2, FS_EmptySet DEF buku
    <3> QED BY <3>1, <3>2
  <2> QED BY <2>4, <2>5, <2>6, LangkahTabel DEF buku
<1> QED BY <1>1, <1>2, TypeInvBenar, KodeTercatatBenar, TagihanUnikBenar, PTL DEF Spec

-----------------------------------------------------------------------------
(* Create events.                                                           *)

\* A request announces rows that are committed.
NomorTercatat == \A p \in Proses : proses[p].nomor \subseteq DOMAIN transaksi

\* The rows a request announces come from the transaction it has committed.
LEMMA NomorSatu ==
    ASSUME TypeOK, NomorTercatat, NEW p \in Proses, NEW r,
           proses' = [proses EXCEPT ![p] = r], UNCHANGED transaksi,
           r.nomor \subseteq proses[p].nomor
    PROVE  NomorTercatat'
BY DEF TypeOK, NomorTercatat

LEMMA NomorPermintaan ==
    ASSUME TypeOK, NomorTercatat, UNCHANGED transaksi, NEW p \in Proses, NEW tahap, NEW u, NEW item,
           proses' = [proses EXCEPT ![p] = Permintaan(tahap, u, item)]
    PROVE  NomorTercatat'
BY NomorSatu DEF Permintaan, ProsesBebas

LEMMA NomorLepas ==
    ASSUME TypeOK, NomorTercatat, UNCHANGED transaksi, NEW p \in Proses, Lepas(p)
    PROVE  NomorTercatat'
BY NomorSatu DEF Lepas, ProsesBebas

LEMMA NomorLanjut ==
    ASSUME TypeOK, NomorTercatat, UNCHANGED transaksi,
           NEW p \in Proses, NEW ids, NEW jumlah, Lanjut(p, ids, jumlah)
    PROVE  NomorTercatat'
<1> DEFINE r == [proses[p] EXCEPT !.varian = ids, !.jumlah = jumlah, !.i = proses[p].i + 1]
<1>1. proses[p] \in TipeProses
  BY DEF TypeOK
<1>2. r.nomor = proses[p].nomor
  BY <1>1 DEF TipeProses
<1>3. proses' = [proses EXCEPT ![p] = r]
  BY DEF Lanjut
<1> HIDE DEF r
<1> QED BY <1>2, <1>3, NomorSatu

LEMMA NomorLangkah ==
    ASSUME TypeOK, NomorTercatat, NEW p \in Proses,
           LangkahCheckout(p) \/ LangkahBatal(p) \/ LangkahSnap(p) \/ LangkahBayar(p) \/ Putus(p)
    PROVE  NomorTercatat'
<1>0. proses[p] \in TipeProses
  BY DEF TypeOK
<1>1. ASSUME NEW u \in Pengguna, NEW item \in DaftarItem, CheckoutBarangUser(p, u, item)
      PROVE  NomorTercatat'
  BY <1>1, NomorSatu DEF CheckoutBarangUser, Permintaan, ProsesBebas, buku
<1>2. CASE CheckoutBacaVarian(p)
  BY <1>2, NomorLepas, NomorLanjut DEF CheckoutBacaVarian, buku
<1>3. CASE CheckoutTulis(p) \/ CheckoutGagal(p)
  <2>1. [proses[p] EXCEPT !.tahap = "latarKeranjang"].nomor = proses[p].nomor
    BY <1>0 DEF TipeProses
  <2> QED BY <1>3, <2>1, NomorSatu DEF CheckoutTulis, CheckoutGagal, buku
<1>4. CASE LatarKeranjang(p) \/ BatalTulis(p) \/ BatalTransaksiTulis(p) \/ SnapSelesai(p) \/ Putus(p)
  BY <1>4, NomorLepas DEF LatarKeranjang, BatalTulis, BatalTransaksiTulis, SnapSelesai, Putus, buku
<1>5. ASSUME NEW d \in dataCheckout, BatalCheckoutUser(p, d) \/ SnapTransaksi(p, d)
      PROVE  NomorTercatat'
  BY <1>5, NomorPermintaan DEF BatalCheckoutUser, SnapTransaksi, buku
<1>6. ASSUME NEW t \in tagihan, BatalTransaksi(p, t)
      PROVE  NomorTercatat'
  BY <1>6, NomorPermintaan DEF BatalTransaksi, buku
<1>7. CASE BatalBacaVarian(p) \/ BatalTransaksiBaca(p)
  BY <1>7, NomorLanjut DEF BatalBacaVarian, BatalTransaksiBaca, buku
<1>8. CASE SnapPeriksa(p) \/ SnapBatal(p)
  BY <1>8, NomorPermintaan, NomorLanjut DEF SnapPeriksa, SnapBatal, KeBatalCheckout, buku
<1>9. ASSUME NEW t \in tagihan, KunciTransaksi(p, t) PROVE NomorTercatat'
  <2>1. t \in Tagihan /\ transaksi \in Seq(BarisTransaksi)
    BY DEF TypeOK
  <2>2. transaksi' = transaksi \o BarisBaru(t)
    BY <1>9 DEF KunciTransaksi
  <2>3. DOMAIN transaksi \subseteq DOMAIN transaksi'
    BY <2>1, <2>2, BukuTambah
  <2>4. {Len(transaksi) + n : n \in DOMAIN t.item} \subseteq DOMAIN transaksi'
    BY <2>1, <2>2, BukuTambah, BarisBaruType
  <2> DEFINE r == [ProsesBebas EXCEPT !.tahap = "latarTransaksi",
                                      !.nomor = {Len(transaksi) + n : n \in DOMAIN t.item}]
  <2>5. proses' = [proses EXCEPT ![p] = r]
    BY <1>9 DEF KunciTransaksi
  <2>6. r.nomor = {Len(transaksi) + n : n \in DOMAIN t.item}
    BY DEF ProsesBebas
  <2> HIDE DEF r
  <2> QED BY <2>3, <2>4, <2>5, <2>6 DEF NomorTercatat, TypeOK
<1>10. ASSUME NEW t \in tagihan, GagalTransaksi(p, t) PROVE NomorTercatat'
  BY <1>10 DEF GagalTransaksi, NomorTercatat
<1>11. CASE LatarTransaksi(p)
  <2>1. CASE Lepas(p)
    BY <1>11, <2>1, NomorLepas DEF LatarTransaksi, buku
  <2>2. CASE ~Lepas(p)
    <3>1. PICK n \in proses[p].nomor :
             proses' = [proses EXCEPT ![p] = [proses[p] EXCEPT !.nomor = proses[p].nomor \ {n}]]
      BY <1>11, <2>2 DEF LatarTransaksi
    <3>2. [proses[p] EXCEPT !.nomor = proses[p].nomor \ {n}].nomor \subseteq proses[p].nomor
      BY <1>0 DEF TipeProses
    <3> QED BY <1>11, <3>1, <3>2, NomorSatu DEF LatarTransaksi, buku
  <2> QED BY <2>1, <2>2
<1> QED BY <1>1, <1>2, <1>3, <1>4, <1>5, <1>6, <1>7, <1>8, <1>9, <1>10, <1>11
    DEF LangkahCheckout, LangkahBatal, LangkahSnap, LangkahBayar, LockTransaksiVa,
        LockTransaksiWallet, LockTransaksiGerai, PaidFailedTransaksiVa,
        PaidFailedTransaksiWallet, PaidFailedTransaksiGerai

\* Only the goroutine of a committed LockTransaksi sends a create event, for a row
\* of its own transaction.
LEMMA LangkahTerbit ==
    ASSUME [Next]_vars
    PROVE  terbit' = terbit \/ \E p \in Proses : \E n \in proses[p].nomor : terbit' = terbit \cup {n}
<1>1. ASSUME NEW p \in Proses, LangkahCheckout(p) PROVE UNCHANGED terbit
  BY <1>1 DEF LangkahCheckout, CheckoutBarangUser, CheckoutBacaVarian, CheckoutTulis,
              CheckoutGagal, LatarKeranjang
<1>2. ASSUME NEW p \in Proses, LangkahBatal(p) PROVE UNCHANGED terbit
  BY <1>2 DEF LangkahBatal, BatalCheckoutUser, BatalBacaVarian, BatalTulis,
              BatalTransaksi, BatalTransaksiBaca, BatalTransaksiTulis
<1>3. ASSUME NEW p \in Proses, LangkahSnap(p) PROVE UNCHANGED terbit
  BY <1>3 DEF LangkahSnap, SnapTransaksi, SnapPeriksa, SnapBatal, SnapSelesai
<1>4. ASSUME NEW p \in Proses, LangkahBayar(p)
      PROVE  terbit' = terbit \/ \E n \in proses[p].nomor : terbit' = terbit \cup {n}
  BY <1>4 DEF LangkahBayar, LockTransaksiVa, LockTransaksiWallet, LockTransaksiGerai,
              PaidFailedTransaksiVa, PaidFailedTransaksiWallet, PaidFailedTransaksiGerai,
              KunciTransaksi, GagalTransaksi, LatarTransaksi
<1>5. ASSUME NEW p \in Proses, Putus(p) PROVE UNCHANGED terbit
  BY <1>5 DEF Putus
<1>6. CASE UNCHANGED vars
  BY <1>6 DEF vars
<1> QED BY <1>1, <1>2, <1>3, <1>4, <1>5, <1>6 DEF Next

\* The create event of a transaksi is sent only for a committed row.
THEOREM TerbitSetelahKomitBenar == Spec => []TerbitSetelahKomit
<1> DEFINE Inv == NomorTercatat /\ TerbitSetelahKomit
<1>1. Init => Inv
  BY DEF Init, NomorTercatat, TerbitSetelahKomit, ProsesBebas
<1>2. TypeInv /\ Inv /\ [Next]_vars => Inv'
  <2> SUFFICES ASSUME TypeInv, NomorTercatat, TerbitSetelahKomit, [Next]_vars
               PROVE  NomorTercatat' /\ TerbitSetelahKomit'
    OBVIOUS
  <2>1. NomorTercatat'
    <3>1. CASE UNCHANGED vars
      BY <3>1 DEF NomorTercatat, vars
    <3> QED BY <3>1, NomorLangkah DEF Next, TypeInv
  <2>2. DOMAIN transaksi \subseteq DOMAIN transaksi'
    <3>1. ASSUME NEW p \in Proses, NEW t \in tagihan, KunciTransaksi(p, t)
          PROVE  DOMAIN transaksi \subseteq DOMAIN transaksi'
      <4>1. t \in Tagihan /\ transaksi \in Seq(BarisTransaksi)
        BY DEF TypeInv, TypeOK
      <4> QED BY <3>1, <4>1, BukuTambah DEF KunciTransaksi
    <3> QED BY <3>1, LangkahTabel DEF buku, GagalTransaksi
  <2>3. terbit' \subseteq DOMAIN transaksi
    BY LangkahTerbit DEF NomorTercatat, TerbitSetelahKomit
  <2> QED BY <2>1, <2>2, <2>3 DEF TerbitSetelahKomit
<1>3. Inv => TerbitSetelahKomit
  OBVIOUS
<1> QED BY <1>1, <1>2, <1>3, TypeInvBenar, PTL DEF Spec

-----------------------------------------------------------------------------
(* An orderly client, one request at a time.  The answer of a checkout, an   *)
(* open bill and a running cancellation or Snap each own the units their     *)
(* order names: Pemilik are the owners.  What a request has read stays true  *)
(* until it writes.                                                          *)

TahapKlaim == {"batalCheckout", "snap", "batalTransaksi"}

UnikItem(item) == \A i, j \in DOMAIN item : item[i].kategori = item[j].kategori => i = j

\* Buyer u holds exactly what the order item names.
Tepat(u, item) ==
    \A i \in DOMAIN item : Cardinality(Ditahan(u, item[i].kategori)) = item[i].jumlah

Terbuka == {t \in tagihan : t.kode \notin terpakai}
Berjalan == {proses[p] : p \in {q \in Proses : proses[q].tahap \in TahapKlaim}}
Pemilik == dataCheckout \cup Terbuka \cup Berjalan

Bersilang(x, y) == x.pengguna = y.pengguna /\ KategoriItem(x.item) \cap KategoriItem(y.item) # {}

PemilikInv == /\ \A x \in Pemilik : UnikItem(x.item) /\ Tepat(x.pengguna, x.item)
              /\ \A x, y \in Pemilik : Bersilang(x, y) => x = y

\* The amounts of the lines that request r has worked through, and the units it has
\* collected for them.
Terhitung(r) ==
    /\ \A j \in DOMAIN r.item : j < r.i => r.jumlah[r.item[j].kategori] = r.item[j].jumlah
    /\ \A k \in Kategori : (\A j \in DOMAIN r.item : j < r.i => r.item[j].kategori # k)
                              => r.jumlah[k] = 0
PerKategori(ids, k) == {v \in ids : KategoriDari[v] = k}
Terkumpul(r) == \A k \in Kategori : Cardinality(PerKategori(r.varian, k)) = r.jumlah[k]

LokalCheckout(r) ==
    /\ UnikItem(r.item) /\ Terhitung(r) /\ Terkumpul(r)
    /\ \A v \in r.varian : varian[v].status = "Ready"
    /\ \A k \in KategoriItem(r.item) : Ditahan(r.pengguna, k) = {}

LokalBatal(r) ==
    /\ Terhitung(r) /\ Terkumpul(r)
    /\ \A v \in r.varian : /\ KategoriDari[v] \in KategoriItem(r.item)
                           /\ v \in Ditahan(r.pengguna, KategoriDari[v])

LokalBatalTransaksi(r) ==
    /\ Terhitung(r)
    /\ \E t \in tagihan : t.item = r.item
    /\ r.varian = IF r.i = 1 THEN {} ELSE Ditahan(r.pengguna, r.item[r.i - 1].kategori)

Lokal(r) == /\ r.tahap \in TahapPesanan => r.i >= 1 /\ r.i <= Len(r.item) + 1
            /\ r.tahap = "checkout" => LokalCheckout(r)
            /\ r.tahap = "batalCheckout" => LokalBatal(r)
            /\ r.tahap = "batalTransaksi" => LokalBatalTransaksi(r)
LokalInv == \A p \in Proses : Lokal(proses[p])

TertibInv == PemilikInv /\ LokalInv /\ StokSesuai /\ UnitTerpenuhi

\* No request but p is running.
Sendiri(p) == \A q \in Proses \ {p} : proses[q].tahap = "bebas"

LEMMA VarianTerhingga ==
    ASSUME NEW S \in SUBSET Varian
    PROVE  IsFiniteSet(S) /\ Cardinality(S) \in Nat
<1>1. IsFiniteSet(Varian)
  BY ReservasiAssumption DEF ReservasiAssumption
<1>2. IsFiniteSet(S)
  BY <1>1, FS_Subset
<1> QED BY <1>2, FS_CardinalityType

\* A query that asks for as many rows as there are returns them all.
LEMMA LimitPas ==
    ASSUME NEW S \in SUBSET Varian, NEW T \in Limit(S, Cardinality(S))
    PROVE  T = S
<1>1. T \subseteq S /\ (T = S \/ Cardinality(T) = Cardinality(S))
  BY DEF Limit
<1>2. IsFiniteSet(S)
  BY VarianTerhingga
<1> QED BY <1>1, <1>2, FS_Subset

LEMMA ItemNilai ==
    ASSUME NEW item \in DaftarItem, NEW i \in DOMAIN item
    PROVE  /\ item[i].kategori \in Kategori /\ item[i].kategori \in KategoriItem(item)
           /\ item[i].jumlah \in Nat /\ item[i].jumlah >= 1
           /\ i \in Nat /\ i >= 1 /\ i <= Len(item)
<1>1. item[i] \in Item /\ i \in 1 .. Len(item) /\ Len(item) \in Nat
  BY DaftarItemSeq
<1>2. item[i].jumlah \in 1 .. MaxJumlah /\ MaxJumlah \in Nat
  BY <1>1, ReservasiAssumption DEF Item, Jumlah, ReservasiAssumption
<1> QED BY <1>1, <1>2 DEF Item, KategoriItem

LEMMA DitahanBagian == \A u, k : Ditahan(u, k) \subseteq Varian
BY DEF Ditahan

LEMMA TepatAda ==
    ASSUME NEW u, NEW item \in DaftarItem, Tepat(u, item), NEW k \in KategoriItem(item)
    PROVE  Ditahan(u, k) # {}
<1>1. PICK i \in DOMAIN item : item[i].kategori = k
  BY DEF KategoriItem
<1>2. Cardinality(Ditahan(u, k)) = item[i].jumlah /\ item[i].jumlah >= 1 /\ item[i].jumlah \in Nat
  BY <1>1, ItemNilai DEF Tepat
<1> QED BY <1>2, FS_EmptySet

LEMMA PemilikType ==
    ASSUME TypeInv, NEW x \in Pemilik
    PROVE  x.pengguna \in Pengguna /\ x.item \in DaftarItem
<1>1. CASE x \in dataCheckout
  BY <1>1 DEF TypeInv, TypeOK, Pesanan
<1>2. CASE x \in Terbuka
  BY <1>2 DEF TypeInv, TypeOK, Terbuka, Tagihan
<1>3. CASE x \in Berjalan
  BY <1>3 DEF TypeInv, PermintaanLengkap, Berjalan, TahapKlaim, TahapPesanan
<1> QED BY <1>1, <1>2, <1>3 DEF Pemilik

\* An answer, a bill and a request are records of different fields.
LEMMA PemilikBeda ==
    ASSUME TypeInv
    PROVE  /\ \A d \in dataCheckout, t \in tagihan : d # t
           /\ \A d \in dataCheckout, p \in Proses : d # proses[p]
           /\ \A t \in tagihan, p \in Proses : t # proses[p]
<1>1. ASSUME NEW d \in dataCheckout PROVE "kode" \notin DOMAIN d /\ "tahap" \notin DOMAIN d
  <2>1. d = [pengguna |-> d.pengguna, item |-> d.item]
    BY <1>1 DEF TypeInv, TypeOK, Pesanan
  <2>2. DOMAIN d = {"pengguna", "item"}
    BY <2>1
  <2> QED BY <2>2
<1>2. ASSUME NEW t \in tagihan PROVE "kode" \in DOMAIN t /\ "tahap" \notin DOMAIN t
  <2>1. t = [kode |-> t.kode, metode |-> t.metode, pengguna |-> t.pengguna, item |-> t.item]
    BY <1>2 DEF TypeInv, TypeOK, Tagihan
  <2>2. DOMAIN t = {"kode", "metode", "pengguna", "item"}
    BY <2>1
  <2> QED BY <2>2
<1>3. ASSUME NEW p \in Proses PROVE "tahap" \in DOMAIN proses[p]
  <2>1. proses[p] \in TipeProses
    BY DEF TypeInv, TypeOK
  <2> QED BY <2>1 DEF TipeProses
<1> QED BY <1>1, <1>2, <1>3

LEMMA BerjalanSatu ==
    ASSUME TypeInv, NEW p \in Proses, Sendiri(p), NEW r, proses' = [proses EXCEPT ![p] = r]
    PROVE  /\ Berjalan = IF proses[p].tahap \in TahapKlaim THEN {proses[p]} ELSE {}
           /\ Berjalan' = IF r.tahap \in TahapKlaim THEN {r} ELSE {}
           /\ \A q \in Proses \ {p} : proses'[q].tahap = "bebas"
           /\ proses'[p] = r
BY DEF TypeInv, TypeOK, Berjalan, Sendiri, TahapKlaim

\* An owner hands its units on, or some owners give theirs up while nothing is written.
LEMMA KlaimPindah ==
    ASSUME PemilikInv, UNCHANGED varian, NEW x \in Pemilik, NEW y,
           y.pengguna = x.pengguna, y.item = x.item, Pemilik' \subseteq (Pemilik \ {x}) \cup {y}
    PROVE  PemilikInv'
<1>1. \A u, k : Ditahan(u, k)' = Ditahan(u, k)
  BY DEF Ditahan
<1>2. \A z \in Pemilik' : UnikItem(z.item) /\ \A i \in DOMAIN z.item :
          Cardinality(Ditahan(z.pengguna, z.item[i].kategori)) = z.item[i].jumlah
  BY DEF PemilikInv, Tepat
<1>3. \A z, w \in Pemilik' : Bersilang(z, w) => z = w
  BY DEF PemilikInv, Bersilang
<1> QED BY <1>1, <1>2, <1>3 DEF PemilikInv, Tepat

LEMMA KlaimTetap ==
    ASSUME PemilikInv, UNCHANGED varian, Pemilik' \subseteq Pemilik
    PROVE  PemilikInv'
<1>1. \A u, k : Ditahan(u, k)' = Ditahan(u, k)
  BY DEF Ditahan
<1>2. \A z \in Pemilik' : UnikItem(z.item) /\ \A i \in DOMAIN z.item :
          Cardinality(Ditahan(z.pengguna, z.item[i].kategori)) = z.item[i].jumlah
  BY DEF PemilikInv, Tepat
<1>3. \A z, w \in Pemilik' : Bersilang(z, w) => z = w
  BY DEF PemilikInv, Bersilang
<1> QED BY <1>1, <1>2, <1>3 DEF PemilikInv, Tepat

\* The write of owner x frees or sells units of its own, and x is no owner any more.
LEMMA KlaimSelesai ==
    ASSUME TypeInv, PemilikInv, NEW x \in Pemilik, Pemilik' \subseteq Pemilik \ {x},
           \A v \in Varian : \/ varian'[v] = varian[v]
                             \/ /\ varian'[v].status # "Dipesan"
                                /\ KategoriDari[v] \in KategoriItem(x.item)
                                /\ v \in Ditahan(x.pengguna, KategoriDari[v])
    PROVE  PemilikInv'
<1>1. ASSUME NEW z \in Pemilik', NEW k \in KategoriItem(z.item)
      PROVE  Ditahan(z.pengguna, k)' = Ditahan(z.pengguna, k)
  <2>1. z \in Pemilik /\ ~ Bersilang(x, z)
    BY DEF PemilikInv
  <2>2. ASSUME NEW v \in Varian, v \in Ditahan(z.pengguna, k) \/ v \in Ditahan(z.pengguna, k)'
        PROVE  varian'[v] = varian[v]
    BY <2>1, <2>2 DEF Ditahan, Bersilang
  <2> QED BY <2>2 DEF Ditahan
<1>2. \A z \in Pemilik' : UnikItem(z.item) /\ Tepat(z.pengguna, z.item)
  BY DEF PemilikInv
<1>3. \A z \in Pemilik' : \A i \in DOMAIN z.item : z.item[i].kategori \in KategoriItem(z.item)
  BY DEF KategoriItem
<1>4. ASSUME NEW z \in Pemilik', NEW i \in DOMAIN z.item
      PROVE  Cardinality(Ditahan(z.pengguna, z.item[i].kategori)') = z.item[i].jumlah
  BY <1>1, <1>2, <1>3 DEF Tepat
<1>5. \A z, w \in Pemilik' : Bersilang(z, w) => z = w
  BY DEF PemilikInv, Bersilang
<1> QED BY <1>2, <1>4, <1>5 DEF PemilikInv, Tepat

\* A checkout becomes the owner of units nobody held.
LEMMA KlaimBaru ==
    ASSUME TypeInv, PemilikInv, NEW y, y.item \in DaftarItem, UnikItem(y.item),
           Pemilik' \subseteq Pemilik \cup {y},
           \A k \in KategoriItem(y.item) : Ditahan(y.pengguna, k) = {},
           \A i \in DOMAIN y.item :
              Cardinality(Ditahan(y.pengguna, y.item[i].kategori)') = y.item[i].jumlah,
           \A v \in Varian : \/ varian'[v] = varian[v]
                             \/ /\ varian[v].status # "Dipesan"
                                /\ varian'[v].pemegang = y.pengguna
                                /\ KategoriDari[v] \in KategoriItem(y.item)
    PROVE  PemilikInv'
<1>1. ASSUME NEW z \in Pemilik PROVE ~ Bersilang(y, z) /\ ~ Bersilang(z, y)
  <2>1. \A k \in KategoriItem(z.item) : Ditahan(z.pengguna, k) # {}
    BY PemilikType, TepatAda DEF PemilikInv
  <2> QED BY <2>1 DEF Bersilang
<1>2. ASSUME NEW z \in Pemilik, NEW k \in KategoriItem(z.item)
      PROVE  Ditahan(z.pengguna, k)' = Ditahan(z.pengguna, k)
  <2>1. ASSUME NEW v \in Varian, v \in Ditahan(z.pengguna, k) \/ v \in Ditahan(z.pengguna, k)'
        PROVE  varian'[v] = varian[v]
    BY <1>1, <2>1 DEF Ditahan, Bersilang
  <2> QED BY <2>1 DEF Ditahan
<1>3. \A z \in Pemilik : UnikItem(z.item) /\ Tepat(z.pengguna, z.item)
  BY DEF PemilikInv
<1>4. \A z \in Pemilik : \A i \in DOMAIN z.item : z.item[i].kategori \in KategoriItem(z.item)
  BY DEF KategoriItem
<1>5. ASSUME NEW z \in Pemilik', NEW i \in DOMAIN z.item
      PROVE  Cardinality(Ditahan(z.pengguna, z.item[i].kategori)') = z.item[i].jumlah
  BY <1>2, <1>3, <1>4 DEF Tepat
<1>6. \A z, w \in Pemilik' : Bersilang(z, w) => z = w
  BY <1>1 DEF PemilikInv
<1>7. \A z \in Pemilik' : UnikItem(z.item)
  BY <1>3
<1> QED BY <1>5, <1>6, <1>7 DEF PemilikInv, Tepat, Bersilang, UnikItem

-----------------------------------------------------------------------------
(* Steps that write no unit.                                                *)

TerjualDiam == \A v \in Varian : varian[v].status = "Terjual" => varian'[v] = varian[v]

LEMMA TabelTetap ==
    ASSUME StokSesuai, UnitTerpenuhi, UNCHANGED <<varian, stok, transaksi>>, tagihan \subseteq tagihan'
    PROVE  StokSesuai' /\ UnitTerpenuhi' /\ TerjualDiam
<1>1. \A k : SiapJual(k)' = SiapJual(k)
  BY DEF SiapJual
<1>2. StokSesuai'
  BY <1>1 DEF StokSesuai
<1> QED BY <1>2 DEF UnitTerpenuhi, TerjualDiam

LEMMA LokalTetap ==
    ASSUME UNCHANGED <<varian, tagihan>>, NEW CONSTANT r, Lokal(r)
    PROVE  Lokal(r)'
<1>1. \A u, k : Ditahan(u, k)' = Ditahan(u, k)
  BY DEF Ditahan
<1> QED BY <1>1 DEF Lokal, LokalCheckout, LokalBatal, LokalBatalTransaksi, Terkumpul, Terhitung

LEMMA LokalSatu ==
    ASSUME TypeInv, NEW p \in Proses, Sendiri(p), NEW CONSTANT r,
           proses' = [proses EXCEPT ![p] = r], Lokal(r)'
    PROVE  LokalInv'
<1>1. proses'[p] = r /\ \A q \in Proses \ {p} : proses'[q].tahap = "bebas"
  BY BerjalanSatu
<1>2. ASSUME NEW q \in Proses \ {p} PROVE Lokal(proses[q])'
  BY <1>1, <1>2 DEF Lokal, TahapPesanan
<1>3. Lokal(proses[p])'
  BY <1>1
<1> QED BY <1>2, <1>3 DEF LokalInv

LEMMA LokalBebas == \A r : r.tahap \notin TahapPesanan => Lokal(r)
BY DEF Lokal, TahapPesanan

\* A request reads, goes on to another stage, or ends.
LEMMA LangkahRekam ==
    ASSUME TypeInv, TertibInv, NEW p \in Proses, Sendiri(p), NEW CONSTANT r,
           proses' = [proses EXCEPT ![p] = r],
           UNCHANGED <<varian, stok, transaksi, tagihan, terpakai, dataCheckout>>,
           r.tahap \in TahapKlaim => /\ proses[p].tahap \in TahapKlaim
                                     /\ r.pengguna = proses[p].pengguna
                                     /\ r.item = proses[p].item,
           Lokal(r)
    PROVE  TertibInv' /\ TerjualDiam
<1>1. StokSesuai' /\ UnitTerpenuhi' /\ TerjualDiam
  BY TabelTetap DEF TertibInv
<1>2. LokalInv'
  BY LokalTetap, LokalSatu
<1>3. /\ Berjalan = IF proses[p].tahap \in TahapKlaim THEN {proses[p]} ELSE {}
      /\ Berjalan' = IF r.tahap \in TahapKlaim THEN {r} ELSE {}
  BY BerjalanSatu
<1>4. Terbuka' = Terbuka
  BY DEF Terbuka
<1>5. PemilikInv'
  <2>1. CASE r.tahap \in TahapKlaim
    <3>1. proses[p] \in Pemilik
      BY <1>3, <2>1 DEF Pemilik
    <3>2. proses[p] \notin dataCheckout \cup Terbuka
      BY PemilikBeda DEF Terbuka
    <3>3. Pemilik' \subseteq (Pemilik \ {proses[p]}) \cup {r}
      BY <1>3, <1>4, <2>1, <3>2 DEF Pemilik
    <3> QED BY <2>1, <3>1, <3>3, KlaimPindah DEF TertibInv
  <2>2. CASE r.tahap \notin TahapKlaim
    <3>1. Pemilik' \subseteq Pemilik
      BY <1>3, <1>4, <2>2 DEF Pemilik
    <3> QED BY <3>1, KlaimTetap DEF TertibInv
  <2> QED BY <2>1, <2>2
<1> QED BY <1>1, <1>2, <1>5 DEF TertibInv

\* A request takes over the units of the answer or the bill it is about.
LEMMA LangkahAmbil ==
    ASSUME TypeInv, TertibInv, NEW p \in Proses, Sendiri(p), proses[p].tahap = "bebas",
           NEW CONSTANT r, proses' = [proses EXCEPT ![p] = r],
           UNCHANGED <<varian, stok, transaksi, tagihan>>,
           NEW x \in dataCheckout \cup Terbuka, r.pengguna = x.pengguna, r.item = x.item,
           (dataCheckout \cup Terbuka)' \subseteq (dataCheckout \cup Terbuka) \ {x},
           Lokal(r)
    PROVE  TertibInv' /\ TerjualDiam
<1>1. StokSesuai' /\ UnitTerpenuhi' /\ TerjualDiam
  BY TabelTetap DEF TertibInv
<1>2. LokalInv'
  BY LokalTetap, LokalSatu
<1>3. /\ Berjalan = {}
      /\ Berjalan' \subseteq {r}
  BY BerjalanSatu DEF TahapKlaim
<1>4. x \in Pemilik /\ Pemilik' \subseteq (Pemilik \ {x}) \cup {r}
  BY <1>3 DEF Pemilik
<1>5. PemilikInv'
  BY <1>4, KlaimPindah DEF TertibInv
<1> QED BY <1>1, <1>2, <1>5 DEF TertibInv

\* What a request begins with.
LEMMA PermintaanLokal ==
    ASSUME NEW tahap \in TahapPesanan, NEW u, NEW item \in DaftarItem
    PROVE  LET r == Permintaan(tahap, u, item)
           IN  /\ r.tahap = tahap /\ r.pengguna = u /\ r.item = item /\ r.i = 1 /\ r.varian = {}
               /\ Terhitung(r) /\ Terkumpul(r) /\ r.i <= Len(item) + 1
<1> DEFINE r == Permintaan(tahap, u, item)
<1>1. /\ r.tahap = tahap /\ r.pengguna = u /\ r.item = item /\ r.i = 1 /\ r.varian = {}
      /\ r.jumlah = [k \in Kategori |-> 0]
  BY DEF Permintaan, ProsesBebas
<1>2. Len(item) \in Nat /\ DOMAIN item = 1 .. Len(item)
  BY DaftarItemSeq
<1> HIDE DEF r
<1>3. Terhitung(r)
  BY <1>1, <1>2 DEF Terhitung
<1>4. Terkumpul(r)
  <2>1. \A k : PerKategori(r.varian, k) = {}
    BY <1>1 DEF PerKategori
  <2> QED BY <1>1, <2>1, FS_EmptySet DEF Terkumpul
<1> QED BY <1>1, <1>2, <1>3, <1>4 DEF r

\* One more line of a loop that adds up amounts and units.
LEMMA KumpulLanjut ==
    ASSUME NEW r \in TipeProses, r.item \in DaftarItem, UnikItem(r.item), r.i \in DOMAIN r.item,
           Terhitung(r), Terkumpul(r), NEW ids \in SUBSET Varian,
           \A v \in ids : KategoriDari[v] = r.item[r.i].kategori,
           Cardinality(ids) = r.item[r.i].jumlah,
           NEW s, s.item = r.item, s.i = r.i + 1, s.varian = r.varian \cup ids,
           s.jumlah = TambahJumlah(r)
    PROVE  Terhitung(s) /\ Terkumpul(s)
<1> DEFINE c == r.item[r.i].kategori
<1>1. /\ r.i \in Nat /\ r.varian \in SUBSET Varian /\ r.jumlah \in [Kategori -> Nat]
      /\ c \in Kategori /\ r.item[r.i].jumlah \in Nat
  BY ItemNilai DEF TipeProses, TipeJumlah
<1>2. \A j \in DOMAIN r.item : j \in Nat
  BY ItemNilai
<1>3. r.jumlah[c] = 0
  <2>1. \A j \in DOMAIN r.item : j < r.i => r.item[j].kategori # c
    BY <1>1, <1>2 DEF UnikItem
  <2> QED BY <1>1, <2>1 DEF Terhitung
<1>4. /\ s.jumlah[c] = r.item[r.i].jumlah
      /\ \A k \in Kategori : k # c => s.jumlah[k] = r.jumlah[k]
  BY <1>1, <1>3 DEF TambahJumlah
<1>5. \A j \in DOMAIN r.item : j < s.i <=> j < r.i \/ j = r.i
  BY <1>1, <1>2
<1>6. Terhitung(s)
  <2>1. ASSUME NEW j \in DOMAIN r.item, j < s.i
        PROVE  s.jumlah[r.item[j].kategori] = r.item[j].jumlah
    <3>1. CASE j = r.i
      BY <1>4, <3>1
    <3>2. CASE j < r.i
      <4>1. r.item[j].kategori # c /\ r.item[j].kategori \in Kategori
        BY <1>1, <1>2, <3>2, ItemNilai DEF UnikItem
      <4> QED BY <1>4, <3>2, <4>1 DEF Terhitung
    <3> QED BY <1>5, <2>1, <3>1, <3>2
  <2>2. ASSUME NEW k \in Kategori, \A j \in DOMAIN r.item : j < s.i => r.item[j].kategori # k
        PROVE  s.jumlah[k] = 0
    <3>1. k # c
      BY <1>5, <2>2
    <3>2. \A j \in DOMAIN r.item : j < r.i => r.item[j].kategori # k
      BY <1>5, <2>2
    <3> QED BY <1>4, <3>1, <3>2 DEF Terhitung
  <2> QED BY <2>1, <2>2 DEF Terhitung
<1>7. Terkumpul(s)
  <2> SUFFICES ASSUME NEW k \in Kategori
               PROVE  Cardinality(PerKategori(s.varian, k)) = s.jumlah[k]
    BY DEF Terkumpul
  <2>1. Cardinality(PerKategori(r.varian, k)) = r.jumlah[k]
    BY DEF Terkumpul
  <2>2. CASE k = c
    <3>1. PerKategori(r.varian, k) = {}
      <4>1. PerKategori(r.varian, k) \in SUBSET Varian
        BY <1>1 DEF PerKategori
      <4>2. IsFiniteSet(PerKategori(r.varian, k))
        BY <4>1, VarianTerhingga
      <4> QED BY <1>3, <2>1, <2>2, <4>2, FS_EmptySet
    <3>2. PerKategori(s.varian, k) = ids
      BY <2>2, <3>1 DEF PerKategori
    <3> QED BY <1>4, <2>2, <3>2
  <2>3. CASE k # c
    <3>1. PerKategori(s.varian, k) = PerKategori(r.varian, k)
      BY <2>3 DEF PerKategori
    <3> QED BY <1>4, <2>1, <2>3, <3>1
  <2> QED BY <2>2, <2>3
<1> QED BY <1>6, <1>7

-----------------------------------------------------------------------------
(* Checkout.                                                                *)

\* What the end of a loop has collected: each category's amount, and nothing else.
LEMMA LoopSelesai ==
    ASSUME NEW r \in TipeProses, r.item \in DaftarItem, r.i \notin DOMAIN r.item, r.i >= 1,
           Terhitung(r)
    PROVE  /\ \A j \in DOMAIN r.item : r.jumlah[r.item[j].kategori] = r.item[j].jumlah
           /\ \A k \in Kategori : k \notin KategoriItem(r.item) => r.jumlah[k] = 0
<1>1. r.i \in Nat /\ DOMAIN r.item = 1 .. Len(r.item) /\ Len(r.item) \in Nat
  BY DaftarItemSeq DEF TipeProses
<1>2. \A j \in DOMAIN r.item : j < r.i
  BY <1>1
<1> QED BY <1>2 DEF Terhitung, KategoriItem

LEMMA UnitTetap ==
    ASSUME UnitTerpenuhi, UNCHANGED transaksi,
           \A v \in Varian : \/ varian'[v] = varian[v]
                             \/ varian[v].status # "Terjual" /\ varian'[v].status # "Terjual"
    PROVE  UnitTerpenuhi' /\ TerjualDiam
<1>1. \A n : {v \in Varian : varian'[v].status = "Terjual" /\ varian'[v].transaksi = n}
                = {v \in Varian : varian[v].status = "Terjual" /\ varian[v].transaksi = n}
  OBVIOUS
<1> QED BY <1>1 DEF UnitTerpenuhi, TerjualDiam

LEMMA CheckoutTulisTertib ==
    ASSUME TypeInv, TertibInv, NEW p \in Proses, Sendiri(p), CheckoutTulis(p)
    PROVE  TertibInv' /\ TerjualDiam
<1> DEFINE r == proses[p]
           d == [pengguna |-> r.pengguna, item |-> r.item]
<1>1. /\ r.tahap = "checkout" /\ r.i \notin DOMAIN r.item
      /\ varian' = TahanVarian(r.varian, r.pengguna)
      /\ stok' = KurangiStok(r.jumlah)
      /\ dataCheckout' = dataCheckout \cup {d}
      /\ proses' = [proses EXCEPT ![p] = [proses[p] EXCEPT !.tahap = "latarKeranjang"]]
      /\ UNCHANGED <<tagihan, terpakai, transaksi>>
  BY DEF CheckoutTulis, buku
<1>2. /\ r \in TipeProses /\ r.item \in DaftarItem /\ varian \in [Varian -> TipeVarian]
      /\ stok \in [Kategori -> Nat] /\ r.jumlah \in [Kategori -> Nat] /\ r.varian \in SUBSET Varian
      /\ KategoriDari \in [Varian -> Kategori]
  BY <1>1, ReservasiAssumption
     DEF TypeInv, TypeOK, TipeProses, TipeJumlah, PermintaanLengkap, TahapPesanan, ReservasiAssumption
<1>3. LokalCheckout(r) /\ r.i >= 1
  BY <1>1 DEF TertibInv, LokalInv, Lokal, TahapPesanan
<1>4. /\ \A j \in DOMAIN r.item : r.jumlah[r.item[j].kategori] = r.item[j].jumlah
      /\ \A k \in Kategori : k \notin KategoriItem(r.item) => r.jumlah[k] = 0
  BY <1>1, <1>2, <1>3, LoopSelesai DEF LokalCheckout
<1>5. \A k \in Kategori : Cardinality(PerKategori(r.varian, k)) = r.jumlah[k]
  BY <1>3 DEF LokalCheckout, Terkumpul
<1>6. \A v \in r.varian : KategoriDari[v] \in KategoriItem(r.item)
  <2> SUFFICES ASSUME NEW v \in r.varian, KategoriDari[v] \notin KategoriItem(r.item) PROVE FALSE
    OBVIOUS
  <2> DEFINE S == PerKategori(r.varian, KategoriDari[v])
  <2>1. Cardinality(S) = 0
    BY <1>2, <1>4, <1>5
  <2>2. S \in SUBSET Varian /\ v \in S
    BY <1>2 DEF PerKategori
  <2> HIDE DEF S
  <2>3. IsFiniteSet(S)
    BY <2>2, VarianTerhingga
  <2> QED BY <2>1, <2>2, <2>3, FS_EmptySet
<1>7. \A v \in Varian : /\ v \in r.varian => /\ varian[v].status = "Ready"
                                             /\ varian'[v].status = "Dipesan"
                                             /\ varian'[v].pemegang = r.pengguna
                        /\ v \notin r.varian => varian'[v] = varian[v]
  BY <1>1, <1>2, <1>3 DEF TahanVarian, LokalCheckout, TipeVarian
<1>8. UnitTerpenuhi' /\ TerjualDiam
  BY <1>1, <1>7, UnitTetap DEF TertibInv
<1>9. StokSesuai'
  <2> SUFFICES ASSUME NEW k \in Kategori
               PROVE  /\ stok'[k] >= Cardinality(SiapJual(k)')
                      /\ (\A t \in tagihan : Len(t.item) = 1) => stok'[k] = Cardinality(SiapJual(k)')
    BY <1>1 DEF StokSesuai
  <2> DEFINE S == SiapJual(k)
             T == PerKategori(r.varian, k)
  <2>1. /\ SiapJual(k)' = S \ T /\ T \subseteq S /\ S \in SUBSET Varian
    BY <1>2, <1>7 DEF SiapJual, PerKategori
  <2>2. Cardinality(T) = r.jumlah[k]
    BY <1>5
  <2>3. /\ stok[k] >= Cardinality(S)
        /\ (\A t \in tagihan : Len(t.item) = 1) => stok[k] = Cardinality(S)
    BY DEF TertibInv, StokSesuai
  <2>4. stok'[k] = IF stok[k] >= r.jumlah[k] THEN stok[k] - r.jumlah[k] ELSE stok[k]
    BY <1>1 DEF KurangiStok
  <2>5. stok[k] \in Nat /\ r.jumlah[k] \in Nat
    BY <1>2
  <2> HIDE DEF S, T
  <2>6. IsFiniteSet(S) /\ Cardinality(S) \in Nat
    BY <2>1, VarianTerhingga
  <2>7. Cardinality(T) <= Cardinality(S)
    BY <2>1, <2>6, FS_Subset
  <2>8. Cardinality(S \ T) = Cardinality(S) - Cardinality(T)
    <3>1. S \cap T = T
      BY <2>1
    <3> QED BY <2>6, <3>1, FS_Difference
  <2> QED BY <2>1, <2>2, <2>3, <2>4, <2>5, <2>6, <2>7, <2>8
<1>10. LokalInv'
  <2>1. PICK s : s = [proses[p] EXCEPT !.tahap = "latarKeranjang"]
    OBVIOUS
  <2>2. s.tahap = "latarKeranjang"
    BY <1>2, <2>1 DEF TipeProses
  <2>3. Lokal(s)'
    BY <2>2 DEF Lokal, TahapPesanan
  <2> QED BY <1>1, <2>1, <2>3, LokalSatu
<1>11. PemilikInv'
  <2>1. PICK u : u = r.pengguna
    OBVIOUS
  <2>2. PICK item : item = r.item
    OBVIOUS
  <2>3. PICK y : y = [pengguna |-> u, item |-> item]
    OBVIOUS
  <2>4. y.pengguna = u /\ y.item = item /\ y = d
    BY <2>1, <2>2, <2>3
  <2>5. Pemilik' \subseteq Pemilik \cup {y}
    <3>1. PICK s : s = [proses[p] EXCEPT !.tahap = "latarKeranjang"]
      OBVIOUS
    <3>2. s.tahap = "latarKeranjang"
      BY <1>2, <3>1 DEF TipeProses
    <3>3. Berjalan' = {}
      BY <1>1, <3>1, <3>2, BerjalanSatu DEF TahapKlaim
    <3>4. Terbuka' = Terbuka
      BY <1>1 DEF Terbuka
    <3> QED BY <1>1, <2>4, <3>3, <3>4 DEF Pemilik
  <2>6. item \in DaftarItem /\ UnikItem(item) /\ \A k \in KategoriItem(item) : Ditahan(u, k) = {}
    BY <1>2, <1>3, <2>1, <2>2 DEF LokalCheckout
  <2>7. \A v \in Varian : /\ v \in r.varian => /\ varian[v].status # "Dipesan"
                                               /\ varian'[v].status = "Dipesan"
                                               /\ varian'[v].pemegang = u
                                               /\ KategoriDari[v] \in KategoriItem(item)
                          /\ v \notin r.varian => varian'[v] = varian[v]
    BY <1>6, <1>7, <2>1, <2>2
  <2>8. ASSUME NEW i \in DOMAIN item
        PROVE  Cardinality(Ditahan(u, item[i].kategori)') = item[i].jumlah
    <3>1. PICK k : k = item[i].kategori
      OBVIOUS
    <3>2. k \in Kategori /\ k \in KategoriItem(item)
      BY <2>6, <3>1, ItemNilai
    <3>3. Ditahan(u, k) = {}
      BY <2>6, <3>2
    <3>4. Ditahan(u, k)' = PerKategori(r.varian, k)
      BY <1>2, <2>7, <3>3 DEF Ditahan, PerKategori
    <3>5. Cardinality(PerKategori(r.varian, k)) = item[i].jumlah
      BY <1>4, <1>5, <2>2, <3>1, <3>2
    <3> QED BY <3>1, <3>4, <3>5
  <2>9. /\ \A k \in KategoriItem(y.item) : Ditahan(y.pengguna, k) = {}
        /\ \A i \in DOMAIN y.item : Cardinality(Ditahan(y.pengguna, y.item[i].kategori)') = y.item[i].jumlah
        /\ \A v \in Varian : \/ varian'[v] = varian[v]
                             \/ /\ varian[v].status # "Dipesan"
                                /\ varian'[v].pemegang = y.pengguna
                                /\ KategoriDari[v] \in KategoriItem(y.item)
    BY <2>4, <2>6, <2>7, <2>8
  <2>10. y.item \in DaftarItem /\ UnikItem(y.item)
    BY <2>4, <2>6
  <2> QED BY <2>5, <2>9, <2>10, KlaimBaru DEF TertibInv
<1> QED BY <1>8, <1>9, <1>10, <1>11 DEF TertibInv


LEMMA TertibCheckout ==
    ASSUME TypeInv, TertibInv, NEW p \in Proses, Sendiri(p), KlienTertib, LangkahCheckout(p)
    PROVE  TertibInv' /\ TerjualDiam
<1> SUFFICES TertibInv' /\ TerjualDiam
  OBVIOUS
<1>0. proses[p] \in TipeProses
  BY DEF TypeInv, TypeOK
<1>1. ASSUME NEW u \in Pengguna, NEW item \in DaftarItem, CheckoutBarangUser(p, u, item)
      PROVE  TertibInv' /\ TerjualDiam
  <2>1. PICK baris : proses' = [proses EXCEPT ![p] =
                          [Permintaan("checkout", u, item) EXCEPT !.baris = baris]]
    BY <1>1 DEF CheckoutBarangUser
  <2>2. PICK r : r = [Permintaan("checkout", u, item) EXCEPT !.baris = baris]
    OBVIOUS
  <2>3. LET q == Permintaan("checkout", u, item)
        IN  /\ r.tahap = q.tahap /\ r.pengguna = q.pengguna /\ r.item = q.item /\ r.i = q.i
            /\ r.varian = q.varian /\ r.jumlah = q.jumlah
    BY <2>2 DEF Permintaan, ProsesBebas
  <2>4. LET q == Permintaan("checkout", u, item)
        IN  /\ q.tahap = "checkout" /\ q.pengguna = u /\ q.item = item /\ q.i = 1 /\ q.varian = {}
            /\ Terhitung(q) /\ Terkumpul(q) /\ q.i <= Len(item) + 1
    <3>1. "checkout" \in TahapPesanan
      BY DEF TahapPesanan
    <3> QED BY <3>1, PermintaanLokal
  <2>5. UnikItem(item) /\ \A k \in KategoriItem(item) : Ditahan(u, k) = {}
    BY <1>1 DEF CheckoutBarangUser, BolehCheckout, UnikItem
  <2>6. LokalCheckout(r)
    BY <2>3, <2>4, <2>5 DEF LokalCheckout, Terhitung, Terkumpul, PerKategori
  <2>7. Lokal(r)
    BY <2>3, <2>4, <2>6 DEF Lokal
  <2>8. r.tahap \notin TahapKlaim
    BY <2>3, <2>4 DEF TahapKlaim
  <2>9. UNCHANGED <<varian, stok, transaksi, tagihan, terpakai, dataCheckout>>
    BY <1>1 DEF CheckoutBarangUser, klien, buku
  <2> QED BY <2>1, <2>2, <2>7, <2>8, <2>9, LangkahRekam
<1>2. ASSUME CheckoutBacaVarian(p) PROVE TertibInv' /\ TerjualDiam
  <2>1. /\ proses[p].tahap = "checkout" /\ proses[p].i \in DOMAIN proses[p].item
        /\ UNCHANGED <<varian, stok, transaksi, tagihan, terpakai, dataCheckout>>
    BY <1>2 DEF CheckoutBacaVarian, klien, buku
  <2>2. CASE Lepas(p)
    <3>1. ProsesBebas.tahap = "bebas"
      BY DEF ProsesBebas
    <3>2. Lokal(ProsesBebas) /\ ProsesBebas.tahap \notin TahapKlaim
      BY <3>1, LokalBebas DEF TahapKlaim, TahapPesanan
    <3>3. PICK r : r = ProsesBebas
      OBVIOUS
    <3>4. Lokal(r) /\ r.tahap \notin TahapKlaim /\ proses' = [proses EXCEPT ![p] = r]
      BY <2>2, <3>2, <3>3 DEF Lepas
    <3> QED BY <2>1, <3>4, LangkahRekam
  <2>3. ASSUME NEW ids \in Limit(SiapJual(proses[p].item[proses[p].i].kategori),
                                 proses[p].item[proses[p].i].jumlah),
               Cardinality(SiapJual(proses[p].item[proses[p].i].kategori))
                  >= proses[p].item[proses[p].i].jumlah,
               Lanjut(p, proses[p].varian \cup ids, TambahJumlah(proses[p]))
        PROVE  TertibInv' /\ TerjualDiam
    <3>1. PICK r : r = proses[p]
      OBVIOUS
    <3>2. PICK s : s = [r EXCEPT !.varian = r.varian \cup ids, !.jumlah = TambahJumlah(r), !.i = @ + 1]
      OBVIOUS
    <3>3. proses' = [proses EXCEPT ![p] = s]
      BY <2>3, <3>1, <3>2 DEF Lanjut
    <3>4. /\ s.tahap = "checkout" /\ s.pengguna = r.pengguna /\ s.item = r.item /\ s.i = r.i + 1
          /\ s.varian = r.varian \cup ids /\ s.jumlah = TambahJumlah(r)
      BY <1>0, <2>1, <3>1, <3>2 DEF TipeProses
    <3>5. LokalCheckout(r) /\ r.i >= 1
      BY <2>1, <3>1 DEF TertibInv, LokalInv, Lokal, TahapPesanan
    <3>6. /\ r \in TipeProses /\ r.item \in DaftarItem /\ r.i \in DOMAIN r.item
          /\ r.i \in Nat /\ r.item[r.i].jumlah \in Nat /\ r.i <= Len(r.item)
      <4>1. r \in TipeProses /\ r.item \in DaftarItem /\ r.i \in DOMAIN r.item
        BY <1>0, <2>1, <3>1 DEF TypeInv, PermintaanLengkap, TahapPesanan
      <4> QED BY <4>1, ItemNilai
    <3>7. /\ ids \subseteq SiapJual(r.item[r.i].kategori) /\ ids \in SUBSET Varian
          /\ Cardinality(ids) = r.item[r.i].jumlah
      <4> DEFINE S == SiapJual(r.item[r.i].kategori)
                 n == r.item[r.i].jumlah
      <4>1. S \in SUBSET Varian
        BY DEF SiapJual
      <4>2. ids \in Limit(S, n) /\ Cardinality(S) >= n /\ n \in Nat
        BY <2>3, <3>1, <3>6
      <4> HIDE DEF S, n
      <4>3. Cardinality(S) \in Nat
        BY <4>1, VarianTerhingga
      <4>4. ids \subseteq S /\ Cardinality(ids) = n
        BY <4>2, <4>3 DEF Limit
      <4> QED BY <4>1, <4>4 DEF S, n
    <3>8. Terhitung(s) /\ Terkumpul(s)
      <4>1. \A v \in ids : KategoriDari[v] = r.item[r.i].kategori
        BY <3>7 DEF SiapJual
      <4> QED BY <3>4, <3>5, <3>6, <3>7, <4>1, KumpulLanjut DEF LokalCheckout
    <3>9. LokalCheckout(s)
      <4>1. \A v \in s.varian : varian[v].status = "Ready"
        BY <3>4, <3>5, <3>7 DEF LokalCheckout, SiapJual
      <4> QED BY <3>4, <3>5, <3>8, <4>1 DEF LokalCheckout
    <3>10. Lokal(s)
      <4>1. Len(s.item) \in Nat
        BY <3>4, <3>6, DaftarItemSeq
      <4> QED BY <3>4, <3>5, <3>6, <3>9, <4>1 DEF Lokal
    <3>11. s.tahap \notin TahapKlaim
      BY <3>4 DEF TahapKlaim
    <3> QED BY <2>1, <3>3, <3>10, <3>11, LangkahRekam
  <2>4. \/ Lepas(p)
        \/ \E ids \in Limit(SiapJual(proses[p].item[proses[p].i].kategori),
                            proses[p].item[proses[p].i].jumlah) :
              /\ Cardinality(SiapJual(proses[p].item[proses[p].i].kategori))
                    >= proses[p].item[proses[p].i].jumlah
              /\ Lanjut(p, proses[p].varian \cup ids, TambahJumlah(proses[p]))
    <3>1. Cardinality(SiapJual(proses[p].item[proses[p].i].kategori)) \in Nat
      <4>1. SiapJual(proses[p].item[proses[p].i].kategori) \in SUBSET Varian
        BY DEF SiapJual
      <4> QED BY <4>1, VarianTerhingga
    <3>2. proses[p].item[proses[p].i].jumlah \in Nat
      <4>1. proses[p].item \in DaftarItem
        BY <2>1 DEF TypeInv, PermintaanLengkap, TahapPesanan
      <4> QED BY <2>1, <4>1, ItemNilai
    <3> DEFINE m == Cardinality(SiapJual(proses[p].item[proses[p].i].kategori))
               n == proses[p].item[proses[p].i].jumlah
    <3>3. m < n \/ m >= n
      <4> HIDE DEF m, n
      <4> QED BY <3>1, <3>2 DEF m, n
    <3>4. IF m < n
          THEN Lepas(p)
          ELSE \E ids \in Limit(SiapJual(proses[p].item[proses[p].i].kategori), n) :
                  Lanjut(p, proses[p].varian \cup ids, TambahJumlah(proses[p]))
      BY <1>2 DEF CheckoutBacaVarian
    <3>5. CASE m < n
      BY <3>4, <3>5
    <3>6. CASE ~(m < n)
      BY <3>3, <3>4, <3>6
    <3> QED BY <3>5, <3>6
  <2> QED BY <2>2, <2>3, <2>4
<1>3. ASSUME CheckoutGagal(p) PROVE TertibInv' /\ TerjualDiam
  <2>1. PICK r : r = [proses[p] EXCEPT !.tahap = "latarKeranjang"]
    OBVIOUS
  <2>2. r.tahap = "latarKeranjang"
    BY <1>0, <2>1 DEF TipeProses
  <2>3. Lokal(r) /\ r.tahap \notin TahapKlaim
    BY <2>2, LokalBebas DEF TahapKlaim, TahapPesanan
  <2>4. /\ UNCHANGED <<varian, stok, transaksi, tagihan, terpakai, dataCheckout>>
        /\ proses' = [proses EXCEPT ![p] = r]
    BY <1>3, <2>1 DEF CheckoutGagal, klien, buku
  <2> QED BY <2>3, <2>4, LangkahRekam
<1>4. ASSUME LatarKeranjang(p) PROVE TertibInv' /\ TerjualDiam
  <2>1. PICK r : r = ProsesBebas
    OBVIOUS
  <2>2. r.tahap = "bebas"
    BY <2>1 DEF ProsesBebas
  <2>3. Lokal(r) /\ r.tahap \notin TahapKlaim
    BY <2>2, LokalBebas DEF TahapKlaim, TahapPesanan
  <2>4. /\ UNCHANGED <<varian, stok, transaksi, tagihan, terpakai, dataCheckout>>
        /\ proses' = [proses EXCEPT ![p] = r]
    BY <1>4, <2>1 DEF LatarKeranjang, Lepas, klien, buku
  <2> QED BY <2>3, <2>4, LangkahRekam
<1> QED BY <1>1, <1>2, <1>3, <1>4, CheckoutTulisTertib DEF LangkahCheckout


-----------------------------------------------------------------------------
(* Cancellation.                                                            *)

\* The bills an orderly client has acted on are not open any more.
LEMMA TerbukaPakai ==
    ASSUME TypeInv, KlienTertib, NEW t \in tagihan, PakaiTagihan(t)
    PROVE  t \in Terbuka /\ {s \in tagihan : s.kode \notin terpakai'} \subseteq Terbuka \ {t}
BY DEF PakaiTagihan, Terbuka

LEMMA LangkahMulai ==
    ASSUME TypeInv, TertibInv, NEW p \in Proses, Sendiri(p), proses[p].tahap = "bebas", KlienTertib,
           NEW d \in dataCheckout, Pakai(d), NEW tahap \in {"batalCheckout", "snap"},
           proses' = [proses EXCEPT ![p] = Permintaan(tahap, d.pengguna, d.item)],
           UNCHANGED <<varian, stok, transaksi, tagihan, terpakai>>
    PROVE  TertibInv' /\ TerjualDiam
<1>1. PICK r : r = Permintaan(tahap, d.pengguna, d.item)
  OBVIOUS
<1>2. d.item \in DaftarItem
  BY DEF TypeInv, TypeOK, Pesanan
<1>3. tahap \in TahapPesanan
  BY DEF TahapPesanan
<1>4. /\ r.tahap = tahap /\ r.pengguna = d.pengguna /\ r.item = d.item /\ r.i = 1 /\ r.varian = {}
      /\ Terhitung(r) /\ Terkumpul(r) /\ r.i <= Len(r.item) + 1
  BY <1>1, <1>2, <1>3, PermintaanLokal
<1>5. Lokal(r)
  BY <1>4 DEF Lokal, LokalBatal
<1>6. (dataCheckout \cup Terbuka)' \subseteq (dataCheckout \cup Terbuka) \ {d}
  <2>1. Terbuka' = Terbuka /\ dataCheckout' = dataCheckout \ {d}
    BY DEF Terbuka, Pakai
  <2>2. d \notin Terbuka
    BY PemilikBeda DEF Terbuka
  <2> QED BY <2>1, <2>2
<1> QED BY <1>1, <1>4, <1>5, <1>6, LangkahAmbil

\* A write that frees units of the order r and raises the counters.
LEMMA TulisBebas ==
    ASSUME TypeInv, TertibInv, NEW p \in Proses, Sendiri(p), proses[p].tahap \in TahapKlaim,
           NEW ids \in SUBSET Varian, NEW jumlah \in TipeJumlah,
           varian' = LepasVarian(ids), stok' = KembalikanStok(jumlah), Lepas(p),
           UNCHANGED <<transaksi, tagihan, terpakai, dataCheckout>>,
           \A v \in ids : /\ KategoriDari[v] \in KategoriItem(proses[p].item)
                          /\ v \in Ditahan(proses[p].pengguna, KategoriDari[v]),
           \A k \in Kategori :
              /\ Cardinality(PerKategori(ids, k)) <= jumlah[k]
              /\ (\A t \in tagihan : Len(t.item) = 1) => Cardinality(PerKategori(ids, k)) = jumlah[k]
    PROVE  TertibInv' /\ TerjualDiam
<1>1. /\ varian \in [Varian -> TipeVarian] /\ stok \in [Kategori -> Nat] /\ jumlah \in [Kategori -> Nat]
      /\ KategoriDari \in [Varian -> Kategori]
  BY ReservasiAssumption DEF TypeInv, TypeOK, TipeJumlah, ReservasiAssumption
<1>2. \A v \in Varian : /\ v \in ids => varian[v].status = "Dipesan" /\ varian'[v].status = "Ready"
                        /\ v \notin ids => varian'[v] = varian[v]
  BY <1>1 DEF LepasVarian, Ditahan, TipeVarian
<1>3. PICK r : r = ProsesBebas
  OBVIOUS
<1>4. r.tahap = "bebas" /\ proses' = [proses EXCEPT ![p] = r]
  BY <1>3 DEF ProsesBebas, Lepas
<1>5. LokalInv'
  <2>1. Lokal(r)'
    BY <1>4 DEF Lokal, TahapPesanan
  <2> QED BY <1>4, <2>1, LokalSatu
<1>6. UnitTerpenuhi' /\ TerjualDiam
  BY <1>2, UnitTetap DEF TertibInv
<1>7. PemilikInv'
  <2>1. PICK x : x = proses[p]
    OBVIOUS
  <2>2. x \in Pemilik
    BY <2>1 DEF Pemilik, Berjalan
  <2>3. Pemilik' \subseteq Pemilik \ {x}
    <3>1. Berjalan = {x} /\ Berjalan' = {} /\ Terbuka' = Terbuka
      BY <1>4, <2>1, BerjalanSatu DEF TahapKlaim, Terbuka
    <3>2. x \notin dataCheckout /\ x \notin Terbuka
      BY <2>1, PemilikBeda DEF Terbuka
    <3> QED BY <3>1, <3>2 DEF Pemilik
  <2>4. \A v \in Varian : \/ varian'[v] = varian[v]
                          \/ /\ varian'[v].status # "Dipesan"
                             /\ KategoriDari[v] \in KategoriItem(x.item)
                             /\ v \in Ditahan(x.pengguna, KategoriDari[v])
    BY <1>2, <2>1
  <2> QED BY <2>2, <2>3, <2>4, KlaimSelesai DEF TertibInv
<1>8. StokSesuai'
  <2> SUFFICES ASSUME NEW k \in Kategori
               PROVE  /\ stok'[k] >= Cardinality(SiapJual(k)')
                      /\ (\A t \in tagihan : Len(t.item) = 1) => stok'[k] = Cardinality(SiapJual(k)')
    BY DEF StokSesuai
  <2> DEFINE S == SiapJual(k)
             T == PerKategori(ids, k)
  <2>1. /\ SiapJual(k)' = S \cup T /\ T \cap S = {} /\ S \in SUBSET Varian /\ T \in SUBSET Varian
    BY <1>1, <1>2 DEF SiapJual, PerKategori
  <2>2. /\ Cardinality(T) <= jumlah[k]
        /\ (\A t \in tagihan : Len(t.item) = 1) => Cardinality(T) = jumlah[k]
    OBVIOUS
  <2>3. /\ stok[k] >= Cardinality(S)
        /\ (\A t \in tagihan : Len(t.item) = 1) => stok[k] = Cardinality(S)
    BY DEF TertibInv, StokSesuai
  <2>4. stok'[k] = stok[k] + jumlah[k]
    BY DEF KembalikanStok
  <2>5. stok[k] \in Nat /\ jumlah[k] \in Nat
    BY <1>1
  <2> HIDE DEF S, T
  <2>6. /\ IsFiniteSet(S) /\ Cardinality(S) \in Nat
        /\ IsFiniteSet(T) /\ Cardinality(T) \in Nat
    BY <2>1, VarianTerhingga
  <2>7. Cardinality(S \cup T) = Cardinality(S) + Cardinality(T)
    <3>1. Cardinality(S \cap T) = 0
      BY <2>1, FS_EmptySet
    <3>2. Cardinality(S \cup T) = Cardinality(S) + Cardinality(T) - Cardinality(S \cap T)
      BY <2>6, FS_Union
    <3> QED BY <2>6, <3>1, <3>2
  <2> QED BY <2>1, <2>2, <2>3, <2>4, <2>5, <2>6, <2>7
<1> QED BY <1>5, <1>6, <1>7, <1>8 DEF TertibInv


\* What a request of an orderly client has read is exactly what its order names.
LEMMA MilikPas ==
    ASSUME TypeInv, TertibInv, NEW p \in Proses, proses[p].tahap \in TahapKlaim
    PROVE  /\ proses[p] \in TipeProses /\ proses[p].item \in DaftarItem /\ UnikItem(proses[p].item)
           /\ \A i \in DOMAIN proses[p].item :
                 LET S == Ditahan(proses[p].pengguna, proses[p].item[i].kategori)
                 IN  /\ Cardinality(S) = proses[p].item[i].jumlah
                     /\ S # {}
                     /\ Limit(S, proses[p].item[i].jumlah) \subseteq {S}
<1>1. proses[p] \in Pemilik
  BY DEF Pemilik, Berjalan
<1>2. proses[p] \in TipeProses /\ proses[p].item \in DaftarItem
  BY DEF TypeInv, TypeOK, PermintaanLengkap, TahapKlaim, TahapPesanan
<1>3. UnikItem(proses[p].item) /\ Tepat(proses[p].pengguna, proses[p].item)
  BY <1>1 DEF TertibInv, PemilikInv
<1>4. ASSUME NEW i \in DOMAIN proses[p].item
      PROVE  LET S == Ditahan(proses[p].pengguna, proses[p].item[i].kategori)
             IN  /\ Cardinality(S) = proses[p].item[i].jumlah
                 /\ S # {}
                 /\ Limit(S, proses[p].item[i].jumlah) \subseteq {S}
  <2> DEFINE S == Ditahan(proses[p].pengguna, proses[p].item[i].kategori)
  <2>1. Cardinality(S) = proses[p].item[i].jumlah
    BY <1>3 DEF Tepat
  <2>2. S # {}
    BY <1>2, <1>3, ItemNilai, TepatAda
  <2>3. S \in SUBSET Varian
    BY DitahanBagian
  <2> HIDE DEF S
  <2>4. Limit(S, Cardinality(S)) \subseteq {S}
    BY <2>3, LimitPas
  <2> QED BY <2>1, <2>2, <2>4 DEF S
<1> QED BY <1>2, <1>3, <1>4

LEMMA HitungLanjut ==
    ASSUME NEW r \in TipeProses, r.item \in DaftarItem, UnikItem(r.item), r.i \in DOMAIN r.item,
           Terhitung(r), NEW s, s.item = r.item, s.i = r.i + 1,
           s.jumlah = [r.jumlah EXCEPT ![r.item[r.i].kategori] = r.item[r.i].jumlah]
    PROVE  Terhitung(s)
<1> DEFINE c == r.item[r.i].kategori
<1>1. /\ r.jumlah \in [Kategori -> Nat] /\ r.i \in Nat /\ c \in Kategori
  BY ItemNilai DEF TipeProses, TipeJumlah
<1>2. \A j \in DOMAIN r.item : j \in Nat /\ r.item[j].kategori \in Kategori
  BY ItemNilai
<1>3. s.jumlah[c] = r.item[r.i].jumlah /\ \A k \in Kategori : k # c => s.jumlah[k] = r.jumlah[k]
  BY <1>1
<1>4. ASSUME NEW j \in DOMAIN s.item, j < s.i
      PROVE  s.jumlah[s.item[j].kategori] = s.item[j].jumlah
  <2>1. j < r.i \/ j = r.i
    BY <1>1, <1>2, <1>4
  <2>2. CASE j = r.i
    BY <1>3, <2>2
  <2>3. CASE j < r.i
    <3>1. r.item[j].kategori # c
      BY <1>1, <1>2, <2>3 DEF UnikItem
    <3> QED BY <1>2, <1>3, <2>3, <3>1 DEF Terhitung
  <2> QED BY <2>1, <2>2, <2>3
<1>5. ASSUME NEW k \in Kategori, \A j \in DOMAIN s.item : j < s.i => s.item[j].kategori # k
      PROVE  s.jumlah[k] = 0
  <2>1. k # c
    BY <1>1, <1>5
  <2>2. \A j \in DOMAIN r.item : j < r.i => r.item[j].kategori # k
    BY <1>1, <1>2, <1>5
  <2> QED BY <1>3, <2>1, <2>2 DEF Terhitung
<1> QED BY <1>4, <1>5 DEF Terhitung

LEMMA BatalBacaTertib ==
    ASSUME TypeInv, TertibInv, NEW p \in Proses, Sendiri(p),
           BatalBacaVarian(p) \/ BatalTransaksiBaca(p)
    PROVE  TertibInv' /\ TerjualDiam
<1> SUFFICES TertibInv' /\ TerjualDiam
  OBVIOUS
<1>1. PICK r : r = proses[p]
  OBVIOUS
<1>2. /\ r.tahap \in {"batalCheckout", "batalTransaksi"} /\ r.i \in DOMAIN r.item
      /\ UNCHANGED <<varian, stok, transaksi, tagihan, terpakai, dataCheckout>>
  BY <1>1 DEF BatalBacaVarian, BatalTransaksiBaca, klien, buku
<1>3. PICK ids : ids = Ditahan(r.pengguna, r.item[r.i].kategori)
  OBVIOUS
<1>4. /\ r \in TipeProses /\ r.item \in DaftarItem /\ UnikItem(r.item)
      /\ Cardinality(ids) = r.item[r.i].jumlah /\ ids # {}
      /\ Limit(Ditahan(r.pengguna, r.item[r.i].kategori), r.item[r.i].jumlah) \subseteq {ids}
  BY <1>1, <1>2, <1>3, MilikPas DEF TahapKlaim
<1>5. /\ r.i \in Nat /\ r.i <= Len(r.item) /\ r.i >= 1 /\ Len(r.item) \in Nat
      /\ r.item[r.i].kategori \in KategoriItem(r.item) /\ r.item[r.i].kategori \in Kategori
  BY <1>2, <1>4, ItemNilai, DaftarItemSeq
<1>6. ids \in SUBSET Varian /\ \A v \in ids : KategoriDari[v] = r.item[r.i].kategori
  BY <1>3, DitahanBagian DEF Ditahan
<1>7. Lokal(r) /\ r.tahap \in TahapPesanan
  BY <1>1, <1>2 DEF TertibInv, LokalInv, TahapPesanan
<1>8. CASE BatalBacaVarian(p)
  <2>1. r.tahap = "batalCheckout" /\ LokalBatal(r)
    BY <1>1, <1>7, <1>8 DEF Lokal, BatalBacaVarian
  <2>2. PICK s : s = [r EXCEPT !.varian = r.varian \cup ids, !.jumlah = TambahJumlah(r), !.i = @ + 1]
    OBVIOUS
  <2>3. proses' = [proses EXCEPT ![p] = s]
    BY <1>1, <1>4, <1>8, <2>2 DEF BatalBacaVarian, Lanjut
  <2>4. /\ s.tahap = "batalCheckout" /\ s.pengguna = r.pengguna /\ s.item = r.item /\ s.i = r.i + 1
        /\ s.varian = r.varian \cup ids /\ s.jumlah = TambahJumlah(r)
    BY <1>4, <2>1, <2>2 DEF TipeProses
  <2>5. Terhitung(s) /\ Terkumpul(s)
    BY <1>2, <1>4, <1>6, <2>1, <2>4, KumpulLanjut DEF LokalBatal
  <2>6. \A v \in s.varian : /\ KategoriDari[v] \in KategoriItem(s.item)
                            /\ v \in Ditahan(s.pengguna, KategoriDari[v])
    BY <1>3, <1>5, <1>6, <2>1, <2>4 DEF LokalBatal
  <2>7. LokalBatal(s)
    BY <2>5, <2>6 DEF LokalBatal
  <2>8. Lokal(s)
    BY <1>5, <2>4, <2>7 DEF Lokal
  <2>9. r.tahap \in TahapKlaim
    BY <2>1 DEF TahapKlaim
  <2> QED BY <1>1, <1>2, <2>3, <2>4, <2>8, <2>9, LangkahRekam
<1>9. CASE BatalTransaksiBaca(p)
  <2>1. r.tahap = "batalTransaksi" /\ LokalBatalTransaksi(r)
    BY <1>1, <1>7, <1>9 DEF Lokal, BatalTransaksiBaca
  <2>2. PICK s : s = [r EXCEPT !.varian = ids,
                               !.jumlah = [r.jumlah EXCEPT ![r.item[r.i].kategori] = r.item[r.i].jumlah],
                               !.i = @ + 1]
    OBVIOUS
  <2>3. proses' = [proses EXCEPT ![p] = s]
    BY <1>1, <1>4, <1>9, <2>2 DEF BatalTransaksiBaca, Lanjut
  <2>4. /\ s.tahap = "batalTransaksi" /\ s.pengguna = r.pengguna /\ s.item = r.item /\ s.i = r.i + 1
        /\ s.varian = ids
        /\ s.jumlah = [r.jumlah EXCEPT ![r.item[r.i].kategori] = r.item[r.i].jumlah]
    BY <1>4, <2>1, <2>2 DEF TipeProses
  <2>5. Terhitung(s)
    BY <1>2, <1>4, <2>1, <2>4, HitungLanjut DEF LokalBatalTransaksi
  <2>6. LokalBatalTransaksi(s)
    <3>1. s.i # 1 /\ s.i - 1 = r.i
      BY <1>5, <2>4
    <3> QED BY <1>3, <2>1, <2>4, <2>5, <3>1 DEF LokalBatalTransaksi
  <2>7. Lokal(s)
    BY <1>5, <2>4, <2>6 DEF Lokal
  <2>8. r.tahap \in TahapKlaim
    BY <2>1 DEF TahapKlaim
  <2> QED BY <1>1, <1>2, <2>3, <2>4, <2>7, <2>8, LangkahRekam
<1> QED BY <1>8, <1>9

LEMMA BatalTulisTertib ==
    ASSUME TypeInv, TertibInv, NEW p \in Proses, Sendiri(p),
           BatalTulis(p) \/ BatalTransaksiTulis(p)
    PROVE  TertibInv' /\ TerjualDiam
<1> SUFFICES TertibInv' /\ TerjualDiam
  OBVIOUS
<1> DEFINE r == proses[p]
<1>1. /\ r.tahap \in {"batalCheckout", "batalTransaksi"} /\ r.i \notin DOMAIN r.item
      /\ varian' = LepasVarian(r.varian) /\ stok' = KembalikanStok(r.jumlah) /\ Lepas(p)
      /\ UNCHANGED <<transaksi, tagihan, terpakai, dataCheckout>>
  BY DEF BatalTulis, BatalTransaksiTulis, klien, buku
<1>2. r.tahap \in TahapKlaim /\ r.tahap \in TahapPesanan /\ Lokal(r)
  BY <1>1 DEF TahapKlaim, TahapPesanan, TertibInv, LokalInv
<1>3. /\ r \in TipeProses /\ r.item \in DaftarItem /\ UnikItem(r.item)
      /\ \A i \in DOMAIN r.item :
            Cardinality(Ditahan(r.pengguna, r.item[i].kategori)) = r.item[i].jumlah
  BY <1>2, MilikPas
<1>4. /\ r.varian \in SUBSET Varian /\ r.jumlah \in TipeJumlah /\ r.i \in Nat /\ r.i >= 1
      /\ r.i <= Len(r.item) + 1 /\ Len(r.item) \in Nat /\ Len(r.item) >= 1
      /\ DOMAIN r.item = 1 .. Len(r.item)
  BY <1>2, <1>3, DaftarItemSeq DEF TipeProses, Lokal
<1>5. r.i = Len(r.item) + 1
  BY <1>1, <1>4
<1>6. Terhitung(r)
  BY <1>1, <1>2 DEF Lokal, LokalBatal, LokalBatalTransaksi
<1>7. /\ \A j \in DOMAIN r.item : r.jumlah[r.item[j].kategori] = r.item[j].jumlah
      /\ \A k \in Kategori : k \notin KategoriItem(r.item) => r.jumlah[k] = 0
  BY <1>1, <1>3, <1>4, <1>6, LoopSelesai
<1>8. CASE r.tahap = "batalCheckout"
  <2>1. LokalBatal(r)
    BY <1>2, <1>8 DEF Lokal
  <2>2. \A k \in Kategori : Cardinality(PerKategori(r.varian, k)) = r.jumlah[k] /\ r.jumlah[k] \in Nat
    BY <1>4, <2>1 DEF LokalBatal, Terkumpul, TipeJumlah
  <2>3. \A k \in Kategori : Cardinality(PerKategori(r.varian, k)) <= r.jumlah[k]
    BY <2>2
  <2> HIDE DEF r
  <2> QED BY <1>1, <1>2, <1>4, <2>1, <2>2, <2>3, TulisBebas DEF LokalBatal, r
<1>9. CASE r.tahap = "batalTransaksi"
  <2>1. LokalBatalTransaksi(r)
    BY <1>2, <1>9 DEF Lokal
  <2> DEFINE n == Len(r.item)
             c == r.item[n].kategori
  <2>2. /\ n \in DOMAIN r.item /\ r.varian = Ditahan(r.pengguna, c) /\ c \in KategoriItem(r.item)
        /\ c \in Kategori
    <3>1. n \in DOMAIN r.item /\ r.i # 1 /\ r.i - 1 = n
      BY <1>4, <1>5
    <3> QED BY <1>3, <2>1, <3>1, ItemNilai DEF LokalBatalTransaksi
  <2>3. \A v \in r.varian : KategoriDari[v] = c /\ v \in Ditahan(r.pengguna, KategoriDari[v])
    BY <2>2 DEF Ditahan
  <2>4. ASSUME NEW k \in Kategori
        PROVE  /\ Cardinality(PerKategori(r.varian, k)) <= r.jumlah[k]
               /\ (\A t \in tagihan : Len(t.item) = 1)
                     => Cardinality(PerKategori(r.varian, k)) = r.jumlah[k]
    <3>1. r.jumlah[k] \in Nat
      BY <1>4 DEF TipeJumlah
    <3>2. CASE k = c
      <4>1. PerKategori(r.varian, k) = r.varian
        BY <1>4, <2>3, <3>2 DEF PerKategori
      <4>2. Cardinality(r.varian) = r.jumlah[k]
        BY <1>3, <1>7, <2>2, <3>2
      <4> QED BY <3>1, <4>1, <4>2
    <3>3. CASE k # c
      <4>1. PerKategori(r.varian, k) = {}
        BY <2>3, <3>3 DEF PerKategori
      <4>2. Cardinality(PerKategori(r.varian, k)) = 0
        BY <4>1, FS_EmptySet
      <4>3. ASSUME \A t \in tagihan : Len(t.item) = 1 PROVE r.jumlah[k] = 0
        <5>1. Len(r.item) = 1
          BY <2>1, <4>3 DEF LokalBatalTransaksi
        <5>2. k \notin KategoriItem(r.item)
          BY <1>4, <3>3, <5>1 DEF KategoriItem
        <5> QED BY <1>7, <5>2
      <4> QED BY <3>1, <4>2, <4>3
    <3> QED BY <3>2, <3>3
  <2>5. \A v \in r.varian : /\ KategoriDari[v] \in KategoriItem(r.item)
                            /\ v \in Ditahan(r.pengguna, KategoriDari[v])
    BY <2>2, <2>3
  <2> HIDE DEF n, c
  <2> QED BY <1>1, <1>2, <1>4, <2>4, <2>5, TulisBebas
<1> QED BY <1>1, <1>8, <1>9

LEMMA TertibBatal ==
    ASSUME TypeInv, TertibInv, NEW p \in Proses, Sendiri(p), KlienTertib, LangkahBatal(p)
    PROVE  TertibInv' /\ TerjualDiam
<1> SUFFICES TertibInv' /\ TerjualDiam
  OBVIOUS
<1>1. ASSUME NEW d \in dataCheckout, BatalCheckoutUser(p, d) PROVE TertibInv' /\ TerjualDiam
  <2>1. /\ proses[p].tahap = "bebas" /\ Pakai(d)
        /\ proses' = [proses EXCEPT ![p] = Permintaan("batalCheckout", d.pengguna, d.item)]
        /\ UNCHANGED <<varian, stok, transaksi, tagihan, terpakai>>
    BY <1>1 DEF BatalCheckoutUser, buku
  <2> QED BY <2>1, LangkahMulai
<1>2. ASSUME NEW t \in tagihan, BatalTransaksi(p, t) PROVE TertibInv' /\ TerjualDiam
  <2>1. /\ proses[p].tahap = "bebas" /\ PakaiTagihan(t)
        /\ proses' = [proses EXCEPT ![p] = Permintaan("batalTransaksi", t.pengguna, t.item)]
        /\ UNCHANGED <<varian, stok, transaksi, tagihan, dataCheckout>>
    BY <1>2 DEF BatalTransaksi, buku
  <2>2. PICK r : r = Permintaan("batalTransaksi", t.pengguna, t.item)
    OBVIOUS
  <2>3. t.item \in DaftarItem
    BY DEF TypeInv, TypeOK, Tagihan
  <2>4. "batalTransaksi" \in TahapPesanan
    BY DEF TahapPesanan
  <2>5. /\ r.tahap = "batalTransaksi" /\ r.pengguna = t.pengguna /\ r.item = t.item /\ r.i = 1
        /\ r.varian = {} /\ Terhitung(r) /\ r.i <= Len(r.item) + 1
    BY <2>2, <2>3, <2>4, PermintaanLokal
  <2>6. Lokal(r)
    BY <2>5 DEF Lokal, LokalBatalTransaksi
  <2>7. t \in Terbuka /\ (dataCheckout \cup Terbuka)' \subseteq (dataCheckout \cup Terbuka) \ {t}
    <3>1. t \in Terbuka /\ Terbuka' \subseteq Terbuka \ {t}
      BY <2>1, TerbukaPakai DEF Terbuka
    <3>2. t \notin dataCheckout
      BY PemilikBeda
    <3> QED BY <2>1, <3>1, <3>2
  <2> QED BY <2>1, <2>2, <2>5, <2>6, <2>7, LangkahAmbil
<1> QED BY <1>1, <1>2, BatalBacaTertib, BatalTulisTertib DEF LangkahBatal


-----------------------------------------------------------------------------
(* Snap and payment.                                                        *)

LEMMA SnapSelesaiTertib ==
    ASSUME TypeInv, TertibInv, NEW p \in Proses, Sendiri(p), SnapSelesai(p)
    PROVE  TertibInv' /\ TerjualDiam
<1>1. PICK x : x = proses[p]
  OBVIOUS
<1>2. PICK t : /\ tagihan' = tagihan \cup {t} /\ t.pengguna = x.pengguna /\ t.item = x.item
  <2>1. PICK kode \in Kode, metode \in Metode :
           tagihan' = tagihan \cup {[kode |-> kode, metode |-> metode,
                                     pengguna |-> proses[p].pengguna, item |-> proses[p].item]}
    BY DEF SnapSelesai
  <2>2. PICK t : t = [kode |-> kode, metode |-> metode,
                      pengguna |-> proses[p].pengguna, item |-> proses[p].item]
    OBVIOUS
  <2> QED BY <1>1, <2>1, <2>2
<1>3. x.tahap = "snap" /\ UNCHANGED <<varian, stok, transaksi, terpakai, dataCheckout>> /\ Lepas(p)
  BY <1>1 DEF SnapSelesai, buku
<1>4. UnitTerpenuhi' /\ StokSesuai' /\ TerjualDiam
  BY <1>2, <1>3, TabelTetap DEF TertibInv
<1>5. PICK r : r = ProsesBebas
  OBVIOUS
<1>6. r.tahap = "bebas" /\ proses' = [proses EXCEPT ![p] = r]
  BY <1>3, <1>5 DEF ProsesBebas, Lepas
<1>7. LokalInv'
  <2>1. Lokal(r)'
    BY <1>6 DEF Lokal, TahapPesanan
  <2> QED BY <1>6, <2>1, LokalSatu
<1>8. PemilikInv'
  <2>1. Berjalan = {x} /\ Berjalan' = {}
    BY <1>1, <1>3, <1>6, BerjalanSatu DEF TahapKlaim
  <2>2. Terbuka' \subseteq Terbuka \cup {t}
    BY <1>2, <1>3 DEF Terbuka
  <2>3. x \in Pemilik /\ x \notin dataCheckout /\ x \notin Terbuka
    BY <1>1, <2>1, PemilikBeda DEF Pemilik, Terbuka
  <2>4. Pemilik' \subseteq (Pemilik \ {x}) \cup {t}
    BY <1>3, <2>1, <2>2, <2>3 DEF Pemilik
  <2> QED BY <1>2, <1>3, <2>3, <2>4, KlaimPindah DEF TertibInv
<1> QED BY <1>4, <1>7, <1>8 DEF TertibInv

LEMMA TertibSnap ==
    ASSUME TypeInv, TertibInv, NEW p \in Proses, Sendiri(p), KlienTertib, LangkahSnap(p)
    PROVE  TertibInv' /\ TerjualDiam
<1> SUFFICES TertibInv' /\ TerjualDiam
  OBVIOUS
<1>1. ASSUME NEW d \in dataCheckout, SnapTransaksi(p, d) PROVE TertibInv' /\ TerjualDiam
  <2>1. /\ proses[p].tahap = "bebas" /\ Pakai(d)
        /\ proses' = [proses EXCEPT ![p] = Permintaan("snap", d.pengguna, d.item)]
        /\ UNCHANGED <<varian, stok, transaksi, tagihan, terpakai>>
    BY <1>1 DEF SnapTransaksi, buku
  <2> QED BY <2>1, LangkahMulai
<1>2. ASSUME proses[p].tahap = "snap", KeBatalCheckout(p),
             UNCHANGED <<varian, stok, transaksi, tagihan, terpakai, dataCheckout>>
      PROVE  TertibInv' /\ TerjualDiam
  <2>1. PICK r : r = Permintaan("batalCheckout", proses[p].pengguna, proses[p].item)
    OBVIOUS
  <2>2. proses[p].item \in DaftarItem
    BY <1>2 DEF TypeInv, PermintaanLengkap, TahapPesanan
  <2>3. "batalCheckout" \in TahapPesanan
    BY DEF TahapPesanan
  <2>4. /\ r.tahap = "batalCheckout" /\ r.pengguna = proses[p].pengguna /\ r.item = proses[p].item
        /\ r.i = 1 /\ r.varian = {} /\ Terhitung(r) /\ Terkumpul(r) /\ r.i <= Len(r.item) + 1
    BY <2>1, <2>2, <2>3, PermintaanLokal
  <2>5. Lokal(r)
    BY <2>4 DEF Lokal, LokalBatal
  <2>6. proses' = [proses EXCEPT ![p] = r] /\ proses[p].tahap \in TahapKlaim
    BY <1>2, <2>1 DEF KeBatalCheckout, TahapKlaim
  <2> QED BY <1>2, <2>4, <2>5, <2>6, LangkahRekam
<1>3. ASSUME SnapPeriksa(p) PROVE TertibInv' /\ TerjualDiam
  <2>1. /\ proses[p].tahap = "snap" /\ proses[p].i \in DOMAIN proses[p].item
        /\ UNCHANGED <<varian, stok, transaksi, tagihan, terpakai, dataCheckout>>
        /\ KeBatalCheckout(p) \/ Lanjut(p, proses[p].varian, proses[p].jumlah)
    BY <1>3 DEF SnapPeriksa, klien, buku
  <2>2. CASE KeBatalCheckout(p)
    BY <1>2, <2>1, <2>2
  <2>3. CASE Lanjut(p, proses[p].varian, proses[p].jumlah)
    <3>1. PICK q : q = proses[p]
      OBVIOUS
    <3>2. PICK r : r = [q EXCEPT !.varian = q.varian, !.jumlah = q.jumlah, !.i = @ + 1]
      OBVIOUS
    <3>3. proses' = [proses EXCEPT ![p] = r]
      BY <2>3, <3>1, <3>2 DEF Lanjut
    <3>4. q \in TipeProses /\ q.item \in DaftarItem /\ q.tahap \in TahapKlaim
      BY <2>1, <3>1, MilikPas DEF TahapKlaim
    <3>5. r.tahap = "snap" /\ r.pengguna = q.pengguna /\ r.item = q.item /\ r.i = q.i + 1
      BY <2>1, <3>1, <3>2, <3>4 DEF TipeProses
    <3>6. q.i \in Nat /\ q.i <= Len(q.item) /\ Len(q.item) \in Nat /\ q.i >= 1
      BY <2>1, <3>1, <3>4, ItemNilai, DaftarItemSeq
    <3>7. Lokal(r)
      BY <3>5, <3>6 DEF Lokal
    <3> QED BY <2>1, <3>1, <3>3, <3>4, <3>5, <3>7, LangkahRekam
  <2> QED BY <2>1, <2>2, <2>3
<1>4. ASSUME SnapBatal(p) PROVE TertibInv' /\ TerjualDiam
  <2>1. /\ proses[p].tahap = "snap" /\ KeBatalCheckout(p)
        /\ UNCHANGED <<varian, stok, transaksi, tagihan, terpakai, dataCheckout>>
    BY <1>4 DEF SnapBatal, klien, buku
  <2> QED BY <1>2, <2>1
<1> QED BY <1>1, <1>3, <1>4, SnapSelesaiTertib DEF LangkahSnap

\* A category that is on one line of a bill is sold by that line.
LEMMA BarisPertamaUnik ==
    ASSUME NEW item \in DaftarItem, UnikItem(item), NEW i \in DOMAIN item
    PROVE  BarisPertama(item, item[i].kategori) = i
<1>1. BarisPertama(item, item[i].kategori) \in DOMAIN item
  BY ItemNilai, BarisPertamaBenar, DaftarItemSeq
<1>2. item[BarisPertama(item, item[i].kategori)].kategori = item[i].kategori
  BY ItemNilai, BarisPertamaBenar
<1> QED BY <1>1, <1>2 DEF UnikItem

LEMMA KunciTertib ==
    ASSUME TypeInv, TerjualMilikPembeli, TertibInv, NEW p \in Proses, Sendiri(p), KlienTertib,
           NEW t \in tagihan, KunciTransaksi(p, t)
    PROVE  TertibInv' /\ TerjualDiam
<1>1. /\ proses[p].tahap = "bebas" /\ PakaiTagihan(t)
      /\ transaksi' = transaksi \o BarisBaru(t) /\ varian' = JualVarian(t)
      /\ UNCHANGED <<stok, dataCheckout, tagihan>>
  BY DEF KunciTransaksi
<1>2. /\ t \in Tagihan /\ t.item \in DaftarItem /\ TypeOK /\ transaksi \in Seq(BarisTransaksi)
      /\ varian \in [Varian -> TipeVarian] /\ KategoriDari \in [Varian -> Kategori]
  BY ReservasiAssumption DEF TypeInv, TypeOK, Tagihan, ReservasiAssumption
<1>3. t \in Terbuka /\ Terbuka' \subseteq Terbuka \ {t}
  BY <1>1, TerbukaPakai DEF Terbuka
<1>4. UnikItem(t.item) /\ Tepat(t.pengguna, t.item)
  BY <1>3 DEF TertibInv, PemilikInv, Pemilik
<1>5. PICK r : proses' = [proses EXCEPT ![p] = r] /\ r.tahap = "latarTransaksi"
  <2>1. PICK nomor : proses' = [proses EXCEPT ![p] =
                         [ProsesBebas EXCEPT !.tahap = "latarTransaksi", !.nomor = nomor]]
    BY DEF KunciTransaksi
  <2>2. PICK r : r = [ProsesBebas EXCEPT !.tahap = "latarTransaksi", !.nomor = nomor]
    OBVIOUS
  <2>3. r.tahap = "latarTransaksi"
    BY <2>2 DEF ProsesBebas
  <2> QED BY <2>1, <2>2, <2>3
<1>6. \A v \in Varian :
         \/ /\ varian'[v] = varian[v]
            /\ ~ \E k \in KategoriItem(t.item) : v \in Ditahan(t.pengguna, k)
         \/ /\ varian[v].status = "Dipesan" /\ varian'[v].status = "Terjual"
            /\ KategoriDari[v] \in KategoriItem(t.item)
            /\ v \in Ditahan(t.pengguna, KategoriDari[v])
            /\ \E n \in 1 .. Len(t.item) : /\ varian'[v].transaksi = Len(transaksi) + n
                                           /\ t.item[n].kategori = KategoriDari[v]
  <2> SUFFICES ASSUME NEW v \in Varian
               PROVE  \/ /\ varian'[v] = varian[v]
                         /\ ~ \E k \in KategoriItem(t.item) : v \in Ditahan(t.pengguna, k)
                      \/ /\ varian[v].status = "Dipesan" /\ varian'[v].status = "Terjual"
                         /\ KategoriDari[v] \in KategoriItem(t.item)
                         /\ v \in Ditahan(t.pengguna, KategoriDari[v])
                         /\ \E n \in 1 .. Len(t.item) : /\ varian'[v].transaksi = Len(transaksi) + n
                                                        /\ t.item[n].kategori = KategoriDari[v]
    OBVIOUS
  <2>1. DOMAIN t.item = 1 .. Len(t.item)
    BY <1>2, DaftarItemSeq
  <2>2. \A n \in 1 .. Len(t.item) : t.item[n].kategori \in KategoriItem(t.item)
    BY <2>1 DEF KategoriItem
  <2> QED BY <1>1, <1>2, <2>2, JualVarianBenar DEF Ditahan
<1>7. TerjualDiam
  BY <1>6 DEF TerjualDiam
<1>8. LokalInv'
  <2>1. Lokal(r)'
    BY <1>5 DEF Lokal, TahapPesanan
  <2> QED BY <1>5, <2>1, LokalSatu
<1>9. PemilikInv'
  <2>1. t \in Pemilik
    BY <1>3 DEF Pemilik
  <2>2. Pemilik' \subseteq Pemilik \ {t}
    <3>1. Berjalan' = {}
      BY <1>5, BerjalanSatu DEF TahapKlaim
    <3>2. t \notin dataCheckout
      BY PemilikBeda
    <3> QED BY <1>1, <1>3, <3>1, <3>2 DEF Pemilik
  <2>3. \A v \in Varian : \/ varian'[v] = varian[v]
                          \/ /\ varian'[v].status # "Dipesan"
                             /\ KategoriDari[v] \in KategoriItem(t.item)
                             /\ v \in Ditahan(t.pengguna, KategoriDari[v])
    BY <1>6
  <2> QED BY <2>1, <2>2, <2>3, KlaimSelesai DEF TertibInv
<1>10. StokSesuai'
  <2>1. \A k : SiapJual(k)' = SiapJual(k)
    BY <1>6 DEF SiapJual
  <2> QED BY <1>1, <2>1 DEF TertibInv, StokSesuai
<1>11. UnitTerpenuhi'
  <2> DEFINE Unit(n) == {v \in Varian : varian[v].status = "Terjual" /\ varian[v].transaksi = n}
             UnitBaru(n) == {v \in Varian : varian'[v].status = "Terjual" /\ varian'[v].transaksi = n}
  <2>1. DOMAIN transaksi = 1 .. Len(transaksi) /\ Len(transaksi) \in Nat
    BY <1>2
  <2>2. DOMAIN t.item = 1 .. Len(t.item) /\ Len(t.item) \in Nat
    BY <1>2, DaftarItemSeq
  <2>3. /\ \A n \in DOMAIN transaksi : transaksi'[n] = transaksi[n]
        /\ \A n \in 1 .. Len(t.item) : transaksi'[Len(transaksi) + n] = BarisBaru(t)[n]
        /\ \A m \in DOMAIN transaksi' :
              m \in DOMAIN transaksi \/ \E n \in 1 .. Len(t.item) : m = Len(transaksi) + n
    BY <1>1, <1>2, BukuTambah
  <2>4. ASSUME NEW n \in DOMAIN transaksi PROVE transaksi'[n].jumlah = Cardinality(UnitBaru(n))
    <3>1. \A m \in 1 .. Len(t.item) : n # Len(transaksi) + m
      BY <2>1, <2>2
    <3>2. UnitBaru(n) = Unit(n)
      BY <1>6, <3>1
    <3>3. transaksi[n].jumlah = Cardinality(Unit(n))
      BY DEF TertibInv, UnitTerpenuhi
    <3> QED BY <2>3, <3>2, <3>3
  <2>5. ASSUME NEW n \in 1 .. Len(t.item)
        PROVE  transaksi'[Len(transaksi) + n].jumlah = Cardinality(UnitBaru(Len(transaksi) + n))
    <3>1. transaksi'[Len(transaksi) + n].jumlah = t.item[n].jumlah
      <4>1. BarisBaru(t)[n] = [kode |-> t.kode, pengguna |-> t.pengguna,
                               kategori |-> t.item[n].kategori, jumlah |-> t.item[n].jumlah]
        BY <2>2 DEF BarisBaru
      <4> QED BY <2>3, <4>1
    <3> DEFINE c == t.item[n].kategori
    <3>2. Cardinality(Ditahan(t.pengguna, c)) = t.item[n].jumlah
      BY <1>4, <2>2 DEF Tepat
    <3>3. \A v \in Varian : varian[v].status = "Terjual" => varian[v].transaksi # Len(transaksi) + n
      <4> SUFFICES ASSUME NEW v \in Varian, varian[v].status = "Terjual"
                   PROVE  varian[v].transaksi # Len(transaksi) + n
        OBVIOUS
      <4>1. varian[v].transaksi \in 1 .. Len(transaksi)
        BY <2>1 DEF TerjualMilikPembeli
      <4> QED BY <2>1, <4>1
    <3>4. \A m \in 1 .. Len(t.item) : Len(transaksi) + m = Len(transaksi) + n => m = n
      BY <2>1, <2>2
    <3>5. \A m \in 1 .. Len(t.item) : t.item[m].kategori = c => m = n
      BY <1>4, <2>2 DEF UnikItem
    <3>6. c \in KategoriItem(t.item)
      BY <2>2 DEF KategoriItem
    <3>7. \A v \in Varian : v \in UnitBaru(Len(transaksi) + n) => v \in Ditahan(t.pengguna, c)
      BY <1>6, <3>3, <3>4
    <3>8. \A v \in Varian : v \in Ditahan(t.pengguna, c) => v \in UnitBaru(Len(transaksi) + n)
      <4> SUFFICES ASSUME NEW v \in Varian, v \in Ditahan(t.pengguna, c)
                   PROVE  v \in UnitBaru(Len(transaksi) + n)
        OBVIOUS
      <4>1. KategoriDari[v] = c
        BY DEF Ditahan
      <4> QED BY <1>6, <3>5, <3>6, <4>1
    <3>9. UnitBaru(Len(transaksi) + n) = Ditahan(t.pengguna, c)
      BY <3>7, <3>8 DEF Ditahan
    <3> QED BY <3>1, <3>2, <3>9
  <2>6. \A n \in DOMAIN transaksi' : transaksi'[n].jumlah = Cardinality(UnitBaru(n))
    <3> HIDE DEF UnitBaru
    <3> QED BY <2>3, <2>4, <2>5
  <2> QED BY <2>6 DEF UnitTerpenuhi
<1> QED BY <1>7, <1>8, <1>9, <1>10, <1>11 DEF TertibInv

LEMMA TertibBayar ==
    ASSUME TypeInv, TerjualMilikPembeli, TertibInv, NEW p \in Proses, Sendiri(p), KlienTertib,
           LangkahBayar(p)
    PROVE  TertibInv' /\ TerjualDiam
<1> SUFFICES TertibInv' /\ TerjualDiam
  OBVIOUS
<1>1. ASSUME NEW t \in tagihan, GagalTransaksi(p, t) PROVE TertibInv' /\ TerjualDiam
  <2>1. /\ PakaiTagihan(t) /\ UNCHANGED <<varian, stok, transaksi, tagihan, dataCheckout, proses>>
    BY <1>1 DEF GagalTransaksi
  <2>2. UnitTerpenuhi' /\ StokSesuai' /\ TerjualDiam
    BY <2>1, TabelTetap DEF TertibInv
  <2>3. PemilikInv'
    <3>1. Terbuka' \subseteq Terbuka \ {t}
      BY <2>1, TerbukaPakai DEF Terbuka
    <3>2. Berjalan' = Berjalan
      BY <2>1 DEF Berjalan
    <3>3. Pemilik' \subseteq Pemilik
      BY <2>1, <3>1, <3>2 DEF Pemilik
    <3> QED BY <2>1, <3>3, KlaimTetap DEF TertibInv
  <2>4. LokalInv'
    <3> SUFFICES ASSUME NEW q \in Proses PROVE Lokal(proses[q])'
      BY DEF LokalInv
    <3>1. PICK r : r = proses[q]
      OBVIOUS
    <3>2. Lokal(r) /\ r = proses'[q]
      BY <2>1, <3>1 DEF TertibInv, LokalInv
    <3>3. Lokal(r)'
      BY <2>1, <3>2, LokalTetap
    <3> QED BY <3>2, <3>3 DEF Lokal
  <2> QED BY <2>2, <2>3, <2>4 DEF TertibInv
<1>2. ASSUME LatarTransaksi(p) PROVE TertibInv' /\ TerjualDiam
  <2>1. /\ proses[p].tahap = "latarTransaksi"
        /\ UNCHANGED <<varian, stok, transaksi, tagihan, terpakai, dataCheckout>>
    BY <1>2 DEF LatarTransaksi, klien, buku
  <2>2. \E r : proses' = [proses EXCEPT ![p] = r] /\ r.tahap \in {"bebas", "latarTransaksi"}
    <3>1. ProsesBebas.tahap = "bebas"
      BY DEF ProsesBebas
    <3>2. proses[p] \in TipeProses
      BY DEF TypeInv, TypeOK
    <3>3. \A n : [proses[p] EXCEPT !.nomor = @ \ {n}].tahap = "latarTransaksi"
      BY <2>1, <3>2 DEF TipeProses
    <3> QED BY <1>2, <3>1, <3>3 DEF LatarTransaksi, Lepas
  <2>3. PICK r : proses' = [proses EXCEPT ![p] = r] /\ r.tahap \in {"bebas", "latarTransaksi"}
    BY <2>2
  <2>4. Lokal(r) /\ r.tahap \notin TahapKlaim
    BY <2>3 DEF Lokal, TahapPesanan, TahapKlaim
  <2> QED BY <2>1, <2>3, <2>4, LangkahRekam
<1> QED BY <1>1, <1>2, KunciTertib
    DEF LangkahBayar, LockTransaksiVa, LockTransaksiWallet, LockTransaksiGerai,
        PaidFailedTransaksiVa, PaidFailedTransaksiWallet, PaidFailedTransaksiGerai

LEMMA TertibPutus ==
    ASSUME TypeInv, TertibInv, NEW p \in Proses, Sendiri(p), Putus(p)
    PROVE  TertibInv' /\ TerjualDiam
<1>1. PICK r : r = ProsesBebas
  OBVIOUS
<1>2. r.tahap = "bebas"
  BY <1>1 DEF ProsesBebas
<1>3. Lokal(r) /\ r.tahap \notin TahapKlaim
  BY <1>2, LokalBebas DEF TahapKlaim, TahapPesanan
<1>4. /\ UNCHANGED <<varian, stok, transaksi, tagihan, terpakai, dataCheckout>>
      /\ proses' = [proses EXCEPT ![p] = r]
  BY <1>1 DEF Putus, Lepas, klien, buku
<1> QED BY <1>3, <1>4, LangkahRekam


-----------------------------------------------------------------------------
(* The orderly client of MCReservasi.                                       *)

LEMMA TertibInit == Init => TertibInv
<1> SUFFICES ASSUME Init PROVE TertibInv
  OBVIOUS
<1>1. /\ \A v \in Varian : varian[v].status = "Ready"
      /\ \A k \in Kategori : stok[k] = Cardinality({v \in Varian : KategoriDari[v] = k})
      /\ dataCheckout = {} /\ tagihan = {} /\ transaksi = << >>
      /\ \A p \in Proses : proses[p].tahap = "bebas"
  BY DEF Init, ProsesBebas
<1>2. PemilikInv
  <2>1. Pemilik = {}
    BY <1>1 DEF Pemilik, Terbuka, Berjalan, TahapKlaim
  <2> QED BY <2>1 DEF PemilikInv
<1>3. LokalInv
  BY <1>1 DEF LokalInv, Lokal, TahapPesanan
<1>4. StokSesuai
  <2> SUFFICES ASSUME NEW k \in Kategori
               PROVE  stok[k] >= Cardinality(SiapJual(k)) /\ stok[k] = Cardinality(SiapJual(k))
    BY DEF StokSesuai
  <2>1. SiapJual(k) = {v \in Varian : KategoriDari[v] = k} /\ SiapJual(k) \in SUBSET Varian
    BY <1>1 DEF SiapJual
  <2>2. Cardinality(SiapJual(k)) \in Nat
    BY <2>1, VarianTerhingga
  <2>3. stok[k] = Cardinality(SiapJual(k))
    BY <1>1, <2>1
  <2> QED BY <2>2, <2>3
<1>5. UnitTerpenuhi
  BY <1>1 DEF UnitTerpenuhi
<1> QED BY <1>2, <1>3, <1>4, <1>5 DEF TertibInv

LEMMA TertibDiam ==
    ASSUME TypeInv, TertibInv, UNCHANGED vars
    PROVE  TertibInv' /\ TerjualDiam
<1>1. UNCHANGED <<varian, stok, dataCheckout, tagihan, terpakai, transaksi, proses>>
  BY DEF vars
<1>2. UnitTerpenuhi' /\ StokSesuai' /\ TerjualDiam
  BY <1>1, TabelTetap DEF TertibInv
<1>3. PemilikInv'
  <2>1. Pemilik' = Pemilik
    BY <1>1 DEF Pemilik, Terbuka, Berjalan
  <2> QED BY <1>1, <2>1, KlaimTetap DEF TertibInv
<1>4. LokalInv'
  <2> SUFFICES ASSUME NEW q \in Proses PROVE Lokal(proses[q])'
    BY DEF LokalInv
  <2>1. PICK r : r = proses[q]
    OBVIOUS
  <2>2. Lokal(r) /\ r = proses'[q]
    BY <1>1, <2>1 DEF TertibInv, LokalInv
  <2>3. Lokal(r)'
    BY <1>1, <2>2, LokalTetap
  <2> QED BY <2>2, <2>3 DEF Lokal
<1> QED BY <1>2, <1>3, <1>4 DEF TertibInv

LEMMA TertibLangkah ==
    ASSUME TypeInv, TerjualMilikPembeli, TertibInv, KlienTertib, NextTertib
    PROVE  TertibInv' /\ TerjualDiam
<1>1. PICK p \in Proses : /\ Sendiri(p)
                          /\ \/ LangkahCheckout(p) \/ LangkahBatal(p) \/ LangkahSnap(p)
                             \/ LangkahBayar(p) \/ Putus(p)
  BY DEF NextTertib, Sendiri
<1> QED BY <1>1, TertibCheckout, TertibBatal, TertibSnap, TertibBayar, TertibPutus

SkenarioInv == skenario = "tertib" => TypeInv /\ TerjualMilikPembeli /\ TertibInv

LEMMA SkenarioLangkah ==
    ASSUME KlienTertib, SkenarioInv, [NextDua]_varsDua
    PROVE  SkenarioInv' /\ (skenario = "tertib" => TerjualDiam)
<1>1. skenario' = skenario
  BY DEF NextDua, varsDua
<1> SUFFICES ASSUME skenario = "tertib" PROVE SkenarioInv' /\ TerjualDiam
  BY <1>1 DEF SkenarioInv
<1>2. TypeInv /\ TerjualMilikPembeli /\ TertibInv
  BY DEF SkenarioInv
<1>3. NextTertib \/ UNCHANGED vars
  BY DEF NextDua, varsDua
<1>4. [Next]_vars
  BY <1>3 DEF NextTertib, Next
<1>5. TypeInv' /\ TerjualMilikPembeli'
  BY <1>2, <1>4, TypeLangkah, TerjualMilikLangkah
<1>6. TertibInv' /\ TerjualDiam
  BY <1>2, <1>3, TertibLangkah, TertibDiam
<1> QED BY <1>5, <1>6 DEF SkenarioInv

LEMMA SkenarioBenar == KlienTertib => (SpecDua => []SkenarioInv)
<1> SUFFICES ASSUME KlienTertib PROVE SpecDua => []SkenarioInv
  OBVIOUS
<1>1. InitDua => SkenarioInv
  BY TypeInvInit, TerjualMilikInit, TertibInit DEF InitDua, SkenarioInv
<1>2. SkenarioInv /\ [NextDua]_varsDua => SkenarioInv'
  BY SkenarioLangkah
<1> QED BY <1>1, <1>2, PTL DEF SpecDua

\* An orderly client: the counter of a category never hides a unit for sale, and is
\* the number of units for sale as long as no bill has several lines, through every
\* checkout, cancellation and payment, and every request that ends early.
THEOREM StokTertibBenar == KlienTertib => (SpecDua => []StokTertib)
<1>1. SkenarioInv => StokTertib
  BY DEF SkenarioInv, TertibInv, StokTertib
<1> QED BY <1>1, SkenarioBenar, PTL

\* An orderly client: each line of a paid bill has exactly as many sold units as it
\* was paid for; what a checkout held is still held when its bill is paid.
THEOREM UnitTertibBenar == KlienTertib => (SpecDua => []UnitTertib)
<1>1. SkenarioInv => UnitTertib
  BY DEF SkenarioInv, TertibInv, UnitTertib
<1> QED BY <1>1, SkenarioBenar, PTL

\* An orderly client: no step changes a sold unit, so a checkout never takes over
\* what another buyer has paid for.
THEOREM TerjualTetapTertibBenar == KlienTertib => (SpecDua => TerjualTetapTertib)
<1> SUFFICES ASSUME KlienTertib PROVE SpecDua => TerjualTetapTertib
  OBVIOUS
<1> DEFINE Tetap == skenario = "tertib" =>
                       \A v \in Varian : varian[v].status = "Terjual" => varian'[v] = varian[v]
<1>1. SkenarioInv /\ [NextDua]_varsDua => [Tetap]_varsDua
  BY SkenarioLangkah DEF TerjualDiam
<1>2. SpecDua => []SkenarioInv
  BY SkenarioBenar
<1>3. SpecDua => [][Tetap]_varsDua
  <2> HIDE DEF Tetap
  <2> QED BY <1>1, <1>2, PTL DEF SpecDua
<1> QED BY <1>3 DEF TerjualTetapTertib
=============================================================================
