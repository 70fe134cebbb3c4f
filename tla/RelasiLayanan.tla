--------------------------- MODULE RelasiLayanan ----------------------------
(***************************************************************************)
(* The small services of buyers, sellers and couriers together, with the    *)
(* orders that refer to their warehouses, addresses and accounts.           *)
(***************************************************************************)
EXTENDS RelasiPengguna, RelasiSeller, RelasiKurir

-----------------------------------------------------------------------------
(* Orders, as far as these tables are concerned (Reservasi and              *)
(* KurirPengiriman have the rest).  A bill is not a row of a table: its     *)
(* client keeps it.                                                         *)

\* The warehouse is the one the checkout read and must still be there; of the category and of
\* the buyer's address nothing is asked.
SnapTransaksi(p) ==
    \E k \in Pernah("kategori_barang"), g \in BarisAda("alamat_gudang"), a \in Pernah("alamat_pengguna") :
        BuatBaca(p, Baris("tagihan", baris[a].dari, 0, <<k, g, a>>), {})

\* The payment of a bill, once, makes the order from what the bill says; only the category
\* is looked up again.
LockTransaksi(p) ==
    \E t \in Pernah("tagihan") :
        /\ baris[baris[t].rujuk[1]].ada
        /\ \A j \in Pernah("pesanan") : baris[j].rujuk[4] # t
        /\ BuatBaca(p, Baris("pesanan", baris[t].dari, 0, Append(baris[t].rujuk, t)), {})

\* The courier arrives; the seller is paid to the account of the category.
Sampai(i) ==
    /\ i \in BarisAda("pesanan")
    /\ ~baris[i].tanda
    /\ baris[baris[i].rujuk[1]].ada
    /\ baris[baris[baris[i].rujuk[1]].rujuk[3]].ada
    /\ tertib => Tenang
    /\ baris' = [baris EXCEPT ![i].tanda = TRUE]
    /\ UNCHANGED <<ambang, hitung, latar, proses, keadaan>>

Next ==
    \/ \E p \in Proses : \/ PermintaanPengguna(p) \/ PermintaanSeller(p) \/ PermintaanKurir(p)
                         \/ SnapTransaksi(p) \/ LockTransaksi(p)
                         \/ Langkah(p)
    \/ \E i \in DOMAIN latar : LatarHitung(i) \/ LatarAktif(i)
    \/ \E i \in DOMAIN baris : Sampai(i)

Spec == Init /\ [][Next]_vars

-----------------------------------------------------------------------------
(* Properties.                                                              *)

\* Rows, counters and goroutines stay within the types of the tables, and nothing refers to
\* a row that was never made.
TypeOK == RelasiTypeOK

\* The counters that every handler raises and lowers for the rows of one table, and the
\* field of the row that says whose counter it is.
Dihitung(t, oleh) == [tabel |-> t, oleh |-> oleh]
KolomBenar ==
    [pengguna_keranjang |-> Dihitung("keranjang", "dari"),
     barang_keranjang |-> Dihitung("keranjang", "rujuk"),
     pengguna_following |-> Dihitung("follower", "dari"),
     seller_follower |-> Dihitung("follower", "ke"),
     pengguna_review |-> Dihitung("review", "dari"),
     barang_review |-> Dihitung("review", "rujuk"),
     pengguna_alamat |-> Dihitung("alamat_pengguna", "dari"),
     seller_etalase |-> Dihitung("etalase", "dari"),
     etalase_barang |-> Dihitung("barang_ke_etalase", "rujuk"),
     seller_diskon |-> Dihitung("diskon_produk", "dari"),
     diskon_barang |-> Dihitung("barang_di_diskon", "rujuk"),
     seller_rekening |-> Dihitung("rekening_seller", "dari"),
     seller_gudang |-> Dihitung("alamat_gudang", "dari"),
     seller_barang_induk |-> Dihitung("barang_induk", "dari"),
     barang_kategori |-> Dihitung("kategori_barang", "rujuk"),
     seller_distributor |-> Dihitung("distributor_data", "dari"),
     seller_brand |-> Dihitung("brand_data", "dari"),
     kurir_alamat |-> Dihitung("alamat_kurir", "dari"),
     kurir_kendaraan |-> Dihitung("informasi_kendaraan_kurir", "dari"),
     kurir_informasi |-> Dihitung("informasi_kurir", "dari")]

Pihak(i, oleh) == IF oleh = "rujuk" THEN baris[i].rujuk[1] ELSE baris[i][oleh]
JumlahBaris(k) == Cardinality({i \in BarisAda(KolomBenar[k[1]].tabel) : Pihak(i, KolomBenar[k[1]].oleh) = k[2]})

\* The counters of people, and those of the threshold rows whose own row is still there.
PenghitungOrang == (DOMAIN KolomBenar \ KolomAmbang) \X (Pengguna \cup Seller \cup Kurir)
Penghitung == PenghitungOrang
                  \cup ((DOMAIN KolomBenar \cap KolomAmbang) \X {i \in ambang : baris[i].ada})

\* What the goroutines to come will still add to counter k.
AkanDatang(k) ==
    SumFunctionOnSet([i \in DOMAIN latar |-> Tambahan(latar[i].ubah, k)], DOMAIN latar)

\* Once nothing runs, a counter is the number of its rows, whatever was added, renamed and
\* deleted before.
HitungSesuai == Tenang => \A k \in Penghitung : Isi(k) = JumlahBaris(k)

\* No counter of a person promises more than its rows: what it holds, and what the goroutines
\* will still add, is never more than the rows there are.  (That of a threshold row may: a
\* goroutine that finds no threshold row lowers nothing, and one that comes after the row
\* is made raises it.)
HitungTidakLebih == \A k \in PenghitungOrang : Isi(k) + AkanDatang(k) <= JumlahBaris(k)

\* What may be there once: a row with these fields.
Kunci(t, i) ==
    IF t = "barang_ke_etalase" THEN baris[i].rujuk
    ELSE IF t = "barang_di_diskon" THEN <<baris[i].dari, baris[i].rujuk[3]>>
    ELSE <<baris[i].dari, baris[i].ke, baris[i].rujuk>>

\* No row is there twice, and nothing of which one is allowed, although no unique index says
\* so.  (Names are left out: an edit gives a row any name, that of another one too.)
TanpaGanda ==
    /\ \A t \in {"barang_disukai", "keranjang", "follower", "review_like", "barang_ke_etalase",
                 "barang_di_diskon", "distributor_data", "brand_data", "alamat_kurir",
                 "rekening_kurir", "informasi_kendaraan_kurir", "informasi_kurir"} :
          \A i, j \in BarisAda(t) : Kunci(t, i) = Kunci(t, j) => i = j
    /\ \A o \in Seller : Cardinality({i \in Milik("rekening_seller", o) : baris[i].tanda}) <= 1

\* The limits on the addresses and discounts of one owner.
DalamBatas(tabel) ==
    \A t \in tabel, o \in Pengguna \cup Seller : Cardinality(Milik(t, o)) <= Batas

\* Row i is referred to: a warehouse by a category or an order that is not finished, an address
\* by such an order.
PesananTerbuka(tempat, i) == \E j \in BarisAda("pesanan") : ~baris[j].tanda /\ baris[j].rujuk[tempat] = i
Dirujuk(i) ==
    \/ /\ baris[i].tabel = "alamat_gudang"
       /\ PesananTerbuka(2, i) \/ \E k \in BarisAda("kategori_barang") : baris[k].rujuk[2] = i
    \/ baris[i].tabel = "alamat_pengguna" /\ PesananTerbuka(3, i)

-----------------------------------------------------------------------------
(* What holds for owners who wait for each answer (tertib), and what        *)
(* however requests overlap.                                                *)

\* Counters and rows while no step fails: never ahead where requests overlap, and equal for
\* owners who wait.
HitungTertib == ~gangguan => HitungTidakLebih /\ (tertib => HitungSesuai)

\* Nothing twice, and the limits, for owners who wait.
TanpaGandaTertib == tertib => TanpaGanda /\ DalamBatas({"alamat_pengguna", "diskon_produk"})

\* No step deletes the warehouse of a category or of an order that is not finished, nor changes
\* the warehouse or the address of such an order; and a category gets another warehouse or
\* account only of its own seller, and one that is there.
RujukanTerjaga ==
    \A i \in DOMAIN baris :
        /\ baris[i].ada /\ Dirujuk(i) => baris'[i].ada
        /\ PesananTerbuka(2, i) \/ PesananTerbuka(3, i) => baris'[i] = baris[i]
        /\ \A n \in DOMAIN baris[i].rujuk :
              LET j == baris'[i].rujuk[n]
              IN  j # baris[i].rujuk[n] => baris'[j].ada /\ baris'[j].dari = baris[i].dari

\* For owners who wait, no step of HapusAlamatGudang, EditAlamatGudang and the like takes away
\* or changes what a category or an open order refers to.
RujukanTertib == [][tertib => RujukanTerjaga]_vars
=============================================================================
