------------------------------ MODULE Reservasi ------------------------------
(***************************************************************************)
(* The reservation ledger: a buyer's checkout holds units (varian_barang)   *)
(* of a category, the hold is cancelled or billed, and a paid bill turns    *)
(* held units into sold ones.  The handlers are those of                    *)
(* pengguna_service/transaction_services/engagement_transaksi.go.           *)
(*                                                                          *)
(* A handler reads from the replica one statement at a time, keeps what it  *)
(* read in local variables, and writes everything in one transaction.       *)
(* Every read is a step of its own here, the transaction is one step, so    *)
(* the handlers of different requests interleave as they do on the server.  *)
(* A request that ends early (a failed read, a rolled back transaction, an  *)
(* expired context, a stopped process) is the action Putus.                 *)
(*                                                                          *)
(* Abstractions.  A cart row is the pair <<pengguna, kategori>>.  The pair  *)
(* (barang induk, kategori) of a query is its kategori.  hold_by and        *)
(* holder_entity are always written together and are one field, pemegang.   *)
(***************************************************************************)
EXTENDS Naturals, Sequences, FiniteSets

CONSTANTS
    Pengguna,        \* buyers
    Kategori,        \* categories of goods
    Varian,          \* the units for sale (rows of varian_barang)
    KategoriDari,    \* the category of each unit
    Kode,            \* order codes (kode_order_sistem)
    Proses,          \* requests the server runs at the same time
    Metode,          \* payment methods the buyer may pick
    KeranjangAwal,   \* the cart rows at the start
    MaxItem,         \* most lines of one checkout
    MaxJumlah,       \* most units of one line
    MaxStok,         \* bound on the counter kategori_barang.stok
    TanpaPengguna,   \* hold_by = 0
    MaxTerbit,       \* bound on the delete events of one cart row
    KlienTertib      \* TRUE: the client uses each answer once, see BolehCheckout

ASSUME ReservasiAssumption ==
    /\ KategoriDari \in [Varian -> Kategori]
    /\ IsFiniteSet(Varian)
    /\ TanpaPengguna \notin Pengguna
    /\ KeranjangAwal \subseteq Pengguna \X Kategori
    /\ MaxItem \in Nat \ {0}
    /\ MaxJumlah \in Nat \ {0}
    /\ MaxStok \in Nat
    /\ MaxTerbit \in Nat
    /\ Metode \subseteq {"va", "wallet", "gerai"}
    /\ KlienTertib \in BOOLEAN

VARIABLES
    varian,          \* varian_barang: status, hold_by, id_transaksi of each unit
    stok,            \* kategori_barang.stok
    keranjang,       \* the rows of keranjang
    terbitHapus,     \* how often a row's counters were lowered and its delete event sent
    dataCheckout,    \* checkout answers the clients hold
    tagihan,         \* the bills the gateway accepted, with what the client got
    terpakai,        \* the codes an orderly client has already acted on
    pembayaran,      \* the codes of the rows of pembayaran (a UNIQUE column)
    transaksi,       \* the rows of transaksi, in the order of their ids
    transaksiGagal,  \* the rows of transaksi_failed
    terbit,          \* transaksi ids whose create event was sent
    proses           \* what each running request has in its local variables

klien == <<dataCheckout, tagihan, terpakai>>
buku  == <<pembayaran, transaksi, transaksiGagal>>
vars  == <<varian, stok, keranjang, terbitHapus, dataCheckout, tagihan, terpakai,
           pembayaran, transaksi, transaksiGagal, terbit, proses>>

-----------------------------------------------------------------------------
(* Data.                                                                    *)

StatusVarian == {"Ready", "Dipesan", "Terjual"}
TahapProses  == {"bebas", "checkout", "latarKeranjang", "batalCheckout",
                 "snap", "batalTransaksi", "latarTransaksi"}

Jumlah    == 1 .. MaxJumlah
Item      == [kategori : Kategori, jumlah : Jumlah]
DaftarItem == UNION {[1 .. n -> Item] : n \in 1 .. MaxItem}
Keranjang == Pengguna \X Kategori
Pesanan   == [pengguna : Pengguna, item : DaftarItem]
Tagihan   == [kode : Kode, metode : Metode, pengguna : Pengguna, item : DaftarItem]
BarisTransaksi == [kode : Kode, pengguna : Pengguna, kategori : Kategori, jumlah : Jumlah]

TipeVarian == [status : StatusVarian, pemegang : Pengguna \cup {TanpaPengguna},
               transaksi : Nat]
TipeJumlah == [Kategori -> Nat]
TipeProses == [tahap : TahapProses, pengguna : Pengguna \cup {TanpaPengguna},
               item : DaftarItem \cup {<< >>}, i : Nat, varian : SUBSET Varian,
               jumlah : TipeJumlah, baris : SUBSET Keranjang, nomor : SUBSET Nat]

\* (Mutant) every unit nobody has reserved is offered, the sold ones too.
SiapJualTerjual(k) == {v \in Varian : KategoriDari[v] = k /\ varian[v].status # "Dipesan"}

\* The units of category k that a read of the replica returns as Ready.
SiapJual(k) == {v \in Varian : KategoriDari[v] = k /\ varian[v].status = "Ready"}

\* The units of category k that u holds and has not paid.
Ditahan(u, k) == {v \in Varian : /\ KategoriDari[v] = k
                                 /\ varian[v].status = "Dipesan"
                                 /\ varian[v].pemegang = u}

\* The categories of a list of items.
KategoriItem(item) == {item[i].kategori : i \in DOMAIN item}

\* What LIMIT n of a query with result S may return.
Limit(S, n) == {T \in SUBSET S : \/ T = S /\ Cardinality(S) <= n
                                 \/ Cardinality(T) = n}

ProsesBebas == [tahap |-> "bebas", pengguna |-> TanpaPengguna, item |-> << >>,
                i |-> 0, varian |-> {}, jumlah |-> [k \in Kategori |-> 0],
                baris |-> {}, nomor |-> {}]

Init ==
    /\ varian = [v \in Varian |->
                    [status |-> "Ready", pemegang |-> TanpaPengguna, transaksi |-> 0]]
    /\ stok = [k \in Kategori |-> Cardinality({v \in Varian : KategoriDari[v] = k})]
    /\ keranjang = KeranjangAwal
    /\ terbitHapus = [b \in Keranjang |-> 0]
    /\ dataCheckout = {}
    /\ tagihan = {}
    /\ terpakai = {}
    /\ pembayaran = {}
    /\ transaksi = << >>
    /\ transaksiGagal = << >>
    /\ terbit = {}
    /\ proses = [p \in Proses |-> ProsesBebas]

-----------------------------------------------------------------------------
(* The client.  A buyer may send any answer it received again (a double     *)
(* click, a retry after a lost answer) unless KlienTertib, where it uses an *)
(* answer once and opens no second checkout on a category it still holds.   *)

Pakai(d) == dataCheckout' = IF KlienTertib THEN dataCheckout \ {d} ELSE dataCheckout

PakaiTagihan(t) ==
    /\ t.kode \notin terpakai
    /\ terpakai' = IF KlienTertib THEN terpakai \cup {t.kode} ELSE terpakai

BolehCheckout(u, item) ==
    KlienTertib => /\ \A k \in KategoriItem(item) : Ditahan(u, k) = {}
                   /\ \A i, j \in DOMAIN item :
                          item[i].kategori = item[j].kategori => i = j

\* The local variables of a request that starts.
Permintaan(tahap, u, item) ==
    [ProsesBebas EXCEPT !.tahap = tahap, !.pengguna = u, !.item = item, !.i = 1]

\* The loop goes to its next line with the ids and the sums per category it has.
Lanjut(p, ids, jumlah) ==
    proses' = [proses EXCEPT ![p] =
                  [proses[p] EXCEPT !.varian = ids, !.jumlah = jumlah, !.i = @ + 1]]

\* kategoriUpdates[kategori] += jumlah, for the line the loop is at.
TambahJumlah(r) == [r.jumlah EXCEPT ![r.item[r.i].kategori] = @ + r.item[r.i].jumlah]

Lepas(p) == proses' = [proses EXCEPT ![p] = ProsesBebas]

\* A request ends without its write: a read error, a rollback, a timeout, a crash.
Putus(p) ==
    /\ proses[p].tahap # "bebas"
    /\ Lepas(p)
    /\ UNCHANGED <<varian, stok, keranjang, terbitHapus, klien, buku, terbit>>

-----------------------------------------------------------------------------
(* CheckoutBarangUser.                                                      *)

\* The request is validated and its cart rows are read: Take returns at most one.
CheckoutBarangUser(p, u, item) ==
    /\ proses[p].tahap = "bebas"
    /\ BolehCheckout(u, item)
    /\ LET milik == keranjang \cap ({u} \X KategoriItem(item))
       IN  \E baris \in Limit(milik, 1) :
              proses' = [proses EXCEPT ![p] =
                            [Permintaan("checkout", u, item) EXCEPT !.baris = baris]]
    /\ UNCHANGED <<varian, stok, keranjang, terbitHapus, klien, buku, terbit>>

\* One turn of the loop: ids of Ready units for line i, as many as it asks.
CheckoutBacaVarian(p) ==
    LET r == proses[p]
        baca == SiapJual(r.item[r.i].kategori)
    IN  /\ r.tahap = "checkout"
        /\ r.i \in DOMAIN r.item
        /\ IF Cardinality(baca) < r.item[r.i].jumlah
           THEN Lepas(p)
           ELSE \E ids \in Limit(baca, r.item[r.i].jumlah) :
                   Lanjut(p, r.varian \cup ids, TambahJumlah(r))
        /\ UNCHANGED <<varian, stok, keranjang, terbitHapus, klien, buku, terbit>>

\* The write: the units are held whatever they have become since the read, the
\* counter is lowered where it is large enough, the cart rows are deleted.
TahanVarian(ids, u) ==
    [v \in Varian |-> IF v \in ids
                      THEN [varian[v] EXCEPT !.status = "Dipesan", !.pemegang = u]
                      ELSE varian[v]]

\* (Mutant) the counter is lowered without the condition stok >= ?.
KurangiStokTanpaSyarat(jumlah) == [k \in Kategori |-> stok[k] - jumlah[k]]

KurangiStok(jumlah) ==
    [k \in Kategori |-> IF stok[k] >= jumlah[k] THEN stok[k] - jumlah[k] ELSE stok[k]]

CheckoutTulis(p) ==
    LET r == proses[p]
    IN  /\ r.tahap = "checkout"
        /\ r.i \notin DOMAIN r.item
        /\ varian' = TahanVarian(r.varian, r.pengguna)
        /\ stok' = KurangiStok(r.jumlah)
        /\ keranjang' = keranjang \ ({r.pengguna} \X KategoriItem(r.item))
        /\ dataCheckout' = dataCheckout \cup {[pengguna |-> r.pengguna, item |-> r.item]}
        /\ proses' = [proses EXCEPT ![p] = [proses[p] EXCEPT !.tahap = "latarKeranjang"]]
        /\ UNCHANGED <<terbitHapus, tagihan, terpakai, buku, terbit>>

\* The transaction is rolled back; the goroutine is started all the same, before
\* the error is looked at.
CheckoutGagal(p) ==
    /\ proses[p].tahap = "checkout"
    /\ proses[p].i \notin DOMAIN proses[p].item
    /\ proses' = [proses EXCEPT ![p] = [proses[p] EXCEPT !.tahap = "latarKeranjang"]]
    /\ UNCHANGED <<varian, stok, keranjang, terbitHapus, klien, buku, terbit>>

\* The goroutine: for each row that was read the counters of the buyer, the goods
\* and the category are lowered and the delete event is sent.
LatarKeranjang(p) ==
    /\ proses[p].tahap = "latarKeranjang"
    /\ \A b \in proses[p].baris : terbitHapus[b] < MaxTerbit
    /\ terbitHapus' = [b \in Keranjang |->
                          terbitHapus[b] + (IF b \in proses[p].baris THEN 1 ELSE 0)]
    /\ Lepas(p)
    /\ UNCHANGED <<varian, stok, keranjang, klien, buku, terbit>>

-----------------------------------------------------------------------------
(* BatalCheckoutUser, called by the client and by SnapTransaksi.            *)

BatalCheckoutUser(p, d) ==
    /\ proses[p].tahap = "bebas"
    /\ Pakai(d)
    /\ proses' = [proses EXCEPT ![p] = Permintaan("batalCheckout", d.pengguna, d.item)]
    /\ UNCHANGED <<varian, stok, keranjang, terbitHapus, tagihan, terpakai, buku, terbit>>

\* One turn of the loop: at most as many held units as the line asked.
BatalBacaVarian(p) ==
    LET r == proses[p]
    IN  /\ r.tahap = "batalCheckout"
        /\ r.i \in DOMAIN r.item
        /\ \E ids \in Limit(Ditahan(r.pengguna, r.item[r.i].kategori), r.item[r.i].jumlah) :
              Lanjut(p, r.varian \cup ids, TambahJumlah(r))
        /\ UNCHANGED <<varian, stok, keranjang, terbitHapus, klien, buku, terbit>>

\* (Mutant) Updates with a struct, which skips its zero fields.
LepasVarianStruct(ids) ==
    [v \in Varian |-> IF v \in ids THEN [varian[v] EXCEPT !.status = "Ready"] ELSE varian[v]]

LepasVarian(ids) ==
    [v \in Varian |-> IF v \in ids
                      THEN [varian[v] EXCEPT !.status = "Ready", !.pemegang = TanpaPengguna]
                      ELSE varian[v]]

\* (Mutant) one unit is given back per category.
KembalikanStokSatu(jumlah) ==
    [k \in Kategori |-> IF jumlah[k] > 0 THEN stok[k] + 1 ELSE stok[k]]

\* The counter gets back what was ordered, however many units were found.
KembalikanStok(jumlah) == [k \in Kategori |-> stok[k] + jumlah[k]]

BatalTulis(p) ==
    LET r == proses[p]
    IN  /\ r.tahap = "batalCheckout"
        /\ r.i \notin DOMAIN r.item
        /\ \A k \in Kategori : KembalikanStok(r.jumlah)[k] <= MaxStok
        /\ varian' = LepasVarian(r.varian)
        /\ stok' = KembalikanStok(r.jumlah)
        /\ Lepas(p)
        /\ UNCHANGED <<keranjang, terbitHapus, klien, buku, terbit>>

-----------------------------------------------------------------------------
(* SnapTransaksi: the bill.                                                 *)

SnapTransaksi(p, d) ==
    /\ proses[p].tahap = "bebas"
    /\ Pakai(d)
    /\ proses' = [proses EXCEPT ![p] = Permintaan("snap", d.pengguna, d.item)]
    /\ UNCHANGED <<varian, stok, keranjang, terbitHapus, tagihan, terpakai, buku, terbit>>

\* A failed Snap calls BatalCheckoutUser with the answer it was given.
KeBatalCheckout(p) ==
    proses' = [proses EXCEPT ![p] =
                  Permintaan("batalCheckout", proses[p].pengguna, proses[p].item)]

\* One turn of the loop: the buyer must still hold what line i ordered.
SnapPeriksa(p) ==
    LET r == proses[p]
    IN  /\ r.tahap = "snap"
        /\ r.i \in DOMAIN r.item
        /\ IF Cardinality(Ditahan(r.pengguna, r.item[r.i].kategori)) >= r.item[r.i].jumlah
           THEN Lanjut(p, r.varian, r.jumlah)
           ELSE KeBatalCheckout(p)
        /\ UNCHANGED <<varian, stok, keranjang, terbitHapus, klien, buku, terbit>>

\* A later step fails (code, address, method, price, distance, gateway): most such
\* exits call BatalCheckoutUser; those that only return are Putus.
SnapBatal(p) ==
    /\ proses[p].tahap = "snap"
    /\ proses[p].i \notin DOMAIN proses[p].item
    /\ KeBatalCheckout(p)
    /\ UNCHANGED <<varian, stok, keranjang, terbitHapus, klien, buku, terbit>>

\* The gateway accepts an order code once; the generator has also checked that no
\* row of transaksi carries it.
SnapSelesai(p) ==
    LET r == proses[p]
    IN  /\ r.tahap = "snap"
        /\ r.i \notin DOMAIN r.item
        /\ \E kode \in Kode, metode \in Metode :
              /\ kode \notin {transaksi[n].kode : n \in DOMAIN transaksi}
              /\ kode \notin {t.kode : t \in tagihan}
              /\ tagihan' = tagihan \cup {[kode |-> kode, metode |-> metode,
                                          pengguna |-> r.pengguna, item |-> r.item]}
        /\ Lepas(p)
        /\ UNCHANGED <<varian, stok, keranjang, terbitHapus, dataCheckout, terpakai, buku, terbit>>

-----------------------------------------------------------------------------
(* BatalTransaksi: the buyer gives a bill up.                               *)

BatalTransaksi(p, t) ==
    /\ proses[p].tahap = "bebas"
    /\ PakaiTagihan(t)
    /\ proses' = [proses EXCEPT ![p] = Permintaan("batalTransaksi", t.pengguna, t.item)]
    /\ UNCHANGED <<varian, stok, keranjang, terbitHapus, dataCheckout, tagihan, buku, terbit>>

\* One turn of the loop.  Scan fills the one slice of ids from its start at each
\* line and leaves it alone when the line has no rows; the amount is assigned, so
\* the last line of a category wins.
BatalTransaksiBaca(p) ==
    LET r == proses[p]
    IN  /\ r.tahap = "batalTransaksi"
        /\ r.i \in DOMAIN r.item
        /\ \E ids \in Limit(Ditahan(r.pengguna, r.item[r.i].kategori), r.item[r.i].jumlah) :
              Lanjut(p, IF ids = {} THEN r.varian ELSE ids,
                     [r.jumlah EXCEPT ![r.item[r.i].kategori] = r.item[r.i].jumlah])
        /\ UNCHANGED <<varian, stok, keranjang, terbitHapus, klien, buku, terbit>>

BatalTransaksiTulis(p) ==
    LET r == proses[p]
    IN  /\ r.tahap = "batalTransaksi"
        /\ r.i \notin DOMAIN r.item
        /\ \A k \in Kategori : KembalikanStok(r.jumlah)[k] <= MaxStok
        /\ varian' = LepasVarian(r.varian)
        /\ stok' = KembalikanStok(r.jumlah)
        /\ Lepas(p)
        /\ UNCHANGED <<keranjang, terbitHapus, klien, buku, terbit>>

-----------------------------------------------------------------------------
(* LockTransaksi...: the bill was paid.  One transaction creates the        *)
(* payment, whose order code is UNIQUE, one transaksi per line, and sells   *)
(* every unit of the line's category the buyer holds.                       *)

BarisBaru(t) ==
    [n \in DOMAIN t.item |-> [kode |-> t.kode, pengguna |-> t.pengguna,
                              kategori |-> t.item[n].kategori, jumlah |-> t.item[n].jumlah]]

\* The first line of a category takes all its held units; the next finds none.
BarisPertama(item, k) ==
    CHOOSE i \in DOMAIN item : /\ item[i].kategori = k
                               /\ \A j \in DOMAIN item : item[j].kategori = k => i <= j

\* (Mutant) the update does not filter on hold_by.
JualVarianSemua(t) ==
    [v \in Varian |->
        IF KategoriDari[v] \in KategoriItem(t.item) /\ varian[v].status = "Dipesan"
        THEN [varian[v] EXCEPT
                 !.status = "Terjual",
                 !.transaksi = Len(transaksi) + BarisPertama(t.item, KategoriDari[v])]
        ELSE varian[v]]

JualVarian(t) ==
    [v \in Varian |->
        IF \E k \in KategoriItem(t.item) : v \in Ditahan(t.pengguna, k)
        THEN [varian[v] EXCEPT
                 !.status = "Terjual",
                 !.transaksi = Len(transaksi) + BarisPertama(t.item, KategoriDari[v])]
        ELSE varian[v]]

\* (Mutant) kode_order_sistem is not UNIQUE.
KunciTransaksiTanpaUnik(p, t) ==
    /\ proses[p].tahap = "bebas"
    /\ PakaiTagihan(t)
    /\ pembayaran' = pembayaran \cup {t.kode}
    /\ transaksi' = transaksi \o BarisBaru(t)
    /\ varian' = JualVarian(t)
    /\ proses' = [proses EXCEPT ![p] =
                     [ProsesBebas EXCEPT
                         !.tahap = "latarTransaksi",
                         !.nomor = {Len(transaksi) + n : n \in DOMAIN t.item}]]
    /\ UNCHANGED <<stok, keranjang, terbitHapus, dataCheckout, tagihan, transaksiGagal, terbit>>

\* (Mutant) the goroutine is started before the error of the transaction is looked at.
KunciTransaksiTetapTerbit(p, t) ==
    /\ proses[p].tahap = "bebas"
    /\ PakaiTagihan(t)
    /\ proses' = [proses EXCEPT ![p] =
                     [ProsesBebas EXCEPT
                         !.tahap = "latarTransaksi",
                         !.nomor = {Len(transaksi) + n : n \in DOMAIN t.item}]]
    /\ IF t.kode \in pembayaran
       THEN UNCHANGED <<pembayaran, transaksi, varian>>
       ELSE /\ pembayaran' = pembayaran \cup {t.kode}
            /\ transaksi' = transaksi \o BarisBaru(t)
            /\ varian' = JualVarian(t)
    /\ UNCHANGED <<stok, keranjang, terbitHapus, dataCheckout, tagihan, transaksiGagal, terbit>>

KunciTransaksi(p, t) ==
    /\ proses[p].tahap = "bebas"
    /\ PakaiTagihan(t)
    /\ t.kode \notin pembayaran
    /\ pembayaran' = pembayaran \cup {t.kode}
    /\ transaksi' = transaksi \o BarisBaru(t)
    /\ varian' = JualVarian(t)
    /\ proses' = [proses EXCEPT ![p] =
                     [ProsesBebas EXCEPT
                         !.tahap = "latarTransaksi",
                         !.nomor = {Len(transaksi) + n : n \in DOMAIN t.item}]]
    /\ UNCHANGED <<stok, keranjang, terbitHapus, dataCheckout, tagihan, transaksiGagal, terbit>>

LockTransaksiVa(p, t)     == t.metode = "va"     /\ KunciTransaksi(p, t)
LockTransaksiWallet(p, t) == t.metode = "wallet" /\ KunciTransaksi(p, t)
LockTransaksiGerai(p, t)  == t.metode = "gerai"  /\ KunciTransaksi(p, t)

\* The goroutine raises the counters of a new transaksi and sends its create event.
LatarTransaksi(p) ==
    /\ proses[p].tahap = "latarTransaksi"
    /\ IF proses[p].nomor = {}
       THEN Lepas(p) /\ UNCHANGED terbit
       ELSE \E n \in proses[p].nomor :
              /\ \A m \in proses[p].nomor : n <= m
              /\ terbit' = terbit \cup {n}
              /\ proses' = [proses EXCEPT ![p] = [proses[p] EXCEPT !.nomor = @ \ {n}]]
    /\ UNCHANGED <<varian, stok, keranjang, terbitHapus, klien, buku>>

-----------------------------------------------------------------------------
(* PaidFailedTransaksi...: the payment failed; it is recorded with the same *)
(* unique code.  The held units stay held.                                  *)

\* (Mutant) a failed payment is recorded without a row of pembayaran.
GagalTransaksiTanpaUnik(p, t) ==
    /\ proses[p].tahap = "bebas"
    /\ PakaiTagihan(t)
    /\ pembayaran' = pembayaran \cup {t.kode}
    /\ transaksiGagal' = transaksiGagal \o BarisBaru(t)
    /\ UNCHANGED <<varian, stok, keranjang, terbitHapus, dataCheckout, tagihan,
                   transaksi, terbit, proses>>

GagalTransaksi(p, t) ==
    /\ proses[p].tahap = "bebas"
    /\ PakaiTagihan(t)
    /\ t.kode \notin pembayaran
    /\ pembayaran' = pembayaran \cup {t.kode}
    /\ transaksiGagal' = transaksiGagal \o BarisBaru(t)
    /\ UNCHANGED <<varian, stok, keranjang, terbitHapus, dataCheckout, tagihan,
                   transaksi, terbit, proses>>

PaidFailedTransaksiVa(p, t)     == t.metode = "va"     /\ GagalTransaksi(p, t)
PaidFailedTransaksiWallet(p, t) == t.metode = "wallet" /\ GagalTransaksi(p, t)
PaidFailedTransaksiGerai(p, t)  == t.metode = "gerai"  /\ GagalTransaksi(p, t)

-----------------------------------------------------------------------------
LangkahCheckout(p) ==
    \/ \E u \in Pengguna, item \in DaftarItem : CheckoutBarangUser(p, u, item)
    \/ CheckoutBacaVarian(p)
    \/ CheckoutTulis(p)
    \/ CheckoutGagal(p)
    \/ LatarKeranjang(p)

LangkahBatal(p) ==
    \/ \E d \in dataCheckout : BatalCheckoutUser(p, d)
    \/ BatalBacaVarian(p)
    \/ BatalTulis(p)
    \/ \E t \in tagihan : BatalTransaksi(p, t)
    \/ BatalTransaksiBaca(p)
    \/ BatalTransaksiTulis(p)

LangkahSnap(p) ==
    \/ \E d \in dataCheckout : SnapTransaksi(p, d)
    \/ SnapPeriksa(p)
    \/ SnapBatal(p)
    \/ SnapSelesai(p)

LangkahBayar(p) ==
    \/ \E t \in tagihan : \/ LockTransaksiVa(p, t)
                         \/ LockTransaksiWallet(p, t)
                         \/ LockTransaksiGerai(p, t)
                         \/ PaidFailedTransaksiVa(p, t)
                         \/ PaidFailedTransaksiWallet(p, t)
                         \/ PaidFailedTransaksiGerai(p, t)
    \/ LatarTransaksi(p)

Next == \E p \in Proses : \/ LangkahCheckout(p)
                         \/ LangkahBatal(p)
                         \/ LangkahSnap(p)
                         \/ LangkahBayar(p)
                         \/ Putus(p)

Spec == Init /\ [][Next]_vars

-----------------------------------------------------------------------------
(* Properties.                                                              *)

\* Every table and every local variable holds values of its column's type.
TypeOK ==
    /\ varian \in [Varian -> TipeVarian]
    /\ stok \in [Kategori -> Nat]
    /\ keranjang \subseteq Keranjang
    /\ terbitHapus \in [Keranjang -> Nat]
    /\ dataCheckout \subseteq Pesanan
    /\ tagihan \subseteq Tagihan
    /\ terpakai \subseteq Kode
    /\ pembayaran \subseteq Kode
    /\ transaksi \in Seq(BarisTransaksi)
    /\ transaksiGagal \in Seq(BarisTransaksi)
    /\ terbit \subseteq Nat
    /\ proses \in [Proses -> TipeProses]

\* A unit is free exactly when nobody holds it: no interleaving of checkouts,
\* cancellations and payments leaves a Ready unit with a holder or a held or sold
\* unit without one.
PemegangKonsisten ==
    \A v \in Varian : varian[v].status = "Ready" <=> varian[v].pemegang = TanpaPengguna

\* A sold unit belongs to a paid transaksi of its holder, for its own category:
\* LockTransaksi never sells a buyer a unit another buyer holds or a unit of
\* goods that are not on the bill, whatever ran between Snap and the payment.
TerjualMilikPembeli ==
    \A v \in Varian : varian[v].status = "Terjual" =>
        /\ varian[v].transaksi \in DOMAIN transaksi
        /\ transaksi[varian[v].transaksi].pengguna = varian[v].pemegang
        /\ transaksi[varian[v].transaksi].kategori = KategoriDari[v]

\* The rows a code has in a table.
BarisKode(tabel, kode) == {n \in DOMAIN tabel : tabel[n].kode = kode}

\* A bill is booked once: however often and from however many requests the client
\* reports its payment, the code has either no transaksi or one per line.
BayarSekali ==
    \A t \in tagihan :
        \A tabel \in {transaksi, transaksiGagal} :
            Cardinality(BarisKode(tabel, t.kode)) \in {0, Len(t.item)}

\* A bill is never booked both as paid and as failed.
LunasAtauGagal ==
    \A m \in DOMAIN transaksi, n \in DOMAIN transaksiGagal :
        transaksi[m].kode # transaksiGagal[n].kode

\* The create event of a transaksi is sent only once its row is committed.
TerbitSetelahKomit == terbit \subseteq DOMAIN transaksi

\* The delete event of a cart row is sent only once the row is gone (README.md:46,
\* events are published after the operation is finished).
HapusSetelahSelesai ==
    \A b \in Keranjang : terbitHapus[b] > 0 => b \notin keranjang

\* The counter of a category never hides a unit for sale, and is the number of units for
\* sale as long as no bill has several lines: BatalTransaksi gives the counters what all
\* lines ordered, but frees the units of the last line only.
StokSesuai ==
    \A k \in Kategori :
        /\ stok[k] >= Cardinality(SiapJual(k))
        /\ (\A t \in tagihan : Len(t.item) = 1) => stok[k] = Cardinality(SiapJual(k))

\* A paid transaksi has exactly the units it was paid for.
UnitTerpenuhi ==
    \A n \in DOMAIN transaksi :
        transaksi[n].jumlah = Cardinality({v \in Varian : /\ varian[v].status = "Terjual"
                                                         /\ varian[v].transaksi = n})

\* A sold unit stays sold to the same transaksi: no later checkout takes it over.
TerjualTetap ==
    [][\A v \in Varian : varian[v].status = "Terjual" => varian'[v] = varian[v]]_vars
=============================================================================
