---------------------------- MODULE PesananSeller ----------------------------
(***************************************************************************)
(* What a seller does with a paid order: approve it, hand it over for       *)
(* delivery or refuse it.  The handlers are those of                        *)
(* seller_services/transaksi_services/engagement_transaksi.go.              *)
(*                                                                          *)
(* As in Reservasi every read of a handler is a step and its transaction is *)
(* a step, except in KirimOrderTransaksi, whose transaction starts a        *)
(* goroutine before it commits: there the statements and the commit are two *)
(* steps.  The rows they touch are locked in between, so the writes may be  *)
(* shown at the commit.                                                     *)
(*                                                                          *)
(* Abstractions.  A request names an order of its own seller; any other is  *)
(* refused by the read.  The order's delivery tables pengiriman and         *)
(* pengiriman_ekspedisi are one table, since IsEkspedisi fixes which of     *)
(* the two an order uses.  The update events that ApproveOrderTransaksi and *)
(* UnApproveOrderTransaksi send after their commit change no table and are  *)
(* left out.                                                                *)
(***************************************************************************)
EXTENDS Integers, Sequences, FiniteSets, Functions

CONSTANTS
    Transaksi,       \* the paid orders
    Seller,
    SellerDari,      \* the seller of each order
    Proses,          \* requests the server runs at the same time
    MaxAmbang,       \* bound on the counter total of a threshold row
    MaxLatar,        \* bound on the goroutines an order has waiting
    MaxTerbit,       \* bound on the create events of an order's deliveries
    SellerTertib     \* TRUE: the seller answers each order one request at a time

ASSUME PesananAssumption ==
    /\ SellerDari \in [Transaksi -> Seller]
    /\ MaxAmbang \in Nat
    /\ MaxLatar \in Nat
    /\ MaxTerbit \in Nat
    /\ SellerTertib \in BOOLEAN

VARIABLES
    transaksi,       \* status and dibatalkan_oleh of each order
    ambang,          \* the rows of threshold_order_seller, in the order of their ids
    pengiriman,      \* the rows of the delivery tables
    latar,           \* goroutines of KirimOrderTransaksi still to run
    terbitKirim,     \* how many create events of a delivery were sent
    proses           \* what each running request has in its local variables

vars == <<transaksi, ambang, pengiriman, latar, terbitKirim, proses>>

-----------------------------------------------------------------------------
StatusTransaksi == {"Dibayar", "Diproses", "Waiting", "Dikirim", "Selesai", "Dibatalkan"}
TahapProses == {"bebas", "setuju", "upThreshold", "buatAmbang", "setujuTulis",
                "kirim", "kirimTulis", "kirimKomit", "tolakTulis"}

Tanpa == "tanpa"
BarisTransaksi  == [status : StatusTransaksi, dibatalkanOleh : {Tanpa, "Seller"}]
BarisAmbang     == [seller : Seller, total : Int, diproses : Int, waiting : Int]
BarisPengiriman == [transaksi : Transaksi, status : {"Waiting"}]
TipeProses      == [tahap : TahapProses, transaksi : Transaksi \cup {Tanpa}, ambang : Nat]

ProsesBebas == [tahap |-> "bebas", transaksi |-> Tanpa, ambang |-> 0]

\* The threshold rows of order t's seller.
AmbangSeller(t) == {n \in DOMAIN ambang : ambang[n].seller = SellerDari[t]}

Init ==
    /\ transaksi = [t \in Transaksi |-> [status |-> "Dibayar", dibatalkanOleh |-> Tanpa]]
    /\ ambang = << >>
    /\ pengiriman = << >>
    /\ latar = [t \in Transaksi |-> 0]
    /\ terbitKirim = [t \in Transaksi |-> 0]
    /\ proses = [p \in Proses |-> ProsesBebas]

\* An orderly seller waits for the answer about an order before the next request
\* about it.
Giliran(t) == SellerTertib => \A q \in Proses : proses[q].transaksi # t

Mulai(p, tahap, t) ==
    /\ proses[p].tahap = "bebas"
    /\ Giliran(t)
    /\ proses' = [proses EXCEPT ![p] =
                     [tahap |-> tahap, transaksi |-> t, ambang |-> 0]]

Ke(p, tahap) == proses' = [proses EXCEPT ![p] = [proses[p] EXCEPT !.tahap = tahap]]

\* A request goes on with the id of one of its seller's threshold rows.
PilihAmbang(p, tahap) ==
    \E n \in AmbangSeller(proses[p].transaksi) :
        proses' = [proses EXCEPT ![p] = [proses[p] EXCEPT !.tahap = tahap, !.ambang = n]]

Lepas(p) == proses' = [proses EXCEPT ![p] = ProsesBebas]

\* A request ends without its write: a read error, a rollback, a timeout, a crash.
Putus(p) ==
    /\ proses[p].tahap # "bebas"
    /\ Lepas(p)
    /\ UNCHANGED <<transaksi, ambang, pengiriman, latar, terbitKirim>>

-----------------------------------------------------------------------------
(* ApproveOrderTransaksi.  The order is read by its id and its seller, in   *)
(* any status; an orderly seller is only offered the orders that are paid.  *)

ApproveOrderTransaksi(p, t) ==
    /\ SellerTertib => transaksi[t].status = "Dibayar"
    /\ Mulai(p, "setuju", t)
    /\ UNCHANGED <<transaksi, ambang, pengiriman, latar, terbitKirim>>

\* (Mutant) the request goes on with id 0 when there is no row.
SetujuBacaAmbangNol(p) ==
    /\ proses[p].tahap = "setuju"
    /\ IF AmbangSeller(proses[p].transaksi) = {}
       THEN Ke(p, "setujuTulis")
       ELSE PilihAmbang(p, "setujuTulis")
    /\ UNCHANGED <<transaksi, ambang, pengiriman, latar, terbitKirim>>

\* The id of the seller's threshold row is read, and read again after UpThreshold.
SetujuBacaAmbang(p) ==
    /\ proses[p].tahap = "setuju"
    /\ IF AmbangSeller(proses[p].transaksi) = {}
       THEN Ke(p, "upThreshold")
       ELSE PilihAmbang(p, "setujuTulis")
    /\ UNCHANGED <<transaksi, ambang, pengiriman, latar, terbitKirim>>

\* UpThreshold looks on the master and creates the row if there is none: two statements.
UpThreshold(p) ==
    /\ proses[p].tahap = "upThreshold"
    /\ Ke(p, IF AmbangSeller(proses[p].transaksi) = {} THEN "buatAmbang" ELSE "setuju")
    /\ UNCHANGED <<transaksi, ambang, pengiriman, latar, terbitKirim>>

UpThresholdBuat(p) ==
    /\ proses[p].tahap = "buatAmbang"
    /\ ambang' = Append(ambang, [seller |-> SellerDari[proses[p].transaksi],
                                 total |-> 0, diproses |-> 0, waiting |-> 0])
    /\ Ke(p, "setuju")
    /\ UNCHANGED <<transaksi, pengiriman, latar, terbitKirim>>

\* (Mutant) the counter of approved orders is left alone.
AmbangSetujuTotal(n) ==
    [ambang EXCEPT ![n] = [ambang[n] EXCEPT !.total = @ + 1]]

AmbangSetuju(n) ==
    [ambang EXCEPT ![n] = [ambang[n] EXCEPT !.total = @ + 1, !.diproses = @ + 1]]

SetujuTulis(p) ==
    LET r == proses[p]
    IN  /\ r.tahap = "setujuTulis"
        /\ ambang[r.ambang].total < MaxAmbang
        /\ transaksi' = [transaksi EXCEPT ![r.transaksi] =
                            [transaksi[r.transaksi] EXCEPT !.status = "Diproses"]]
        /\ ambang' = AmbangSetuju(r.ambang)
        /\ Lepas(p)
        /\ UNCHANGED <<pengiriman, latar, terbitKirim>>

-----------------------------------------------------------------------------
(* KirimOrderTransaksi.                                                     *)

\* (Mutant) the order is read in any status.
KirimOrderTransaksiTanpaStatus(p, t) ==
    /\ Mulai(p, "kirim", t)
    /\ UNCHANGED <<transaksi, ambang, pengiriman, latar, terbitKirim>>

KirimOrderTransaksi(p, t) ==
    /\ transaksi[t].status = "Diproses"
    /\ Mulai(p, "kirim", t)
    /\ UNCHANGED <<transaksi, ambang, pengiriman, latar, terbitKirim>>

\* Without a threshold row the request is refused (Putus).
KirimBacaAmbang(p) ==
    /\ proses[p].tahap = "kirim"
    /\ PilihAmbang(p, "kirimTulis")
    /\ UNCHANGED <<transaksi, ambang, pengiriman, latar, terbitKirim>>

\* The statements of the transaction; its last one starts the goroutine.
KirimTulis(p) ==
    /\ proses[p].tahap = "kirimTulis"
    /\ latar[proses[p].transaksi] < MaxLatar
    /\ latar' = [latar EXCEPT ![proses[p].transaksi] = @ + 1]
    /\ Ke(p, "kirimKomit")
    /\ UNCHANGED <<transaksi, ambang, pengiriman, terbitKirim>>

\* (Mutant) only the counter of approved orders is lowered.
AmbangKirimTurun(n) ==
    [ambang EXCEPT ![n] = [ambang[n] EXCEPT !.diproses = @ - 1]]

AmbangKirim(n) ==
    [ambang EXCEPT ![n] = [ambang[n] EXCEPT !.diproses = @ - 1, !.waiting = @ + 1]]

KirimKomit(p) ==
    LET r == proses[p]
    IN  /\ r.tahap = "kirimKomit"
        /\ transaksi' = [transaksi EXCEPT ![r.transaksi] =
                            [transaksi[r.transaksi] EXCEPT !.status = "Waiting"]]
        /\ ambang' = AmbangKirim(r.ambang)
        /\ pengiriman' = Append(pengiriman, [transaksi |-> r.transaksi, status |-> "Waiting"])
        /\ Lepas(p)
        /\ UNCHANGED <<latar, terbitKirim>>

\* The goroutine raises the counters of the seller, the order and the addresses and
\* sends the create event; or its context expires first.
LatarKirim(t) ==
    /\ latar[t] > 0
    /\ latar' = [latar EXCEPT ![t] = @ - 1]
    /\ \/ terbitKirim[t] < MaxTerbit /\ terbitKirim' = [terbitKirim EXCEPT ![t] = @ + 1]
       \/ UNCHANGED terbitKirim
    /\ UNCHANGED <<transaksi, ambang, pengiriman, proses>>

-----------------------------------------------------------------------------
(* UnApproveOrderTransaksi: read in status Dibayar, written by id alone.    *)

UnApproveOrderTransaksi(p, t) ==
    /\ transaksi[t].status = "Dibayar"
    /\ Mulai(p, "tolakTulis", t)
    /\ UNCHANGED <<transaksi, ambang, pengiriman, latar, terbitKirim>>

TolakTulis(p) ==
    LET r == proses[p]
    IN  /\ r.tahap = "tolakTulis"
        /\ transaksi' = [transaksi EXCEPT ![r.transaksi] =
                            [status |-> "Dibatalkan", dibatalkanOleh |-> "Seller"]]
        /\ Lepas(p)
        /\ UNCHANGED <<ambang, pengiriman, latar, terbitKirim>>

-----------------------------------------------------------------------------
Langkah(p) ==
    \/ \E t \in Transaksi : \/ ApproveOrderTransaksi(p, t)
                            \/ KirimOrderTransaksi(p, t)
                            \/ UnApproveOrderTransaksi(p, t)
    \/ SetujuBacaAmbang(p)
    \/ UpThreshold(p)
    \/ UpThresholdBuat(p)
    \/ SetujuTulis(p)
    \/ KirimBacaAmbang(p)
    \/ KirimTulis(p)
    \/ KirimKomit(p)
    \/ TolakTulis(p)
    \/ Putus(p)

Next == \/ \E p \in Proses : Langkah(p)
        \/ \E t \in Transaksi : LatarKirim(t)

Spec == Init /\ [][Next]_vars

-----------------------------------------------------------------------------
(* Properties.                                                              *)

\* Every table and every local variable holds values of its column's type.
TypeOK ==
    /\ transaksi \in [Transaksi -> BarisTransaksi]
    /\ ambang \in Seq(BarisAmbang)
    /\ pengiriman \in Seq(BarisPengiriman)
    /\ latar \in [Transaksi -> Nat]
    /\ terbitKirim \in [Transaksi -> Nat]
    /\ proses \in [Proses -> TipeProses]
    /\ \A p \in Proses : proses[p].tahap \in {"setujuTulis", "kirimTulis", "kirimKomit"} =>
          proses[p].ambang \in DOMAIN ambang

\* The orders the threshold rows of a seller count as handed over, and as in process.
WaitingSeller(s) ==
    SumFunction([n \in DOMAIN ambang |-> IF ambang[n].seller = s THEN ambang[n].waiting ELSE 0])
DiprosesSeller(s) ==
    SumFunction([n \in DOMAIN ambang |-> IF ambang[n].seller = s THEN ambang[n].diproses ELSE 0])

\* An order a threshold row has counted is either still in process or was handed over, and
\* the rows of a seller count as many of the latter as the seller has deliveries: whatever
\* requests overlap, and whichever of a seller's rows they picked, no order is lost or
\* invented by the counters.
AmbangSeimbang ==
    /\ \A n \in DOMAIN ambang : ambang[n].diproses + ambang[n].waiting = ambang[n].total
    /\ \A s \in Seller :
          WaitingSeller(s) = Cardinality({n \in DOMAIN pengiriman : SellerDari[pengiriman[n].transaksi] = s})

\* A seller's rows count as many approved orders as wait to be handed over.
DiprosesSesuaiStatus ==
    \A s \in Seller :
        DiprosesSeller(s) =
            Cardinality({t \in Transaksi : /\ SellerDari[t] = s
                                           /\ transaksi[t].status = "Diproses"})

\* An order is cancelled only while it is paid and not yet approved (UpEnums.go:256).
BatalHanyaDibayar ==
    [][\A t \in Transaksi :
          transaksi'[t].status = "Dibatalkan" =>
              transaksi[t].status \in {"Dibayar", "Dibatalkan"}]_vars

\* The orders of an orderly seller live as the status enum promises.
Siklus == INSTANCE SiklusTransaksi
              WITH status <- [t \in Transaksi |-> transaksi[t].status]
SiklusSpec == Siklus!Spec
=============================================================================
