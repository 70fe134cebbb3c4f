---------------------------- MODULE SiklusPesanan ----------------------------
(***************************************************************************)
(* An order from its payment to its arrival: PesananSeller and              *)
(* KurirPengiriman composed.  They share transaksi.status, and the delivery *)
(* row that KirimOrderTransaksi creates is the one a courier brings away.   *)
(* Each keeps its own actions; what the composition adds is that only a     *)
(* delivery whose row is committed can come onto a bid.                     *)
(***************************************************************************)
EXTENDS PesananSeller

CONSTANTS Ekspedisi, Kurir, ProsesKurir, MaxSlot, BatasKunci, MaxBid, MaxBayar, MaxJejak

VARIABLES
    kiriman,         \* the status of an order's delivery, "Waiting" until a courier has it
    statusBid, bid, jadwal, jejak, dibayar, tercatat,   \* as in KurirPengiriman
    prosesKurir      \* the requests of couriers

varsKurir == <<kiriman, statusBid, bid, jadwal, jejak, dibayar, tercatat, prosesKurir>>
varsPesanan == <<vars, varsKurir>>

StatusOrder == [t \in Transaksi |-> transaksi[t].status]

Antar == INSTANCE KurirPengiriman WITH
             Pengiriman <- Transaksi, Proses <- ProsesKurir, KurirTertib <- SellerTertib,
             transaksi <- StatusOrder, pengiriman <- kiriman, proses <- prosesKurir

ASSUME SiklusAssumption == Antar!KurirAssumption

InitKurir ==
    /\ kiriman = [t \in Transaksi |-> "Waiting"]
    /\ statusBid = [k \in Kurir |-> "Off"]
    /\ bid = << >>
    /\ jadwal = [t \in Transaksi |-> Antar!TanpaJadwal]
    /\ jejak = [t \in Transaksi |-> 0]
    /\ dibayar = [t \in Transaksi |-> [w \in Antar!Penerima |-> 0]]
    /\ tercatat = [t \in Transaksi |-> 0]
    /\ prosesKurir = [p \in ProsesKurir |-> Antar!ProsesBebas]

\* The orders that have a delivery row.
Diserahkan == {pengiriman[n].transaksi : n \in DOMAIN pengiriman}

\* A step of a courier: it writes the status of at most one order, and every delivery on a
\* bid has its row.
LangkahKurir ==
    /\ \/ UNCHANGED transaksi
       \/ \E t \in Transaksi : \E s \in StatusTransaksi \ {transaksi[t].status} :
             transaksi' = [transaksi EXCEPT ![t].status = s]
    /\ Antar!Next
    /\ \A t \in Transaksi : jadwal'[t] # Antar!TanpaJadwal => t \in Diserahkan
    /\ UNCHANGED <<ambang, pengiriman, latar, terbitKirim, proses>>

NextPesanan == \/ Next /\ UNCHANGED varsKurir
               \/ LangkahKurir

-----------------------------------------------------------------------------
(* Properties.                                                              *)

\* An order has a delivery exactly from its hand over on, and one only: no courier brings
\* away what no seller has handed over, and no order is lost between the two.
SatuKiriman ==
    /\ \A m, n \in DOMAIN pengiriman : pengiriman[m].transaksi = pengiriman[n].transaksi => m = n
    /\ \A t \in Transaksi :
          t \in Diserahkan <=> transaksi[t].status \in {"Waiting", "Dikirim", "Selesai"}

\* The scheduler row, the delivery, the order, the trail and the payouts of a handed over
\* order tell the same story; an order that is not has none.
CeritaKiriman ==
    \A t \in Transaksi :
        IF t \in Diserahkan
        THEN <<jadwal[t].status, kiriman[t], transaksi[t].status, jejak[t], tercatat[t]>>
                \in Antar!Cerita(t)
        ELSE jadwal[t] = Antar!TanpaJadwal /\ kiriman[t] = "Waiting" /\ tercatat[t] = 0
=============================================================================
