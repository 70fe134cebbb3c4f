--------------------------- MODULE KurirPengiriman ---------------------------
(***************************************************************************)
(* A courier opens a bid, gets deliveries scheduled on it, locks them, and  *)
(* brings each of them to its buyer (or to the agent of an expedition); the *)
(* arrival pays the seller, the courier and the system through Flip.  The   *)
(* handlers are those of                                                    *)
(* kurir_services/pengiriman_services/engagement_pengiriman.go.             *)
(*                                                                          *)
(* Every read of a handler that decides something is a step, every call of  *)
(* Flip is a step, and its transaction is a step.                           *)
(*                                                                          *)
(* Abstractions.  A delivery stands for its row in pengiriman or            *)
(* pengiriman_ekspedisi and for its order; the constant Ekspedisi says      *)
(* which of the two, so the NonEks and the Eks handler of an operation are  *)
(* one action.  The scheduler tables are the function jadwal: a delivery is *)
(* on at most one bid (the check before the insert).  Positions, vehicles   *)
(* and texts are left out, hence UpdatePosisiBidKurir and the two           *)
(* UpdateInformasiPerjalanan handlers, which write nothing else.            *)
(* AmbilPengirimanNonEks and AmbilPengirimanEks refuse every request (they  *)
(* compare the capitalised JenisPengiriman with lower case), as does        *)
(* NonaktifkanBidKurir (no bid has the status Idle): they change nothing.   *)
(* Deliveries therefore come onto a bid only from the automatic scheduler   *)
(* outside this repository.                                                 *)
(***************************************************************************)
EXTENDS Integers, Sequences, FiniteSets

CONSTANTS
    Pengiriman,      \* the deliveries, one for each order
    Ekspedisi,       \* those an expedition takes over
    Kurir,           \* the verified couriers
    Proses,          \* requests the server runs at the same time
    MaxSlot,         \* maksimal_bid_kurir_* of the active KebijakanSistem
    BatasKunci,      \* the 8 of LockSiapAntarBidKurir
    MaxBid,          \* bound on the bids
    MaxBayar,        \* bound on the disbursements to one recipient for one delivery
    MaxJejak,        \* bound on the trail rows of one delivery
    KurirTertib      \* TRUE: a courier waits for the answer to each request

ASSUME KurirAssumption ==
    /\ Ekspedisi \subseteq Pengiriman
    /\ IsFiniteSet(Proses)
    /\ MaxSlot \in Nat
    /\ BatasKunci \in Nat
    /\ MaxBid \in Nat
    /\ MaxBayar \in Nat
    /\ MaxJejak \in Nat
    /\ KurirTertib \in BOOLEAN

VARIABLES
    statusBid,       \* kurir.status_bid
    bid,             \* the rows of bid_kurir_data, in the order of their ids
    jadwal,          \* the row of a delivery in the scheduler tables
    pengiriman,      \* the status of a delivery
    transaksi,       \* the status of its order
    jejak,           \* how many rows the delivery has in jejak_pengiriman(_ekspedisi)
    dibayar,         \* disbursements Flip has accepted, for each delivery and recipient
    tercatat,        \* how often the payouts of a delivery were saved
    proses           \* what each running request has in its local variables

vars == <<statusBid, bid, jadwal, pengiriman, transaksi, jejak, dibayar, tercatat, proses>>

-----------------------------------------------------------------------------
StatusKurir      == {"Idle", "OnDelivery", "Off"}
StatusBidData    == {"Mengumpulkan", "Siap Antar"}
StatusJadwal     == {"Wait", "Ambil", "Kirim", "Finish"}
StatusPengiriman == {"Waiting", "Picked Up", "Diperjalanan", "Sampai", "Dikirim", "Sampai Agent"}
StatusTransaksi  == {"Waiting", "Dikirim", "Selesai"}
Penerima         == {"Seller", "Kurir", "Sistem"}

TahapProses == {"bebas", "aktifTulis", "kunciBaca", "kunciTulis", "ambilTulis",
                "kirimTulis", "sampai", "bayar", "cek", "sampaiTulis"}

TanpaJadwal == [bid |-> 0, status |-> "tanpa"]

BarisBid    == [kurir : Kurir, eks : BOOLEAN, slot : Int, status : StatusBidData]
BarisJadwal == [bid : Nat \ {0}, status : StatusJadwal] \cup {TanpaJadwal}

\* final is the local variable of that name in the two Sampai handlers, set by a
\* goroutine; urut counts the calls of Flip, sah the ones it accepted.
TipeProses  == [tahap : TahapProses, kurir : Kurir \cup {"tanpa"}, eks : BOOLEAN,
                bid : Nat, kirim : SUBSET Pengiriman, slot : Int,
                final : {"belum", "ya", "tidak"}, urut : Nat, sah : SUBSET Penerima]

ProsesBebas == [tahap |-> "bebas", kurir |-> "tanpa", eks |-> FALSE, bid |-> 0,
                kirim |-> {}, slot |-> 0, final |-> "belum", urut |-> 1, sah |-> {}]

\* The deliveries scheduled on bid n, and those of them in a status.
Terjadwal(n)        == {d \in Pengiriman : jadwal[d].bid = n}
TerjadwalPada(n, s) == {d \in Terjadwal(n) : jadwal[d].status = s}

\* Whom the arrival of a delivery pays, in the order of the calls.
DaftarPenerima(d) == IF d \in Ekspedisi THEN <<"Kurir">> ELSE <<"Seller", "Kurir", "Sistem">>

Init ==
    /\ statusBid = [k \in Kurir |-> "Off"]
    /\ bid = << >>
    /\ jadwal = [d \in Pengiriman |-> TanpaJadwal]
    /\ pengiriman = [d \in Pengiriman |-> "Waiting"]
    /\ transaksi = [d \in Pengiriman |-> "Waiting"]
    /\ jejak = [d \in Pengiriman |-> 0]
    /\ dibayar = [d \in Pengiriman |-> [w \in Penerima |-> 0]]
    /\ tercatat = [d \in Pengiriman |-> 0]
    /\ proses = [p \in Proses |-> ProsesBebas]

Giliran(k) == KurirTertib => \A q \in Proses : proses[q].kurir # k

\* A courier's request begins, about a bid and some deliveries.
Mulai(p, tahap, k, n, kirim) ==
    /\ proses[p].tahap = "bebas"
    /\ Giliran(k)
    /\ proses' = [proses EXCEPT ![p] = [ProsesBebas EXCEPT !.tahap = tahap, !.kurir = k,
                                                          !.bid = n, !.kirim = kirim]]

Ke(p, tahap) == proses' = [proses EXCEPT ![p].tahap = tahap]

Lepas(p) == proses' = [proses EXCEPT ![p] = ProsesBebas]

\* A request ends without its write: a read error, a refusal, a rollback, a crash.
Putus(p) ==
    /\ proses[p].tahap # "bebas"
    /\ Lepas(p)
    /\ UNCHANGED <<statusBid, bid, jadwal, pengiriman, transaksi, jejak, dibayar, tercatat>>

-----------------------------------------------------------------------------
(* AktifkanBidKurir.  The session in Redis may still say that the courier is *)
(* Off, so the check of status_bid refuses nobody that the search for an     *)
(* earlier bid would not refuse; no handler ever ends a bid.                 *)

AktifkanBidKurir(p, k, eks) ==
    /\ \A n \in DOMAIN bid : bid[n].kurir # k
    /\ proses[p].tahap = "bebas"
    /\ Giliran(k)
    /\ proses' = [proses EXCEPT ![p] = [ProsesBebas EXCEPT !.tahap = "aktifTulis",
                                                          !.kurir = k, !.eks = eks]]
    /\ UNCHANGED <<statusBid, bid, jadwal, pengiriman, transaksi, jejak, dibayar, tercatat>>

AktifTulis(p) ==
    LET r == proses[p]
    IN  /\ r.tahap = "aktifTulis"
        /\ Len(bid) < MaxBid
        /\ bid' = Append(bid, [kurir |-> r.kurir, eks |-> r.eks, slot |-> MaxSlot,
                               status |-> "Mengumpulkan"])
        /\ statusBid' = [statusBid EXCEPT ![r.kurir] = "Idle"]
        /\ Lepas(p)
        /\ UNCHANGED <<jadwal, pengiriman, transaksi, jejak, dibayar, tercatat>>

\* The automatic scheduler puts a waiting delivery on a bid that has a slot left, as
\* the transaction of AmbilPengirimanNonEks would.
JadwalkanOtomatis(d, n) ==
    /\ jadwal[d] = TanpaJadwal
    /\ pengiriman[d] = "Waiting"
    /\ bid[n].eks = (d \in Ekspedisi)
    /\ bid[n].slot > 0
    /\ jadwal' = [jadwal EXCEPT ![d] = [bid |-> n, status |-> "Wait"]]
    /\ bid' = [bid EXCEPT ![n].slot = @ - 1]
    /\ UNCHANGED <<statusBid, pengiriman, transaksi, jejak, dibayar, tercatat, proses>>

-----------------------------------------------------------------------------
(* LockSiapAntarBidKurir: the bid is read, then the ids of at most           *)
(* BatasKunci - slot_tersisa of its waiting rows (a negative limit is none), *)
(* then those rows are written by id whatever became of them.                *)

LockSiapAntarBidKurir(p, n) ==
    /\ proses[p].tahap = "bebas"
    /\ Giliran(bid[n].kurir)
    /\ proses' = [proses EXCEPT ![p] = [ProsesBebas EXCEPT !.tahap = "kunciBaca", !.bid = n,
                                            !.kurir = bid[n].kurir, !.slot = bid[n].slot]]
    /\ UNCHANGED <<statusBid, bid, jadwal, pengiriman, transaksi, jejak, dibayar, tercatat>>

KunciBaca(p) ==
    LET r == proses[p]
        batas == BatasKunci - r.slot
        tunggu == TerjadwalPada(r.bid, "Wait")
    IN  /\ r.tahap = "kunciBaca"
        /\ \E ids \in SUBSET tunggu :
              /\ ids # {}
              /\ IF batas < 0 \/ Cardinality(tunggu) <= batas
                 THEN ids = tunggu
                 ELSE Cardinality(ids) = batas
              /\ proses' = [proses EXCEPT ![p].tahap = "kunciTulis", ![p].kirim = ids]
        /\ UNCHANGED <<statusBid, bid, jadwal, pengiriman, transaksi, jejak, dibayar, tercatat>>

\* An update by id: of the rows that still exist.
TulisJadwal(kirim, status) ==
    jadwal' = [d \in Pengiriman |->
                  IF d \in kirim /\ jadwal[d] # TanpaJadwal
                  THEN [jadwal[d] EXCEPT !.status = status]
                  ELSE jadwal[d]]

KunciTulis(p) ==
    LET r == proses[p]
    IN  /\ r.tahap = "kunciTulis"
        /\ TulisJadwal(r.kirim, "Ambil")
        /\ bid' = [bid EXCEPT ![r.bid].status = "Siap Antar"]
        /\ statusBid' = [statusBid EXCEPT ![r.kurir] = "OnDelivery"]
        /\ Lepas(p)
        /\ UNCHANGED <<pengiriman, transaksi, jejak, dibayar, tercatat>>

-----------------------------------------------------------------------------
(* PickedUpPengirimanNonEks and PickedUpPengirimanEks.                       *)

\* (Mutant) the row is read in any status.
PickedUpTanpaStatus(p, n, d) ==
    /\ jadwal[d].bid = n
    /\ Mulai(p, "ambilTulis", bid[n].kurir, n, {d})
    /\ UNCHANGED <<statusBid, bid, jadwal, pengiriman, transaksi, jejak, dibayar, tercatat>>

PickedUp(p, n, d) ==
    /\ jadwal[d] = [bid |-> n, status |-> "Ambil"]
    /\ Mulai(p, "ambilTulis", bid[n].kurir, n, {d})
    /\ UNCHANGED <<statusBid, bid, jadwal, pengiriman, transaksi, jejak, dibayar, tercatat>>

\* (Mutant) the order keeps its status.
AmbilTulisTanpaTransaksi(p) ==
    /\ proses[p].tahap = "ambilTulis"
    /\ \E d \in proses[p].kirim :
          /\ jejak[d] < MaxJejak
          /\ TulisJadwal({d}, "Kirim")
          /\ pengiriman' = [pengiriman EXCEPT ![d] = "Picked Up"]
          /\ jejak' = [jejak EXCEPT ![d] = @ + 1]
    /\ Lepas(p)
    /\ UNCHANGED <<statusBid, bid, transaksi, dibayar, tercatat>>

AmbilTulis(p) ==
    /\ proses[p].tahap = "ambilTulis"
    /\ \E d \in proses[p].kirim :
          /\ jejak[d] < MaxJejak
          /\ TulisJadwal({d}, "Kirim")
          /\ pengiriman' = [pengiriman EXCEPT ![d] = "Picked Up"]
          /\ jejak' = [jejak EXCEPT ![d] = @ + 1]
          /\ transaksi' = [transaksi EXCEPT ![d] = "Dikirim"]
    /\ Lepas(p)
    /\ UNCHANGED <<statusBid, bid, dibayar, tercatat>>

-----------------------------------------------------------------------------
(* KirimPengirimanNonEks and KirimPengirimanEks.  No trail row is ever       *)
(* deleted, so when the trail is read does not matter.                       *)

KirimPengiriman(p, n, d) ==
    /\ jadwal[d] = [bid |-> n, status |-> "Kirim"]
    /\ jejak[d] > 0
    /\ Mulai(p, "kirimTulis", bid[n].kurir, n, {d})
    /\ UNCHANGED <<statusBid, bid, jadwal, pengiriman, transaksi, jejak, dibayar, tercatat>>

\* (Mutant) the delivery gets the status of the scheduler row.
KirimTulisStatusJadwal(p) ==
    /\ proses[p].tahap = "kirimTulis"
    /\ \E d \in proses[p].kirim :
          /\ TulisJadwal({d}, "Finish")
          /\ pengiriman' = [pengiriman EXCEPT ![d] = "Finish"]
    /\ Lepas(p)
    /\ UNCHANGED <<statusBid, bid, transaksi, jejak, dibayar, tercatat>>

KirimTulis(p) ==
    /\ proses[p].tahap = "kirimTulis"
    /\ \E d \in proses[p].kirim :
          /\ TulisJadwal({d}, "Finish")
          /\ pengiriman' = [pengiriman EXCEPT ![d] =
                               IF d \in Ekspedisi THEN "Dikirim" ELSE "Diperjalanan"]
    /\ Lepas(p)
    /\ UNCHANGED <<statusBid, bid, transaksi, jejak, dibayar, tercatat>>

-----------------------------------------------------------------------------
(* SampaiPengirimanNonEks and SampaiPengirimanEks.                           *)

SampaiPengiriman(p, n, d) ==
    /\ Mulai(p, "sampai", bid[n].kurir, n, {d})
    /\ UNCHANGED <<statusBid, bid, jadwal, pengiriman, transaksi, jejak, dibayar, tercatat>>

\* (Mutant) the rows that are left are compared with the wrong number.
SampaiHitungDua(p) ==
    LET r == proses[p]
    IN  /\ r.tahap \in {"sampai", "bayar"}
        /\ r.final = "belum"
        /\ \E f \in IF Cardinality(Terjadwal(r.bid)) = 2 THEN {"ya", "tidak"} ELSE {"tidak"} :
              proses' = [proses EXCEPT ![p].final = f]
        /\ UNCHANGED <<statusBid, bid, jadwal, pengiriman, transaksi, jejak, dibayar, tercatat>>

\* The goroutine that sets final, beside the other reads.  Its read may fail, and the
\* NonEks one reads whole rows into integers.
SampaiHitung(p) ==
    LET r == proses[p]
    IN  /\ r.tahap \in {"sampai", "bayar"}
        /\ r.final = "belum"
        /\ \E f \in IF Cardinality(Terjadwal(r.bid)) = 1 THEN {"ya", "tidak"} ELSE {"tidak"} :
              proses' = [proses EXCEPT ![p].final = f]
        /\ UNCHANGED <<statusBid, bid, jadwal, pengiriman, transaksi, jejak, dibayar, tercatat>>

SampaiBaca(p) ==
    LET r == proses[p]
    IN  /\ r.tahap = "sampai"
        /\ \E d \in r.kirim : jadwal[d] = [bid |-> r.bid, status |-> "Finish"] /\ jejak[d] > 0
        /\ Ke(p, "bayar")
        /\ UNCHANGED <<statusBid, bid, jadwal, pengiriman, transaksi, jejak, dibayar, tercatat>>

\* The request goes on after a call of Flip: to the next recipient, or to the check.
Berikut(p, d, sah) ==
    LET r == proses[p]
        tahap == IF r.urut < Len(DaftarPenerima(d)) THEN "bayar" ELSE "cek"
    IN  proses' = [proses EXCEPT ![p] =
                      [r EXCEPT !.tahap = tahap, !.urut = @ + 1, !.sah = sah]]

\* ReqCreateDisbursment: every call has an idempotency key of its own.  Flip accepts and
\* the answer arrives; it accepts and the answer is lost, which ends the request; or it
\* refuses with 401 or 422, which counts as an answer.  (No answer at all is Putus.)
Disbursment(p) ==
    LET r == proses[p]
    IN  /\ r.tahap = "bayar"
        /\ r.final # "belum"
        /\ \E d \in r.kirim :
              LET w == DaftarPenerima(d)[r.urut]
              IN  \/ /\ dibayar[d][w] < MaxBayar
                     /\ dibayar' = [dibayar EXCEPT ![d][w] = @ + 1]
                     /\ Berikut(p, d, r.sah \cup {w}) \/ Lepas(p)
                  \/ Berikut(p, d, r.sah) /\ UNCHANGED dibayar
        /\ UNCHANGED <<statusBid, bid, jadwal, pengiriman, transaksi, jejak, tercatat>>

\* (Mutant) the answers of Flip are not looked at.
SampaiCekTanpaSah(p) ==
    LET r == proses[p]
    IN  /\ r.tahap = "cek"
        /\ \E d \in r.kirim : jadwal[d] = [bid |-> r.bid, status |-> "Finish"]
        /\ Ke(p, "sampaiTulis")
        /\ UNCHANGED <<statusBid, bid, jadwal, pengiriman, transaksi, jejak, dibayar, tercatat>>

\* The answers to the seller and the courier must be payments (a refusal of the system's
\* share has no payment to copy and panics), and the row is read again.
SampaiCek(p) ==
    LET r == proses[p]
    IN  /\ r.tahap = "cek"
        /\ \E d \in r.kirim :
              /\ \A i \in DOMAIN DaftarPenerima(d) : DaftarPenerima(d)[i] \in r.sah
              /\ jadwal[d] = [bid |-> r.bid, status |-> "Finish"]
        /\ Ke(p, "sampaiTulis")
        /\ UNCHANGED <<statusBid, bid, jadwal, pengiriman, transaksi, jejak, dibayar, tercatat>>

\* The row is deleted if it is still as it was read; everything else is written anyway.
HapusJadwal(d) ==
    jadwal' = [jadwal EXCEPT ![d] = IF @.status = "Finish" THEN TanpaJadwal ELSE @]

BidSampai(r) ==
    LET status == IF r.final = "ya" THEN "Mengumpulkan" ELSE bid[r.bid].status
    IN  [bid EXCEPT ![r.bid].slot = @ + 1, ![r.bid].status = status]

\* (Mutant) the payouts are not part of the transaction.
SampaiTulisTanpaCatat(p) ==
    LET r == proses[p]
    IN  /\ r.tahap = "sampaiTulis"
        /\ \E d \in r.kirim :
              /\ HapusJadwal(d)
              /\ pengiriman' = [pengiriman EXCEPT ![d] =
                                   IF d \in Ekspedisi THEN "Sampai Agent" ELSE "Sampai"]
              /\ transaksi' = [transaksi EXCEPT ![d] = IF d \in Ekspedisi THEN @ ELSE "Selesai"]
        /\ bid' = BidSampai(r)
        /\ statusBid' = [statusBid EXCEPT ![r.kurir] = IF r.final = "ya" THEN "Idle" ELSE @]
        /\ Lepas(p)
        /\ UNCHANGED <<jejak, dibayar, tercatat>>

SampaiTulis(p) ==
    LET r == proses[p]
    IN  /\ r.tahap = "sampaiTulis"
        /\ \E d \in r.kirim :
              /\ HapusJadwal(d)
              /\ pengiriman' = [pengiriman EXCEPT ![d] =
                                   IF d \in Ekspedisi THEN "Sampai Agent" ELSE "Sampai"]
              /\ transaksi' = [transaksi EXCEPT ![d] = IF d \in Ekspedisi THEN @ ELSE "Selesai"]
              /\ tercatat' = [tercatat EXCEPT ![d] = @ + 1]
        /\ bid' = BidSampai(r)
        /\ statusBid' = [statusBid EXCEPT ![r.kurir] = IF r.final = "ya" THEN "Idle" ELSE @]
        /\ Lepas(p)
        /\ UNCHANGED <<jejak, dibayar>>

-----------------------------------------------------------------------------
Langkah(p) ==
    \/ \E k \in Kurir : \E eks \in BOOLEAN : AktifkanBidKurir(p, k, eks)
    \/ AktifTulis(p)
    \/ \E n \in DOMAIN bid : LockSiapAntarBidKurir(p, n)
    \/ KunciBaca(p)
    \/ KunciTulis(p)
    \/ \E n \in DOMAIN bid : \E d \in Pengiriman : \/ PickedUp(p, n, d)
                                                  \/ KirimPengiriman(p, n, d)
                                                  \/ SampaiPengiriman(p, n, d)
    \/ AmbilTulis(p)
    \/ KirimTulis(p)
    \/ SampaiHitung(p)
    \/ SampaiBaca(p)
    \/ Disbursment(p)
    \/ SampaiCek(p)
    \/ SampaiTulis(p)
    \/ Putus(p)

Next == \/ \E p \in Proses : Langkah(p)
        \/ \E d \in Pengiriman : \E n \in DOMAIN bid : JadwalkanOtomatis(d, n)

Spec == Init /\ [][Next]_vars

-----------------------------------------------------------------------------
(* Properties.                                                              *)

\* Every table and every local variable holds values of its column's type, and the bids
\* that rows and requests name exist.
TypeOK ==
    /\ statusBid \in [Kurir -> StatusKurir]
    /\ bid \in Seq(BarisBid)
    /\ jadwal \in [Pengiriman -> BarisJadwal]
    /\ pengiriman \in [Pengiriman -> StatusPengiriman]
    /\ transaksi \in [Pengiriman -> StatusTransaksi]
    /\ jejak \in [Pengiriman -> Nat]
    /\ dibayar \in [Pengiriman -> [Penerima -> Nat]]
    /\ tercatat \in [Pengiriman -> Nat]
    /\ proses \in [Proses -> TipeProses]
    /\ \A d \in Pengiriman : jadwal[d] # TanpaJadwal => jadwal[d].bid \in DOMAIN bid

\* A payout row stands for a payment: whatever answers of Flip are lost or refusals, and
\* however often an arrival is reported, no recipient has more rows than payments.
TercatatTerbayar ==
    \A d \in Pengiriman : \A i \in DOMAIN DaftarPenerima(d) :
        tercatat[d] <= dibayar[d][DaftarPenerima(d)[i]]

\* A delivery that was picked up stays on a bid until its payouts are saved.
TidakHilang ==
    \A d \in Pengiriman : pengiriman[d] # "Waiting" /\ jadwal[d] = TanpaJadwal => tercatat[d] > 0

\* The slots of a bid are either free or hold a delivery.
SlotKekal ==
    \A n \in DOMAIN bid : bid[n].slot + Cardinality(Terjadwal(n)) = MaxSlot

\* What scheduler row, delivery, order, trail and payouts of delivery d may say together.
Cerita(d) ==
    LET eks == d \in Ekspedisi
    IN  {<<"tanpa", "Waiting", "Waiting", 0, 0>>,
         <<"Wait", "Waiting", "Waiting", 0, 0>>,
         <<"Ambil", "Waiting", "Waiting", 0, 0>>,
         <<"Kirim", "Picked Up", "Dikirim", 1, 0>>,
         <<"Finish", IF eks THEN "Dikirim" ELSE "Diperjalanan", "Dikirim", 1, 0>>,
         <<"tanpa", IF eks THEN "Sampai Agent" ELSE "Sampai",
           IF eks THEN "Dikirim" ELSE "Selesai", 1, 1>>}

\* The scheduler row, the delivery, the order, the trail and the payouts of a delivery
\* tell the same story.
JadwalSesuai ==
    \A d \in Pengiriman :
        <<jadwal[d].status, pengiriman[d], transaksi[d], jejak[d], tercatat[d]>> \in Cerita(d)

\* A bid that still collects carries nothing: each of its deliveries waits to be locked.
MengumpulkanTanpaBawaan ==
    \A n \in DOMAIN bid : bid[n].status = "Mengumpulkan" => Terjadwal(n) = TerjadwalPada(n, "Wait")

\* A courier is on delivery exactly while the bid is locked, and has one bid at most.
StatusBidSesuai ==
    /\ \A m, n \in DOMAIN bid : bid[m].kurir = bid[n].kurir => m = n
    /\ \A n \in DOMAIN bid :
          statusBid[bid[n].kurir] = IF bid[n].status = "Siap Antar" THEN "OnDelivery" ELSE "Idle"

\* An order that is Selesai was received and stays so (UpEnums.go:254).
SelesaiTetap ==
    [][\A d \in Pengiriman : transaksi[d] = "Selesai" => transaksi'[d] = "Selesai"]_vars

\* What the couriers do to the orders are moves of the life the status enum promises.
Siklus == INSTANCE SiklusTransaksi WITH Transaksi <- Pengiriman, status <- transaksi
=============================================================================
