-------------------------- MODULE MCKurirPengiriman --------------------------
(* Small instances of KurirPengiriman for TLC.  One run explores two of     *)
(* them, and the variable skenario, which never changes, says which.        *)
EXTENDS KurirPengiriman, TLC

CONSTANTS d1, d2, d3, k1, k2, p1, p2

\* Requests and couriers are interchangeable, and the deliveries without an expedition.
Simetri == Permutations(Proses) \cup Permutations(Kurir) \cup Permutations(Pengiriman \ Ekspedisi)

VARIABLE skenario
varsDua == <<vars, skenario>>

\* "selang": the requests of one courier overlap and Flip may pay a recipient twice; one
\* slot, one delivery with and one without an expedition.  "tertib": two couriers who wait
\* for each answer, two slots, three deliveries.
Selang == INSTANCE KurirPengiriman WITH KurirTertib <- FALSE, MaxSlot <- 1, BatasKunci <- 8,
                                        MaxBid <- 1, MaxBayar <- 2

InitDua == Init /\ skenario \in {"selang", "tertib"}

Terlibat(d) == jadwal[d] # TanpaJadwal \/ pengiriman[d] # "Waiting" \/ \E p \in Proses : d \in proses[p].kirim
KurirTerlibat == {proses[p].kurir : p \in Proses} \cup {bid[n].kurir : n \in DOMAIN bid}
Kecil == /\ Cardinality({d \in Pengiriman \ Ekspedisi : Terlibat(d)}) <= 1
         /\ Cardinality(KurirTerlibat \ {"tanpa"}) <= 1

NextDua == /\ UNCHANGED skenario
           /\ \/ skenario = "selang" /\ Selang!Next /\ Kecil'
              \/ skenario = "tertib" /\ Next

SpecDua == InitDua /\ [][NextDua]_varsDua

-----------------------------------------------------------------------------
(* What a courier who waits for each answer may rely on.                    *)

\* The scheduler row, the delivery, the order, the trail and the payouts of a delivery
\* tell the same story.
JadwalTertib == skenario = "tertib" => JadwalSesuai

\* A courier has one bid at most and is on delivery exactly while it is locked, a bid that
\* still collects carries nothing, and its slots are either free or hold a delivery.
BidTertib == skenario = "tertib" => StatusBidSesuai /\ MengumpulkanTanpaBawaan /\ SlotKekal

\* What such a courier does to an order is a move of the life the status enum promises.
SiklusTertib == [][skenario = "tertib" => [Siklus!Next]_transaksi]_varsDua
=============================================================================
