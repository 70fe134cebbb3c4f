----------------------- MODULE KurirPengirimanProofs -----------------------
(***************************************************************************)
(* Proofs about KurirPengiriman, for any couriers, deliveries and           *)
(* concurrent requests, orderly or not; and, in the second half, about      *)
(* couriers who wait for the answer to each request: scheduler rows,        *)
(* deliveries, orders, trail and payouts tell one story, bids are           *)
(* consistent, and orders move as the enum promises.                        *)
(***************************************************************************)
EXTENDS MCKurirPengiriman, TLAPS, FiniteSetTheorems, SequenceTheorems

TahapSampai == {"sampai", "bayar", "cek", "sampaiTulis"}

\* What the local variables of a request are good for, where the bids are B: an arrival is
\* about one delivery, calls Flip for one of its recipients, and writes once all of them
\* were paid in this very request.
ProsesJelas(r, B) ==
    /\ r \in TipeProses
    /\ r.tahap # "bebas" => r.kurir \in Kurir
    /\ r.tahap \notin {"bebas", "aktifTulis"} => r.bid \in B
    /\ r.tahap \in TahapSampai => \E d \in Pengiriman : r.kirim = {d}
    /\ r.tahap \notin TahapSampai => r.sah = {}
    /\ r.tahap = "sampai" => r.urut = 1
    /\ r.tahap = "bayar" => \A d \in r.kirim : r.urut \in DOMAIN DaftarPenerima(d)
    /\ r.tahap = "sampaiTulis" =>
           \A d \in r.kirim : \A i \in DOMAIN DaftarPenerima(d) : DaftarPenerima(d)[i] \in r.sah

TypeInv == TypeOK /\ \A p \in Proses : ProsesJelas(proses[p], DOMAIN bid)

-----------------------------------------------------------------------------
(* Data.                                                                    *)

LEMMA BebasJelas == ASSUME NEW B PROVE ProsesJelas(ProsesBebas, B)
BY DEF ProsesJelas, ProsesBebas, TipeProses, TahapProses, TahapSampai

\* More bids harm no request.
LEMMA JelasNaik ==
    ASSUME NEW r, NEW B, NEW C, B \subseteq C, ProsesJelas(r, B)
    PROVE  ProsesJelas(r, C)
BY DEF ProsesJelas

\* The recipients of a delivery.
LEMMA PenerimaType ==
    ASSUME NEW d, NEW i \in DOMAIN DaftarPenerima(d)
    PROVE  /\ DaftarPenerima(d)[i] \in Penerima
           /\ i \in Nat
           /\ i <= Len(DaftarPenerima(d))
BY DEF DaftarPenerima, Penerima

LEMMA PenerimaPertama == \A d : 1 \in DOMAIN DaftarPenerima(d)
BY DEF DaftarPenerima

LEMMA PenerimaBerikut ==
    ASSUME NEW d, NEW i \in DOMAIN DaftarPenerima(d), i < Len(DaftarPenerima(d))
    PROVE  i + 1 \in DOMAIN DaftarPenerima(d)
BY DEF DaftarPenerima

\* Changing one request to a well-formed one keeps the table of requests well-formed.
LEMMA ProsesBaru ==
    ASSUME TypeInv, NEW p \in Proses, NEW r, proses' = [proses EXCEPT ![p] = r],
           ProsesJelas(r, DOMAIN bid'), DOMAIN bid \subseteq DOMAIN bid'
    PROVE  /\ proses' \in [Proses -> TipeProses]
           /\ \A q \in Proses : ProsesJelas(proses'[q], DOMAIN bid')
<1>1. proses \in [Proses -> TipeProses] /\ r \in TipeProses
  BY DEF TypeInv, TypeOK, ProsesJelas
<1>2. \A q \in Proses : ProsesJelas(proses[q], DOMAIN bid')
  BY JelasNaik DEF TypeInv
<1> QED BY <1>1, <1>2

LEMMA LepasBaru ==
    ASSUME TypeInv, NEW p \in Proses, Lepas(p), DOMAIN bid \subseteq DOMAIN bid'
    PROVE  /\ proses' \in [Proses -> TipeProses]
           /\ \A q \in Proses : ProsesJelas(proses'[q], DOMAIN bid')
<1> QED BY BebasJelas, ProsesBaru DEF Lepas

\* A bid that gets other values keeps its id.
LEMMA BidBaru ==
    ASSUME bid \in Seq(BarisBid), NEW n \in DOMAIN bid, NEW b \in BarisBid,
           bid' = [bid EXCEPT ![n] = b]
    PROVE  bid' \in Seq(BarisBid) /\ DOMAIN bid' = DOMAIN bid
BY ExceptSeq

LEMMA BidType ==
    ASSUME bid \in Seq(BarisBid), NEW n \in DOMAIN bid
    PROVE  /\ bid[n] \in BarisBid /\ n \in Nat \ {0}
           /\ bid[n].kurir \in Kurir /\ bid[n].slot \in Int /\ bid[n].status \in StatusBidData
<1>1. bid[n] \in BarisBid /\ n \in Nat \ {0}
  OBVIOUS
<1> QED BY <1>1 DEF BarisBid

LEMMA BidKolom ==
    ASSUME NEW b \in BarisBid, NEW s \in Int, NEW t \in StatusBidData
    PROVE  /\ [b EXCEPT !.slot = s] \in BarisBid
           /\ [b EXCEPT !.status = t] \in BarisBid
           /\ [b EXCEPT !.slot = s, !.status = t] \in BarisBid
BY DEF BarisBid

\* An arrival writes the slots and the status of its bid.
LEMMA BidSampaiBaru ==
    ASSUME bid \in Seq(BarisBid), NEW r, r.bid \in DOMAIN bid, bid' = BidSampai(r)
    PROVE  bid' \in Seq(BarisBid) /\ DOMAIN bid' = DOMAIN bid
<1> DEFINE n == r.bid
           t == IF r.final = "ya" THEN "Mengumpulkan" ELSE bid[n].status
           b == [bid[n] EXCEPT !.slot = bid[n].slot + 1, !.status = t]
<1>1. t \in StatusBidData
  <2>1. bid[n].status \in StatusBidData BY BidType
  <2>2. "Mengumpulkan" \in StatusBidData BY DEF StatusBidData
  <2> QED BY <2>1, <2>2
<1>2. b \in BarisBid
  <2>1. bid[n].slot + 1 \in Int BY BidType
  <2> HIDE DEF t
  <2> QED BY <1>1, <2>1, BidType, BidKolom
<1>3. bid' = [bid EXCEPT ![n] = b]
  BY DEF BidSampai
<1> QED BY <1>2, <1>3, BidBaru

\* The local variables a request begins with.
LEMMA ProsesKolom ==
    ASSUME NEW r \in TipeProses, NEW tahap \in TahapProses, NEW k \in Kurir
    PROVE  /\ \A n \in Nat, kirim \in SUBSET Pengiriman :
                 [r EXCEPT !.tahap = tahap, !.kurir = k, !.bid = n, !.kirim = kirim] \in TipeProses
           /\ \A n \in Nat, s \in Int :
                 [r EXCEPT !.tahap = tahap, !.bid = n, !.kurir = k, !.slot = s] \in TipeProses
           /\ \A eks \in BOOLEAN :
                 [r EXCEPT !.tahap = tahap, !.kurir = k, !.eks = eks] \in TipeProses
           /\ \A u \in Nat, sah \in SUBSET Penerima :
                 [r EXCEPT !.tahap = tahap, !.urut = u, !.sah = sah] \in TipeProses
BY DEF TipeProses

LEMMA BebasType == ProsesBebas \in TipeProses
BY DEF ProsesBebas, TipeProses, TahapProses

\* What an update of scheduler rows by id leaves.
LEMMA TulisJadwalBaru ==
    ASSUME TypeInv, NEW S, NEW st \in StatusJadwal, TulisJadwal(S, st),
           DOMAIN bid' = DOMAIN bid
    PROVE  /\ jadwal' \in [Pengiriman -> BarisJadwal]
           /\ \A d \in Pengiriman : jadwal'[d] = TanpaJadwal <=> jadwal[d] = TanpaJadwal
           /\ \A d \in Pengiriman : jadwal'[d] # TanpaJadwal => jadwal'[d].bid \in DOMAIN bid'
<1>1. jadwal \in [Pengiriman -> BarisJadwal]
      /\ \A d \in Pengiriman : jadwal[d] # TanpaJadwal => jadwal[d].bid \in DOMAIN bid
  BY DEF TypeInv, TypeOK
<1>2. ASSUME NEW d \in Pengiriman, jadwal[d] # TanpaJadwal
      PROVE  /\ [jadwal[d] EXCEPT !.status = st] \in [bid : Nat \ {0}, status : StatusJadwal]
             /\ [jadwal[d] EXCEPT !.status = st] # TanpaJadwal
             /\ [jadwal[d] EXCEPT !.status = st].bid = jadwal[d].bid
  <2>1. jadwal[d] \in [bid : Nat \ {0}, status : StatusJadwal]
    BY <1>1, <1>2 DEF BarisJadwal
  <2> QED BY <2>1 DEF TanpaJadwal
<1>3. ASSUME NEW d \in Pengiriman
      PROVE  /\ jadwal'[d] \in BarisJadwal
             /\ jadwal'[d] = TanpaJadwal <=> jadwal[d] = TanpaJadwal
             /\ jadwal'[d] # TanpaJadwal => jadwal'[d].bid \in DOMAIN bid'
  <2>1. CASE d \in S /\ jadwal[d] # TanpaJadwal
    <3>1. jadwal'[d] = [jadwal[d] EXCEPT !.status = st]
      BY <2>1 DEF TulisJadwal
    <3> QED BY <1>1, <1>2, <2>1, <3>1 DEF BarisJadwal
  <2>2. CASE ~(d \in S /\ jadwal[d] # TanpaJadwal)
    <3>1. jadwal'[d] = jadwal[d]
      BY <2>2 DEF TulisJadwal
    <3> QED BY <1>1, <3>1
  <2> QED BY <2>1, <2>2
<1>4. jadwal' = [d \in Pengiriman |-> jadwal'[d]]
  BY DEF TulisJadwal
<1> QED BY <1>3, <1>4

-----------------------------------------------------------------------------
(* Type correctness.                                                        *)

LEMMA TypeInit == ASSUME KurirAssumption, Init PROVE TypeInv
<1>1. \A p \in Proses : ProsesJelas(proses[p], DOMAIN bid)
  BY BebasJelas DEF Init
<1>2. ProsesBebas \in TipeProses
  BY BebasJelas DEF ProsesJelas
<1> QED BY <1>1, <1>2 DEF Init, TypeInv, TypeOK, StatusKurir, BarisJadwal, TanpaJadwal,
                          StatusPengiriman, StatusTransaksi

\* A request begins.
LEMMA MulaiJelas ==
    ASSUME TypeInv, UNCHANGED bid, NEW p \in Proses, NEW n \in DOMAIN bid, NEW kirim,
           NEW tahap \in TahapProses, Mulai(p, tahap, bid[n].kurir, n, kirim),
           kirim \subseteq Pengiriman, tahap \notin {"bayar", "cek", "sampaiTulis"},
           tahap = "sampai" => \E d \in Pengiriman : kirim = {d}
    PROVE  /\ proses' \in [Proses -> TipeProses]
           /\ \A q \in Proses : ProsesJelas(proses'[q], DOMAIN bid')
<1> DEFINE r == [ProsesBebas EXCEPT !.tahap = tahap, !.kurir = bid[n].kurir,
                                    !.bid = n, !.kirim = kirim]
<1>1. bid[n].kurir \in Kurir /\ n \in Nat
  BY BidType DEF TypeInv, TypeOK
<1>2. r \in TipeProses
  BY <1>1, BebasType, ProsesKolom
<1>3. r.tahap = tahap /\ r.kurir = bid[n].kurir /\ r.bid = n /\ r.kirim = kirim
      /\ r.urut = 1 /\ r.sah = {}
  BY DEF ProsesBebas
<1>4. ProsesJelas(r, DOMAIN bid')
  <2> HIDE DEF r
  <2> QED BY <1>1, <1>2, <1>3 DEF ProsesJelas, TahapSampai
<1> QED BY <1>4, ProsesBaru DEF Mulai

LEMMA TypeLangkah ==
    ASSUME KurirAssumption, TypeInv, [Next]_vars
    PROVE  TypeInv'
<1> USE DEF TypeInv
<1>0. TypeOK /\ \A p \in Proses : ProsesJelas(proses[p], DOMAIN bid)
  OBVIOUS
\* What has to be shown of a step that leaves the other tables alone.
<1>a. ASSUME UNCHANGED <<statusBid, bid, jadwal, pengiriman, transaksi, jejak, dibayar, tercatat>>,
             proses' \in [Proses -> TipeProses],
             \A q \in Proses : ProsesJelas(proses'[q], DOMAIN bid')
      PROVE  TypeInv'
  BY <1>a DEF TypeOK
<1>1. ASSUME NEW p \in Proses, NEW k \in Kurir, NEW eks \in BOOLEAN, AktifkanBidKurir(p, k, eks)
      PROVE  TypeInv'
  <2> DEFINE r == [ProsesBebas EXCEPT !.tahap = "aktifTulis", !.kurir = k, !.eks = eks]
  <2>a. r \in TipeProses
    BY BebasType, ProsesKolom DEF TahapProses
  <2>b. r.tahap = "aktifTulis" /\ r.kurir = k /\ r.sah = {}
    BY DEF ProsesBebas
  <2>1. ProsesJelas(r, DOMAIN bid')
    <3> HIDE DEF r
    <3> QED BY <2>a, <2>b DEF ProsesJelas, TahapSampai
  <2>2. proses' = [proses EXCEPT ![p] = r] /\ UNCHANGED bid
    BY <1>1 DEF AktifkanBidKurir
  <2>3. /\ proses' \in [Proses -> TipeProses]
        /\ \A q \in Proses : ProsesJelas(proses'[q], DOMAIN bid')
    BY <2>1, <2>2, ProsesBaru
  <2> QED BY <1>a, <1>1, <2>3 DEF AktifkanBidKurir
<1>2. ASSUME NEW p \in Proses, AktifTulis(p) PROVE TypeInv'
  <2> DEFINE b == [kurir |-> proses[p].kurir, eks |-> proses[p].eks, slot |-> MaxSlot,
                   status |-> "Mengumpulkan"]
  <2>1. proses[p].kurir \in Kurir /\ proses[p].eks \in BOOLEAN
    BY <1>0, <1>2 DEF ProsesJelas, TipeProses, AktifTulis
  <2>2. b \in BarisBid
    BY <2>1 DEF KurirAssumption, BarisBid, StatusBidData
  <2>3. bid \in Seq(BarisBid) /\ bid' = Append(bid, b)
    BY <1>2 DEF TypeOK, AktifTulis
  <2>4. bid' \in Seq(BarisBid) /\ DOMAIN bid \subseteq DOMAIN bid'
    BY <2>2, <2>3, AppendProperties, LenProperties
  <2>5. /\ proses' \in [Proses -> TipeProses]
        /\ \A q \in Proses : ProsesJelas(proses'[q], DOMAIN bid')
    BY <1>2, <2>4, LepasBaru DEF AktifTulis
  <2>6. statusBid' \in [Kurir -> StatusKurir]
    BY <1>2, <2>1 DEF AktifTulis, TypeOK, StatusKurir
  <2> QED BY <1>2, <2>4, <2>5, <2>6 DEF AktifTulis, TypeOK
<1>3. ASSUME NEW p \in Proses, NEW n \in DOMAIN bid, LockSiapAntarBidKurir(p, n) PROVE TypeInv'
  <2> DEFINE r == [ProsesBebas EXCEPT !.tahap = "kunciBaca", !.bid = n,
                                      !.kurir = bid[n].kurir, !.slot = bid[n].slot]
  <2>1. bid[n] \in BarisBid /\ n \in Nat
    BY DEF TypeOK
  <2>2. UNCHANGED bid /\ proses' = [proses EXCEPT ![p] = r]
    BY <1>3 DEF LockSiapAntarBidKurir
  <2>3. ProsesJelas(r, DOMAIN bid')
    BY <2>1, <2>2 DEF ProsesJelas, ProsesBebas, TipeProses, TahapProses, TahapSampai, BarisBid
  <2>4. /\ proses' \in [Proses -> TipeProses]
        /\ \A q \in Proses : ProsesJelas(proses'[q], DOMAIN bid')
    BY <2>2, <2>3, ProsesBaru
  <2> QED BY <1>a, <1>3, <2>4 DEF LockSiapAntarBidKurir
<1>4. ASSUME NEW p \in Proses, KunciBaca(p) PROVE TypeInv'
  <2>1. PICK ids \in SUBSET Pengiriman :
            proses' = [proses EXCEPT ![p].tahap = "kunciTulis", ![p].kirim = ids]
    BY <1>4 DEF KunciBaca, TerjadwalPada, Terjadwal
  <2> DEFINE r == [proses[p] EXCEPT !.tahap = "kunciTulis", !.kirim = ids]
  <2>2. proses' = [proses EXCEPT ![p] = r] /\ UNCHANGED bid
    BY <1>4, <2>1 DEF KunciBaca, TypeOK
  <2>3. ProsesJelas(proses[p], DOMAIN bid) /\ proses[p].tahap = "kunciBaca"
    BY <1>4 DEF KunciBaca
  <2>4. ProsesJelas(r, DOMAIN bid')
    BY <2>2, <2>3 DEF ProsesJelas, TipeProses, TahapProses, TahapSampai
  <2>5. /\ proses' \in [Proses -> TipeProses]
        /\ \A q \in Proses : ProsesJelas(proses'[q], DOMAIN bid')
    BY <2>2, <2>4, ProsesBaru
  <2> QED BY <1>a, <1>4, <2>5 DEF KunciBaca
<1>5. ASSUME NEW p \in Proses, KunciTulis(p) PROVE TypeInv'
  <2>1. ProsesJelas(proses[p], DOMAIN bid) /\ proses[p].tahap = "kunciTulis"
    BY <1>5 DEF KunciTulis
  <2>2. proses[p].kurir \in Kurir /\ proses[p].bid \in DOMAIN bid
    BY <2>1 DEF ProsesJelas
  <2> DEFINE n == proses[p].bid
             b == [bid[n] EXCEPT !.status = "Siap Antar"]
  <2>3. bid \in Seq(BarisBid) /\ b \in BarisBid
    BY <2>2, BidType, BidKolom DEF TypeOK, StatusBidData
  <2>4. bid' = [bid EXCEPT ![n] = b]
    BY <1>5 DEF KunciTulis
  <2>5. bid' \in Seq(BarisBid) /\ DOMAIN bid' = DOMAIN bid
    BY <2>2, <2>3, <2>4, BidBaru
  <2>6. /\ jadwal' \in [Pengiriman -> BarisJadwal]
        /\ \A d \in Pengiriman : jadwal'[d] # TanpaJadwal => jadwal'[d].bid \in DOMAIN bid'
    BY <1>5, <2>5, TulisJadwalBaru DEF KunciTulis, StatusJadwal
  <2>7. /\ proses' \in [Proses -> TipeProses]
        /\ \A q \in Proses : ProsesJelas(proses'[q], DOMAIN bid')
    BY <1>5, <2>5, LepasBaru DEF KunciTulis
  <2>8. statusBid' \in [Kurir -> StatusKurir]
    BY <1>5, <2>2 DEF KunciTulis, TypeOK, StatusKurir
  <2> QED BY <1>5, <2>5, <2>6, <2>7, <2>8 DEF KunciTulis, TypeOK
<1>6. ASSUME NEW p \in Proses, NEW n \in DOMAIN bid, NEW d \in Pengiriman,
             PickedUp(p, n, d) \/ KirimPengiriman(p, n, d) \/ SampaiPengiriman(p, n, d)
      PROVE  TypeInv'
  <2>1. UNCHANGED <<statusBid, bid, jadwal, pengiriman, transaksi, jejak, dibayar, tercatat>>
    BY <1>6 DEF PickedUp, KirimPengiriman, SampaiPengiriman
  <2>2. PICK tahap \in {"ambilTulis", "kirimTulis", "sampai"} :
            Mulai(p, tahap, bid[n].kurir, n, {d})
    BY <1>6 DEF PickedUp, KirimPengiriman, SampaiPengiriman
  <2>3. /\ proses' \in [Proses -> TipeProses]
        /\ \A q \in Proses : ProsesJelas(proses'[q], DOMAIN bid')
    BY <2>1, <2>2, MulaiJelas DEF TahapProses
  <2> QED BY <1>a, <2>1, <2>3
<1>7. ASSUME NEW p \in Proses, AmbilTulis(p) \/ KirimTulis(p) PROVE TypeInv'
  <2>1. PICK d \in Pengiriman :
            \/ TulisJadwal({d}, "Kirim") \/ TulisJadwal({d}, "Finish")
    <3>1. proses[p].kirim \subseteq Pengiriman
      BY DEF TypeOK, TipeProses
    <3> QED BY <1>7, <3>1 DEF AmbilTulis, KirimTulis
  <2>2. UNCHANGED <<statusBid, bid, dibayar, tercatat>> /\ Lepas(p)
    BY <1>7 DEF AmbilTulis, KirimTulis
  <2>3. /\ jadwal' \in [Pengiriman -> BarisJadwal]
        /\ \A e \in Pengiriman : jadwal'[e] # TanpaJadwal => jadwal'[e].bid \in DOMAIN bid'
    BY <2>1, <2>2, TulisJadwalBaru DEF StatusJadwal
  <2>4. /\ proses' \in [Proses -> TipeProses]
        /\ \A q \in Proses : ProsesJelas(proses'[q], DOMAIN bid')
    BY <2>2, LepasBaru
  <2>5. /\ pengiriman' \in [Pengiriman -> StatusPengiriman]
        /\ transaksi' \in [Pengiriman -> StatusTransaksi]
        /\ jejak' \in [Pengiriman -> Nat]
    <3>1. CASE AmbilTulis(p)
      <4>1. PICK e \in proses[p].kirim : /\ pengiriman' = [pengiriman EXCEPT ![e] = "Picked Up"]
                                         /\ jejak' = [jejak EXCEPT ![e] = @ + 1]
                                         /\ transaksi' = [transaksi EXCEPT ![e] = "Dikirim"]
        BY <3>1 DEF AmbilTulis
      <4>2. e \in Pengiriman
        BY DEF TypeOK, TipeProses
      <4>3. jejak' \in [Pengiriman -> Nat]
        <5>1. jejak \in [Pengiriman -> Nat]
          BY DEF TypeOK
        <5>2. jejak[e] + 1 \in Nat
          BY <4>2, <5>1
        <5>3. jejak' = [jejak EXCEPT ![e] = jejak[e] + 1]
          BY <4>1
        <5> QED BY <5>1, <5>2, <5>3
      <4> QED BY <4>1, <4>2, <4>3 DEF TypeOK, StatusPengiriman, StatusTransaksi
    <3>2. CASE KirimTulis(p)
      BY <3>2 DEF KirimTulis, TypeOK, StatusPengiriman
    <3> QED BY <1>7, <3>1, <3>2
  <2> QED BY <2>2, <2>3, <2>4, <2>5 DEF TypeOK
<1>8. ASSUME NEW p \in Proses, SampaiHitung(p) PROVE TypeInv'
  <2>1. PICK f \in {"ya", "tidak"} : proses' = [proses EXCEPT ![p].final = f]
    BY <1>8 DEF SampaiHitung
  <2> DEFINE r == [proses[p] EXCEPT !.final = f]
  <2>2. proses' = [proses EXCEPT ![p] = r] /\ UNCHANGED bid
    BY <1>8, <2>1 DEF SampaiHitung
  <2>3. ProsesJelas(r, DOMAIN bid')
    BY <2>2 DEF ProsesJelas, TipeProses
  <2>4. /\ proses' \in [Proses -> TipeProses]
        /\ \A q \in Proses : ProsesJelas(proses'[q], DOMAIN bid')
    BY <2>2, <2>3, ProsesBaru
  <2> QED BY <1>a, <1>8, <2>4 DEF SampaiHitung
<1>9. ASSUME NEW p \in Proses, SampaiBaca(p) \/ SampaiCek(p) PROVE TypeInv'
  <2>1. UNCHANGED <<statusBid, bid, jadwal, pengiriman, transaksi, jejak, dibayar, tercatat>>
    BY <1>9 DEF SampaiBaca, SampaiCek
  <2>2. ProsesJelas(proses[p], DOMAIN bid)
    OBVIOUS
  <2>3. CASE SampaiBaca(p)
    <3> DEFINE r == [proses[p] EXCEPT !.tahap = "bayar"]
    <3>1. proses' = [proses EXCEPT ![p] = r] /\ proses[p].tahap = "sampai"
      BY <2>3 DEF SampaiBaca, Ke
    <3>2. \A d \in proses[p].kirim : proses[p].urut \in DOMAIN DaftarPenerima(d)
      BY <2>2, <3>1, PenerimaPertama DEF ProsesJelas
    <3>3. ProsesJelas(r, DOMAIN bid')
      BY <2>1, <2>2, <3>1, <3>2 DEF ProsesJelas, TipeProses, TahapProses, TahapSampai
    <3>4. /\ proses' \in [Proses -> TipeProses]
          /\ \A q \in Proses : ProsesJelas(proses'[q], DOMAIN bid')
      BY <2>1, <3>1, <3>3, ProsesBaru
    <3> QED BY <1>a, <2>1, <3>4
  <2>4. CASE SampaiCek(p)
    <3> DEFINE r == [proses[p] EXCEPT !.tahap = "sampaiTulis"]
    <3>1. proses' = [proses EXCEPT ![p] = r] /\ proses[p].tahap = "cek"
      BY <2>4 DEF SampaiCek, Ke
    <3>2. \A d \in proses[p].kirim :
             \A i \in DOMAIN DaftarPenerima(d) : DaftarPenerima(d)[i] \in proses[p].sah
      <4>1. \E d \in Pengiriman : proses[p].kirim = {d}
        BY <2>2, <3>1 DEF ProsesJelas, TahapSampai
      <4> QED BY <2>4, <4>1 DEF SampaiCek
    <3>3. ProsesJelas(r, DOMAIN bid')
      BY <2>1, <2>2, <3>1, <3>2 DEF ProsesJelas, TipeProses, TahapProses, TahapSampai
    <3>4. /\ proses' \in [Proses -> TipeProses]
          /\ \A q \in Proses : ProsesJelas(proses'[q], DOMAIN bid')
      BY <2>1, <3>1, <3>3, ProsesBaru
    <3> QED BY <1>a, <2>1, <3>4
  <2> QED BY <1>9, <2>3, <2>4
<1>10. ASSUME NEW p \in Proses, Disbursment(p) PROVE TypeInv'
  <2>1. PICK d \in Pengiriman : proses[p].kirim = {d}
    BY <1>10 DEF Disbursment, ProsesJelas, TahapSampai
  <2> DEFINE w == DaftarPenerima(d)[proses[p].urut]
  <2>2. ProsesJelas(proses[p], DOMAIN bid) /\ proses[p].tahap = "bayar"
    BY <1>10 DEF Disbursment
  <2>3. proses[p].urut \in DOMAIN DaftarPenerima(d)
    BY <2>1, <2>2 DEF ProsesJelas
  <2>4. w \in Penerima /\ proses[p].urut \in Nat /\ proses[p].urut <= Len(DaftarPenerima(d))
    BY <2>3, PenerimaType
  <2>5. dibayar' \in [Pengiriman -> [Penerima -> Nat]]
    <3>1. dibayar' = dibayar \/ dibayar' = [dibayar EXCEPT ![d][w] = @ + 1]
      BY <1>10, <2>1 DEF Disbursment
    <3>2. dibayar \in [Pengiriman -> [Penerima -> Nat]]
      BY DEF TypeOK
    <3>3. [dibayar[d] EXCEPT ![w] = @ + 1] \in [Penerima -> Nat]
      BY <2>4, <3>2
    <3>4. dibayar' = dibayar \/ dibayar' = [dibayar EXCEPT ![d] = [dibayar[d] EXCEPT ![w] = @ + 1]]
      BY <3>1, <3>2
    <3> QED BY <3>2, <3>3, <3>4
  <2>6. UNCHANGED <<statusBid, bid, jadwal, pengiriman, transaksi, jejak, tercatat>>
    BY <1>10 DEF Disbursment
  <2>7. /\ proses' \in [Proses -> TipeProses]
        /\ \A q \in Proses : ProsesJelas(proses'[q], DOMAIN bid')
    <3>1. CASE Lepas(p)
      BY <2>6, <3>1, LepasBaru
    <3>2. ASSUME NEW sah \in SUBSET Penerima, Berikut(p, d, sah)
          PROVE  /\ proses' \in [Proses -> TipeProses]
                 /\ \A q \in Proses : ProsesJelas(proses'[q], DOMAIN bid')
      <4> DEFINE tahap == IF proses[p].urut < Len(DaftarPenerima(d)) THEN "bayar" ELSE "cek"
                 r == [proses[p] EXCEPT !.tahap = tahap, !.urut = @ + 1, !.sah = sah]
      <4>1. proses' = [proses EXCEPT ![p] = r]
        BY <3>2 DEF Berikut
      <4>2. tahap = "bayar" => proses[p].urut + 1 \in DOMAIN DaftarPenerima(d)
        BY <2>3, PenerimaBerikut
      <4>3. r \in TipeProses
        <5>1. tahap \in TahapProses /\ proses[p] \in TipeProses /\ proses[p].urut + 1 \in Nat
          BY <2>2, <2>4 DEF ProsesJelas, TahapProses
        <5> HIDE DEF tahap
        <5> QED BY <5>1 DEF TipeProses
      <4>4. /\ r.tahap \in {"bayar", "cek"} /\ r.tahap = tahap /\ r.kirim = {d}
            /\ r.urut = proses[p].urut + 1
            /\ r.kurir = proses[p].kurir /\ r.bid = proses[p].bid
        BY <2>1, <2>2 DEF ProsesJelas, TipeProses
      <4>5. proses[p].kurir \in Kurir /\ proses[p].bid \in DOMAIN bid'
        BY <2>2, <2>6 DEF ProsesJelas
      <4>6. ProsesJelas(r, DOMAIN bid')
        <5> HIDE DEF r, tahap
        <5> QED BY <4>2, <4>3, <4>4, <4>5 DEF ProsesJelas, TahapSampai
      <4> QED BY <2>6, <4>1, <4>6, ProsesBaru
    <3>3. proses[p].sah \cup {w} \in SUBSET Penerima /\ proses[p].sah \in SUBSET Penerima
      BY <2>2, <2>4 DEF ProsesJelas, TipeProses
    <3>4. \/ Berikut(p, d, proses[p].sah \cup {w}) \/ Berikut(p, d, proses[p].sah) \/ Lepas(p)
      BY <1>10, <2>1 DEF Disbursment
    <3> QED BY <3>1, <3>2, <3>3, <3>4
  <2> QED BY <2>5, <2>6, <2>7 DEF TypeOK
<1>11. ASSUME NEW p \in Proses, SampaiTulis(p) PROVE TypeInv'
  <2>1. ProsesJelas(proses[p], DOMAIN bid) /\ proses[p].tahap = "sampaiTulis"
    BY <1>11 DEF SampaiTulis
  <2>2. PICK d \in Pengiriman : proses[p].kirim = {d}
    BY <2>1 DEF ProsesJelas, TahapSampai
  <2>3. proses[p].kurir \in Kurir /\ proses[p].bid \in DOMAIN bid
    BY <2>1 DEF ProsesJelas
  <2>4. bid' = BidSampai(proses[p])
    BY <1>11 DEF SampaiTulis
  <2>6. bid' \in Seq(BarisBid) /\ DOMAIN bid' = DOMAIN bid
    BY <2>3, <2>4, BidSampaiBaru DEF TypeOK
  <2>7. /\ jadwal' \in [Pengiriman -> BarisJadwal]
        /\ \A e \in Pengiriman : jadwal'[e] # TanpaJadwal => jadwal'[e].bid \in DOMAIN bid'
    <3>1. HapusJadwal(d)
      BY <1>11, <2>2 DEF SampaiTulis
    <3>2. \A e \in Pengiriman : jadwal'[e] = jadwal[e] \/ jadwal'[e] = TanpaJadwal
      BY <3>1 DEF HapusJadwal, TypeOK
    <3>3. jadwal' = [e \in Pengiriman |-> jadwal'[e]]
      BY <3>1 DEF HapusJadwal, TypeOK
    <3> QED BY <2>6, <3>2, <3>3 DEF TypeOK, BarisJadwal
  <2>8. /\ proses' \in [Proses -> TipeProses]
        /\ \A q \in Proses : ProsesJelas(proses'[q], DOMAIN bid')
    BY <1>11, <2>6, LepasBaru DEF SampaiTulis
  <2>9. /\ pengiriman' \in [Pengiriman -> StatusPengiriman]
        /\ transaksi' \in [Pengiriman -> StatusTransaksi]
        /\ tercatat' \in [Pengiriman -> Nat]
    <3>1. \/ pengiriman' = [pengiriman EXCEPT ![d] = "Sampai Agent"]
          \/ pengiriman' = [pengiriman EXCEPT ![d] = "Sampai"]
      BY <1>11, <2>2 DEF SampaiTulis
    <3>2. \/ transaksi' = [transaksi EXCEPT ![d] = "Selesai"]
          \/ transaksi' = [transaksi EXCEPT ![d] = @]
      BY <1>11, <2>2 DEF SampaiTulis
    <3>3. tercatat' = [tercatat EXCEPT ![d] = @ + 1]
      BY <1>11, <2>2 DEF SampaiTulis
    <3>4. pengiriman' \in [Pengiriman -> StatusPengiriman]
      BY <3>1 DEF TypeOK, StatusPengiriman
    <3>5. transaksi' \in [Pengiriman -> StatusTransaksi]
      BY <3>2 DEF TypeOK, StatusTransaksi
    <3>6. tercatat' \in [Pengiriman -> Nat]
      <4>1. tercatat \in [Pengiriman -> Nat]
        BY DEF TypeOK
      <4> QED BY <3>3, <4>1
    <3> QED BY <3>4, <3>5, <3>6
  <2>10. statusBid' \in [Kurir -> StatusKurir]
    BY <1>11, <2>3 DEF SampaiTulis, TypeOK, StatusKurir
  <2> QED BY <1>11, <2>6, <2>7, <2>8, <2>9, <2>10 DEF SampaiTulis, TypeOK
<1>12. ASSUME NEW p \in Proses, Putus(p) PROVE TypeInv'
  <2>1. UNCHANGED bid /\ Lepas(p)
    BY <1>12 DEF Putus
  <2>2. /\ proses' \in [Proses -> TipeProses]
        /\ \A q \in Proses : ProsesJelas(proses'[q], DOMAIN bid')
    BY <2>1, LepasBaru
  <2> QED BY <1>a, <1>12, <2>2 DEF Putus
<1>13. ASSUME NEW d \in Pengiriman, NEW n \in DOMAIN bid, JadwalkanOtomatis(d, n) PROVE TypeInv'
  <2> DEFINE b == [bid[n] EXCEPT !.slot = @ - 1]
  <2>a. bid \in Seq(BarisBid)
    BY DEF TypeOK
  <2>b. b \in BarisBid
    <3>1. bid[n] \in BarisBid /\ bid[n].slot - 1 \in Int
      BY <2>a, BidType
    <3> QED BY <3>1 DEF BarisBid
  <2>c. bid' = [bid EXCEPT ![n] = b]
    BY <1>13 DEF JadwalkanOtomatis
  <2>1. bid \in Seq(BarisBid) /\ b \in BarisBid /\ bid' = [bid EXCEPT ![n] = b] /\ n \in Nat \ {0}
    BY <2>a, <2>b, <2>c, BidType
  <2>2. bid' \in Seq(BarisBid) /\ DOMAIN bid' = DOMAIN bid
    BY <2>1, BidBaru
  <2>3. /\ jadwal' \in [Pengiriman -> BarisJadwal]
        /\ \A e \in Pengiriman : jadwal'[e] # TanpaJadwal => jadwal'[e].bid \in DOMAIN bid'
    BY <1>13, <2>1, <2>2 DEF JadwalkanOtomatis, TypeOK, BarisJadwal, StatusJadwal
  <2>4. \A q \in Proses : ProsesJelas(proses'[q], DOMAIN bid')
    BY <1>13, <2>2 DEF JadwalkanOtomatis
  <2> QED BY <1>13, <2>2, <2>3, <2>4 DEF JadwalkanOtomatis, TypeOK
<1>14. CASE UNCHANGED vars
  BY <1>14 DEF vars, TypeOK
<1> QED BY <1>1, <1>2, <1>3, <1>4, <1>5, <1>6, <1>7, <1>8, <1>9, <1>10, <1>11, <1>12, <1>13,
           <1>14 DEF Next, Langkah

LEMMA TypeInvBenar == Spec => []TypeInv
<1>1. Init => TypeInv
  BY TypeInit, KurirAssumption
<1>2. TypeInv /\ [Next]_vars => TypeInv'
  BY TypeLangkah, KurirAssumption
<1> QED BY <1>1, <1>2, PTL DEF Spec

\* Whatever couriers, the scheduler and Flip do, every column keeps its type and every bid
\* that a scheduler row names exists.
THEOREM TypeBenar == Spec => []TypeOK
<1>1. TypeInv => TypeOK
  BY DEF TypeInv
<1> QED BY <1>1, TypeInvBenar, PTL

-----------------------------------------------------------------------------
(* Payouts.  A running arrival holds a payment back that it may still save   *)
(* as a payout, so payouts and held payments together are no more than the   *)
(* payments.                                                                 *)

Dipegang(d, w) == {p \in Proses : proses[p].kirim = {d} /\ w \in proses[p].sah}

Bayaran ==
    \A d \in Pengiriman : \A i \in DOMAIN DaftarPenerima(d) :
        LET w == DaftarPenerima(d)[i]
        IN  tercatat[d] + Cardinality(Dipegang(d, w)) <= dibayar[d][w]

LEMMA DipegangFinite ==
    ASSUME KurirAssumption, NEW d, NEW w
    PROVE  /\ IsFiniteSet(Dipegang(d, w)) /\ Cardinality(Dipegang(d, w)) \in Nat
           /\ IsFiniteSet(Dipegang(d, w)') /\ Cardinality(Dipegang(d, w)') \in Nat
<1>1. Dipegang(d, w) \subseteq Proses /\ Dipegang(d, w)' \subseteq Proses /\ IsFiniteSet(Proses)
  BY DEF Dipegang, KurirAssumption
<1> QED BY <1>1, FS_Subset, FS_CardinalityType

LEMMA DipegangTurun ==
    ASSUME KurirAssumption, NEW d, NEW w, Dipegang(d, w)' \subseteq Dipegang(d, w)
    PROVE  Cardinality(Dipegang(d, w)') <= Cardinality(Dipegang(d, w))
BY DipegangFinite, FS_Subset

LEMMA DipegangNaik ==
    ASSUME KurirAssumption, NEW d, NEW w, NEW p,
           Dipegang(d, w)' \subseteq Dipegang(d, w) \cup {p}
    PROVE  Cardinality(Dipegang(d, w)') <= Cardinality(Dipegang(d, w)) + 1
<1> DEFINE S == Dipegang(d, w) \cup {p}
<1>1. IsFiniteSet(Dipegang(d, w)) /\ Cardinality(Dipegang(d, w)) \in Nat
      /\ Cardinality(Dipegang(d, w)') \in Nat
  BY DipegangFinite
<1>2. IsFiniteSet(S) /\ (Cardinality(S) = Cardinality(Dipegang(d, w))
                         \/ Cardinality(S) = Cardinality(Dipegang(d, w)) + 1)
  BY <1>1, FS_AddElement
<1>3. Cardinality(Dipegang(d, w)') <= Cardinality(S)
  BY <1>2, FS_Subset
<1> QED BY <1>1, <1>2, <1>3

LEMMA DipegangLepas ==
    ASSUME KurirAssumption, NEW d, NEW w, NEW p \in Dipegang(d, w),
           Dipegang(d, w)' \subseteq Dipegang(d, w) \ {p}
    PROVE  Cardinality(Dipegang(d, w)') + 1 <= Cardinality(Dipegang(d, w))
<1> DEFINE S == Dipegang(d, w) \ {p}
<1>1. IsFiniteSet(Dipegang(d, w)) /\ Cardinality(Dipegang(d, w)) \in Nat
      /\ Cardinality(Dipegang(d, w)') \in Nat
  BY DipegangFinite
<1>2. IsFiniteSet(S) /\ Cardinality(S) = Cardinality(Dipegang(d, w)) - 1
  BY <1>1, FS_RemoveElement
<1>3. Cardinality(Dipegang(d, w)') <= Cardinality(S)
  BY <1>2, FS_Subset
<1> QED BY <1>1, <1>2, <1>3

\* A step that neither pays nor saves, and gives no request an answer of Flip.
LEMMA BayaranDiam ==
    ASSUME KurirAssumption, TypeInv, TypeInv', Bayaran, UNCHANGED <<dibayar, tercatat>>,
           \A q \in Proses : \/ proses'[q].sah = {}
                             \/ proses'[q].sah = proses[q].sah /\ proses'[q].kirim = proses[q].kirim
    PROVE  Bayaran'
<1> SUFFICES ASSUME NEW d \in Pengiriman, NEW i \in DOMAIN DaftarPenerima(d)
             PROVE  tercatat'[d] + Cardinality(Dipegang(d, DaftarPenerima(d)[i])')
                        <= dibayar'[d][DaftarPenerima(d)[i]]
  BY DEF Bayaran
<1> DEFINE w == DaftarPenerima(d)[i]
<1>1. Dipegang(d, w)' \subseteq Dipegang(d, w)
  BY DEF Dipegang
<1>2. Cardinality(Dipegang(d, w)') <= Cardinality(Dipegang(d, w))
  BY <1>1, DipegangTurun
<1>3. tercatat[d] + Cardinality(Dipegang(d, w)) <= dibayar[d][w]
  BY DEF Bayaran
<1>4. Cardinality(Dipegang(d, w)') \in Nat /\ Cardinality(Dipegang(d, w)) \in Nat
  BY DipegangFinite
<1>5. tercatat[d] \in Nat /\ dibayar[d][w] \in Nat
  BY PenerimaType DEF TypeInv, TypeOK
<1> QED BY <1>2, <1>3, <1>4, <1>5

LEMMA BayaranLangkah ==
    ASSUME KurirAssumption, TypeInv, TypeInv', Bayaran, [Next]_vars
    PROVE  Bayaran'
<1>0. /\ proses \in [Proses -> TipeProses]
      /\ \A p \in Proses : ProsesJelas(proses[p], DOMAIN bid)
      /\ tercatat \in [Pengiriman -> Nat] /\ dibayar \in [Pengiriman -> [Penerima -> Nat]]
  BY DEF TypeInv, TypeOK
<1>a. ProsesBebas.sah = {}
  BY DEF ProsesBebas
\* Beginning and ending a request.
<1>b. ASSUME NEW p \in Proses, UNCHANGED <<dibayar, tercatat>>,
             Lepas(p) \/ \E r : proses' = [proses EXCEPT ![p] = r] /\ r.sah = {}
      PROVE  Bayaran'
  <2>1. PICK r : proses' = [proses EXCEPT ![p] = r] /\ r.sah = {}
    BY <1>a, <1>b DEF Lepas
  <2>2. \A q \in Proses : \/ proses'[q].sah = {}
                          \/ proses'[q].sah = proses[q].sah /\ proses'[q].kirim = proses[q].kirim
    BY <1>0, <2>1
  <2> QED BY <1>b, <2>2, BayaranDiam
<1>1. ASSUME NEW p \in Proses, NEW k \in Kurir, NEW eks \in BOOLEAN, AktifkanBidKurir(p, k, eks)
      PROVE  Bayaran'
  <2> DEFINE r == [ProsesBebas EXCEPT !.tahap = "aktifTulis", !.kurir = k, !.eks = eks]
  <2>1. proses' = [proses EXCEPT ![p] = r] /\ UNCHANGED <<dibayar, tercatat>>
    BY <1>1 DEF AktifkanBidKurir
  <2>2. r.sah = {}
    BY DEF ProsesBebas
  <2> QED BY <1>b, <2>1, <2>2
<1>2. ASSUME NEW p \in Proses, AktifTulis(p) \/ KunciTulis(p) \/ AmbilTulis(p) \/ KirimTulis(p) \/ Putus(p)
      PROVE  Bayaran'
  <2>1. Lepas(p) /\ UNCHANGED <<dibayar, tercatat>>
    BY <1>2 DEF AktifTulis, KunciTulis, AmbilTulis, KirimTulis, Putus
  <2> QED BY <1>b, <2>1
<1>3. ASSUME NEW p \in Proses, NEW n \in DOMAIN bid, LockSiapAntarBidKurir(p, n) PROVE Bayaran'
  <2> DEFINE r == [ProsesBebas EXCEPT !.tahap = "kunciBaca", !.bid = n,
                                      !.kurir = bid[n].kurir, !.slot = bid[n].slot]
  <2>1. proses' = [proses EXCEPT ![p] = r] /\ UNCHANGED <<dibayar, tercatat>>
    BY <1>3 DEF LockSiapAntarBidKurir
  <2>2. r.sah = {}
    BY DEF ProsesBebas
  <2> QED BY <1>b, <2>1, <2>2
<1>4. ASSUME NEW p \in Proses, KunciBaca(p) PROVE Bayaran'
  <2>1. PICK ids : proses' = [proses EXCEPT ![p].tahap = "kunciTulis", ![p].kirim = ids]
    BY <1>4 DEF KunciBaca
  <2> DEFINE r == [proses[p] EXCEPT !.tahap = "kunciTulis", !.kirim = ids]
  <2>2. proses' = [proses EXCEPT ![p] = r] /\ UNCHANGED <<dibayar, tercatat>>
    BY <1>0, <1>4, <2>1 DEF KunciBaca
  <2>3. r.sah = {}
    <3>1. proses[p].tahap = "kunciBaca" /\ proses[p] \in TipeProses
      BY <1>0, <1>4 DEF KunciBaca
    <3>2. proses[p].sah = {}
      BY <1>0, <3>1 DEF ProsesJelas, TahapSampai
    <3> QED BY <3>1, <3>2 DEF TipeProses
  <2> QED BY <1>b, <2>2, <2>3
<1>5. ASSUME NEW p \in Proses, NEW n \in DOMAIN bid, NEW d \in Pengiriman,
             PickedUp(p, n, d) \/ KirimPengiriman(p, n, d) \/ SampaiPengiriman(p, n, d)
      PROVE  Bayaran'
  <2>1. PICK tahap : Mulai(p, tahap, bid[n].kurir, n, {d})
    BY <1>5 DEF PickedUp, KirimPengiriman, SampaiPengiriman
  <2> DEFINE r == [ProsesBebas EXCEPT !.tahap = tahap, !.kurir = bid[n].kurir,
                                      !.bid = n, !.kirim = {d}]
  <2>2. proses' = [proses EXCEPT ![p] = r]
    BY <2>1 DEF Mulai
  <2>3. r.sah = {}
    BY DEF ProsesBebas
  <2>4. UNCHANGED <<dibayar, tercatat>>
    BY <1>5 DEF PickedUp, KirimPengiriman, SampaiPengiriman
  <2> QED BY <1>b, <2>2, <2>3, <2>4
<1>6. ASSUME NEW p \in Proses, SampaiHitung(p) \/ SampaiBaca(p) \/ SampaiCek(p) PROVE Bayaran'
  <2>1. UNCHANGED <<dibayar, tercatat>>
    BY <1>6 DEF SampaiHitung, SampaiBaca, SampaiCek
  <2>2. proses[p] \in TipeProses
    BY <1>0
  <2>3. PICK r : /\ proses' = [proses EXCEPT ![p] = r]
                 /\ r.sah = proses[p].sah /\ r.kirim = proses[p].kirim
    <3>1. CASE SampaiHitung(p)
      <4>1. PICK f : proses' = [proses EXCEPT ![p] = [proses[p] EXCEPT !.final = f]]
        BY <1>0, <3>1 DEF SampaiHitung
      <4> DEFINE r == [proses[p] EXCEPT !.final = f]
      <4>2. r.sah = proses[p].sah /\ r.kirim = proses[p].kirim
        BY <2>2 DEF TipeProses
      <4> QED BY <4>1, <4>2
    <3>2. CASE SampaiBaca(p) \/ SampaiCek(p)
      <4>1. PICK t : proses' = [proses EXCEPT ![p] = [proses[p] EXCEPT !.tahap = t]]
        BY <1>0, <3>2 DEF SampaiBaca, SampaiCek, Ke
      <4> DEFINE r == [proses[p] EXCEPT !.tahap = t]
      <4>2. r.sah = proses[p].sah /\ r.kirim = proses[p].kirim
        BY <2>2 DEF TipeProses
      <4> QED BY <4>1, <4>2
    <3> QED BY <1>6, <3>1, <3>2
  <2>4. \A q \in Proses : proses'[q].sah = proses[q].sah /\ proses'[q].kirim = proses[q].kirim
    BY <1>0, <2>3
  <2> QED BY <2>1, <2>4, BayaranDiam
<1>7. ASSUME NEW p \in Proses, Disbursment(p) PROVE Bayaran'
  <2>1. PICK d \in Pengiriman : proses[p].kirim = {d}
    BY <1>0, <1>7 DEF Disbursment, ProsesJelas, TahapSampai
  <2> DEFINE v == DaftarPenerima(d)[proses[p].urut]
  <2>2. v \in Penerima /\ proses[p] \in TipeProses
    BY <1>0, <1>7, <2>1, PenerimaType DEF Disbursment, ProsesJelas
  <2>3. UNCHANGED tercatat
    BY <1>7 DEF Disbursment
  <2>4. CASE Berikut(p, d, proses[p].sah) /\ UNCHANGED dibayar
    <3>1. \A q \in Proses : proses'[q].sah = proses[q].sah /\ proses'[q].kirim = proses[q].kirim
      BY <1>0, <2>2, <2>4 DEF Berikut, TipeProses
    <3> QED BY <2>3, <2>4, <3>1, BayaranDiam
  <2>5. CASE /\ dibayar' = [dibayar EXCEPT ![d][v] = @ + 1]
             /\ Berikut(p, d, proses[p].sah \cup {v}) \/ Lepas(p)
    <3>1. \A q \in Proses : \/ proses'[q].sah = {}
                            \/ proses'[q].sah = proses[q].sah /\ proses'[q].kirim = proses[q].kirim
                            \/ /\ q = p
                               /\ proses'[q].sah = proses[q].sah \cup {v}
                               /\ proses'[q].kirim = {d}
      <4>1. CASE Berikut(p, d, proses[p].sah \cup {v})
        BY <1>0, <2>1, <2>2, <4>1 DEF Berikut, TipeProses
      <4>2. CASE Lepas(p)
        <5>1. proses'[p] = ProsesBebas /\ \A q \in Proses \ {p} : proses'[q] = proses[q]
          BY <1>0, <4>2 DEF Lepas
        <5> QED BY <1>a, <5>1
      <4> QED BY <2>5, <4>1, <4>2
    <3> SUFFICES ASSUME NEW e \in Pengiriman, NEW i \in DOMAIN DaftarPenerima(e)
                 PROVE  tercatat'[e] + Cardinality(Dipegang(e, DaftarPenerima(e)[i])')
                            <= dibayar'[e][DaftarPenerima(e)[i]]
      BY DEF Bayaran
    <3> DEFINE w == DaftarPenerima(e)[i]
    <3>2. tercatat[e] + Cardinality(Dipegang(e, w)) <= dibayar[e][w]
      BY DEF Bayaran
    <3>3. Cardinality(Dipegang(e, w)') \in Nat /\ Cardinality(Dipegang(e, w)) \in Nat
      BY DipegangFinite
    <3>4. w \in Penerima /\ tercatat[e] \in Nat /\ dibayar[e][w] \in Nat /\ tercatat'[e] = tercatat[e]
      BY <1>0, <2>3, PenerimaType
    <3>5. CASE e = d /\ w = v
      <4>1. dibayar'[e][w] = dibayar[e][w] + 1
        BY <1>0, <2>2, <2>5, <3>5
      <4>2. Dipegang(e, w)' \subseteq Dipegang(e, w) \cup {p}
        BY <3>1 DEF Dipegang
      <4>3. Cardinality(Dipegang(e, w)') <= Cardinality(Dipegang(e, w)) + 1
        BY <4>2, DipegangNaik
      <4> QED BY <3>2, <3>3, <3>4, <4>1, <4>3
    <3>6. CASE ~(e = d /\ w = v)
      <4>1. dibayar'[e][w] = dibayar[e][w]
        BY <1>0, <2>2, <2>5, <3>4, <3>6
      <4>2. Dipegang(e, w)' \subseteq Dipegang(e, w)
        BY <2>1, <3>1, <3>6 DEF Dipegang
      <4>3. Cardinality(Dipegang(e, w)') <= Cardinality(Dipegang(e, w))
        BY <4>2, DipegangTurun
      <4> QED BY <3>2, <3>3, <3>4, <4>1, <4>3
    <3> QED BY <3>5, <3>6
  <2> QED BY <1>7, <2>1, <2>4, <2>5 DEF Disbursment
<1>8. ASSUME NEW p \in Proses, SampaiTulis(p) PROVE Bayaran'
  <2>1. ProsesJelas(proses[p], DOMAIN bid) /\ proses[p].tahap = "sampaiTulis"
    BY <1>0, <1>8 DEF SampaiTulis
  <2>2. PICK d \in Pengiriman : proses[p].kirim = {d}
    BY <2>1 DEF ProsesJelas, TahapSampai
  <2>3. tercatat' = [tercatat EXCEPT ![d] = tercatat[d] + 1] /\ UNCHANGED dibayar
    BY <1>8, <2>2 DEF SampaiTulis
  <2>4. /\ proses'[p].sah = {}
        /\ \A q \in Proses \ {p} : proses'[q] = proses[q]
    BY <1>0, <1>8, <1>a DEF SampaiTulis, Lepas
  <2> SUFFICES ASSUME NEW e \in Pengiriman, NEW i \in DOMAIN DaftarPenerima(e)
               PROVE  tercatat'[e] + Cardinality(Dipegang(e, DaftarPenerima(e)[i])')
                          <= dibayar'[e][DaftarPenerima(e)[i]]
    BY DEF Bayaran
  <2> DEFINE w == DaftarPenerima(e)[i]
  <2>5. tercatat[e] + Cardinality(Dipegang(e, w)) <= dibayar[e][w]
    BY DEF Bayaran
  <2>6. Cardinality(Dipegang(e, w)') \in Nat /\ Cardinality(Dipegang(e, w)) \in Nat
    BY DipegangFinite
  <2>7. w \in Penerima /\ tercatat[e] \in Nat /\ dibayar[e][w] \in Nat
    BY <1>0, PenerimaType
  <2>8. Dipegang(e, w)' \subseteq Dipegang(e, w) \ {p}
    BY <2>4 DEF Dipegang
  <2>9. CASE e = d
    <3>1. p \in Dipegang(e, w)
      BY <2>1, <2>2, <2>9 DEF ProsesJelas, Dipegang
    <3>2. Cardinality(Dipegang(e, w)') + 1 <= Cardinality(Dipegang(e, w))
      BY <2>8, <3>1, DipegangLepas
    <3>3. tercatat'[e] = tercatat[e] + 1
      BY <1>0, <2>3, <2>9
    <3> QED BY <2>3, <2>5, <2>6, <2>7, <3>2, <3>3
  <2>10. CASE e # d
    <3>1. Dipegang(e, w)' \subseteq Dipegang(e, w)
      BY <2>8
    <3>2. Cardinality(Dipegang(e, w)') <= Cardinality(Dipegang(e, w))
      BY <3>1, DipegangTurun
    <3>3. tercatat'[e] = tercatat[e]
      BY <1>0, <2>3, <2>10
    <3> QED BY <2>3, <2>5, <2>6, <2>7, <3>2, <3>3
  <2> QED BY <2>9, <2>10
<1>9. ASSUME NEW d \in Pengiriman, NEW n \in DOMAIN bid, JadwalkanOtomatis(d, n) PROVE Bayaran'
  BY <1>9, BayaranDiam DEF JadwalkanOtomatis
<1>10. CASE UNCHANGED vars
  BY <1>10, BayaranDiam DEF vars
<1> QED BY <1>1, <1>2, <1>3, <1>4, <1>5, <1>6, <1>7, <1>8, <1>9, <1>10 DEF Next, Langkah

\* A payout row stands for a payment, however often an arrival is sent, and whatever
\* answers of Flip are refusals or lost (SampaiPengirimanNonEks and SampaiPengirimanEks).
THEOREM TercatatBenar == Spec => []TercatatTerbayar
<1>1. Init => Bayaran
  <2> SUFFICES ASSUME Init, NEW d \in Pengiriman, NEW i \in DOMAIN DaftarPenerima(d)
               PROVE  tercatat[d] + Cardinality(Dipegang(d, DaftarPenerima(d)[i]))
                          <= dibayar[d][DaftarPenerima(d)[i]]
    BY DEF Bayaran
  <2>1. Dipegang(d, DaftarPenerima(d)[i]) = {}
    BY DEF Init, Dipegang, ProsesBebas
  <2>2. Cardinality(Dipegang(d, DaftarPenerima(d)[i])) = 0
    BY <2>1, FS_EmptySet
  <2>3. tercatat[d] = 0 /\ dibayar[d][DaftarPenerima(d)[i]] = 0
    BY PenerimaType DEF Init
  <2> QED BY <2>2, <2>3
<1>2. TypeInv /\ TypeInv' /\ Bayaran /\ [Next]_vars => Bayaran'
  BY BayaranLangkah, KurirAssumption
<1>3. TypeInv /\ Bayaran => TercatatTerbayar
  <2> SUFFICES ASSUME TypeInv, Bayaran, NEW d \in Pengiriman, NEW i \in DOMAIN DaftarPenerima(d)
               PROVE  tercatat[d] <= dibayar[d][DaftarPenerima(d)[i]]
    BY DEF TercatatTerbayar
  <2> DEFINE w == DaftarPenerima(d)[i]
  <2>1. tercatat[d] + Cardinality(Dipegang(d, w)) <= dibayar[d][w]
    BY DEF Bayaran
  <2>2. Cardinality(Dipegang(d, w)) \in Nat
    BY KurirAssumption, DipegangFinite
  <2>3. tercatat[d] \in Nat /\ dibayar[d][w] \in Nat
    BY PenerimaType DEF TypeInv, TypeOK
  <2> QED BY <2>1, <2>2, <2>3
<1> QED BY <1>1, <1>2, <1>3, TypeInvBenar, PTL DEF Spec

-----------------------------------------------------------------------------
(* Deliveries under way.                                                    *)

\* A delivery is under way once it was picked up; a request that is about to say so counts.
Berangkat(d) ==
    \/ pengiriman[d] # "Waiting"
    \/ \E p \in Proses : proses[p].tahap \in {"ambilTulis", "kirimTulis"} /\ d \in proses[p].kirim

Terbawa == \A d \in Pengiriman : Berangkat(d) /\ jadwal[d] = TanpaJadwal => tercatat[d] > 0

\* What a step has to respect: only a scheduled delivery sets out, and only saved payouts
\* take one off its bid.
LEMMA TerbawaDiam ==
    ASSUME Terbawa, tercatat \in [Pengiriman -> Nat], tercatat' \in [Pengiriman -> Nat],
           \A d \in Pengiriman : /\ tercatat[d] <= tercatat'[d]
                                 /\ \/ tercatat'[d] > 0
                                    \/ jadwal'[d] # TanpaJadwal
                                    \/ jadwal[d] = TanpaJadwal /\ (Berangkat(d)' => Berangkat(d))
    PROVE  Terbawa'
BY DEF Terbawa

LEMMA TerbawaLangkah ==
    ASSUME KurirAssumption, TypeInv, TypeInv', Terbawa, [Next]_vars
    PROVE  Terbawa'
<1>0. /\ proses \in [Proses -> TipeProses]
      /\ jadwal \in [Pengiriman -> BarisJadwal]
      /\ pengiriman \in [Pengiriman -> StatusPengiriman]
      /\ tercatat \in [Pengiriman -> Nat] /\ tercatat' \in [Pengiriman -> Nat]
  BY DEF TypeInv, TypeOK
<1>a. ProsesBebas.tahap = "bebas"
  BY DEF ProsesBebas
\* A request that goes on without setting anything out, or ends.
<1>b. ASSUME NEW p \in Proses, NEW r, proses' = [proses EXCEPT ![p] = r],
             r.tahap \notin {"ambilTulis", "kirimTulis"}, UNCHANGED <<pengiriman, tercatat>>,
             \A d \in Pengiriman : jadwal'[d] = TanpaJadwal => jadwal[d] = TanpaJadwal
      PROVE  Terbawa'
  <2>1. \A q \in Proses : proses'[q] = proses[q] \/ proses'[q] = r
    BY <1>0, <1>b
  <2>2. \A d \in Pengiriman : Berangkat(d)' => Berangkat(d)
    BY <1>b, <2>1 DEF Berangkat
  <2> QED BY <1>0, <1>b, <2>2, TerbawaDiam
<1>1. ASSUME NEW p \in Proses, NEW k \in Kurir, NEW eks \in BOOLEAN, AktifkanBidKurir(p, k, eks)
      PROVE  Terbawa'
  <2> DEFINE r == [ProsesBebas EXCEPT !.tahap = "aktifTulis", !.kurir = k, !.eks = eks]
  <2>1. r.tahap = "aktifTulis"
    BY DEF ProsesBebas
  <2> QED BY <1>1, <1>b, <2>1 DEF AktifkanBidKurir
<1>2. ASSUME NEW p \in Proses, AktifTulis(p) \/ Putus(p) PROVE Terbawa'
  BY <1>2, <1>a, <1>b DEF AktifTulis, Putus, Lepas
<1>3. ASSUME NEW p \in Proses, NEW n \in DOMAIN bid, LockSiapAntarBidKurir(p, n) PROVE Terbawa'
  <2> DEFINE r == [ProsesBebas EXCEPT !.tahap = "kunciBaca", !.bid = n,
                                      !.kurir = bid[n].kurir, !.slot = bid[n].slot]
  <2>1. r.tahap = "kunciBaca"
    BY DEF ProsesBebas
  <2> QED BY <1>3, <1>b, <2>1 DEF LockSiapAntarBidKurir
<1>4. ASSUME NEW p \in Proses, KunciBaca(p) PROVE Terbawa'
  <2>1. PICK ids : proses' = [proses EXCEPT ![p].tahap = "kunciTulis", ![p].kirim = ids]
    BY <1>4 DEF KunciBaca
  <2> DEFINE r == [proses[p] EXCEPT !.tahap = "kunciTulis", !.kirim = ids]
  <2>2. proses' = [proses EXCEPT ![p] = r]
    BY <1>0, <2>1
  <2>3. r.tahap = "kunciTulis"
    BY <1>0 DEF TipeProses
  <2> QED BY <1>4, <1>b, <2>2, <2>3 DEF KunciBaca
<1>5. ASSUME NEW p \in Proses, KunciTulis(p) PROVE Terbawa'
  <2>1. DOMAIN bid' = DOMAIN bid
    <3>1. bid' = [bid EXCEPT ![proses[p].bid].status = "Siap Antar"] /\ bid \in Seq(BarisBid)
      BY <1>5 DEF KunciTulis, TypeInv, TypeOK
    <3> QED BY <3>1
  <2>2. \A d \in Pengiriman : jadwal'[d] = TanpaJadwal => jadwal[d] = TanpaJadwal
    BY <1>5, <2>1, TulisJadwalBaru DEF KunciTulis, StatusJadwal
  <2> QED BY <1>5, <1>a, <1>b, <2>2 DEF KunciTulis, Lepas
<1>6. ASSUME NEW p \in Proses, NEW n \in DOMAIN bid, NEW d \in Pengiriman,
             PickedUp(p, n, d) \/ KirimPengiriman(p, n, d)
      PROVE  Terbawa'
  <2>1. jadwal[d] # TanpaJadwal
    <3>1. n # 0
      BY DEF TypeInv, TypeOK
    <3> QED BY <1>6, <3>1 DEF PickedUp, KirimPengiriman, TanpaJadwal
  <2>2. PICK tahap : Mulai(p, tahap, bid[n].kurir, n, {d})
    BY <1>6 DEF PickedUp, KirimPengiriman
  <2> DEFINE r == [ProsesBebas EXCEPT !.tahap = tahap, !.kurir = bid[n].kurir,
                                      !.bid = n, !.kirim = {d}]
  <2>3. \A q \in Proses : proses'[q] = proses[q] \/ proses'[q] = r
    BY <1>0, <2>2 DEF Mulai
  <2>4. r.kirim = {d}
    BY DEF ProsesBebas
  <2>5. UNCHANGED <<jadwal, pengiriman, tercatat>>
    BY <1>6 DEF PickedUp, KirimPengiriman
  <2>6. \A e \in Pengiriman \ {d} : Berangkat(e)' => Berangkat(e)
    <3> HIDE DEF r
    <3> QED BY <2>3, <2>4, <2>5 DEF Berangkat
  <2> QED BY <1>0, <2>1, <2>5, <2>6, TerbawaDiam
<1>7. ASSUME NEW p \in Proses, NEW n \in DOMAIN bid, NEW d \in Pengiriman, SampaiPengiriman(p, n, d)
      PROVE  Terbawa'
  <2> DEFINE r == [ProsesBebas EXCEPT !.tahap = "sampai", !.kurir = bid[n].kurir,
                                      !.bid = n, !.kirim = {d}]
  <2>1. r.tahap = "sampai"
    BY DEF ProsesBebas
  <2> QED BY <1>7, <1>b, <2>1 DEF SampaiPengiriman, Mulai
<1>8. ASSUME NEW p \in Proses, AmbilTulis(p) \/ KirimTulis(p) PROVE Terbawa'
  <2>1. PICK d \in proses[p].kirim, st \in StatusJadwal :
            /\ TulisJadwal({d}, st)
            /\ \A e \in Pengiriman \ {d} : pengiriman'[e] = pengiriman[e]
    <3>1. "Kirim" \in StatusJadwal /\ "Finish" \in StatusJadwal
      BY DEF StatusJadwal
    <3>2. CASE AmbilTulis(p)
      <4>1. PICK d \in proses[p].kirim : /\ TulisJadwal({d}, "Kirim")
                                         /\ pengiriman' = [pengiriman EXCEPT ![d] = "Picked Up"]
        BY <3>2 DEF AmbilTulis
      <4> QED BY <1>0, <3>1, <4>1
    <3>3. CASE KirimTulis(p)
      <4>1. PICK d \in proses[p].kirim :
                /\ TulisJadwal({d}, "Finish")
                /\ \E s : pengiriman' = [pengiriman EXCEPT ![d] = s]
        BY <3>3 DEF KirimTulis
      <4> QED BY <1>0, <3>1, <4>1
    <3> QED BY <1>8, <3>2, <3>3
  <2>2. UNCHANGED <<bid, tercatat>> /\ Lepas(p)
    BY <1>8 DEF AmbilTulis, KirimTulis
  <2>3. Berangkat(d)
    BY <1>8 DEF AmbilTulis, KirimTulis, Berangkat
  <2>4. \A q \in Proses : proses'[q] = proses[q] \/ proses'[q] = ProsesBebas
    BY <1>0, <2>2 DEF Lepas
  <2>5. \A e \in Pengiriman : Berangkat(e)' => Berangkat(e)
    BY <1>a, <2>1, <2>3, <2>4 DEF Berangkat
  <2>6. \A e \in Pengiriman : jadwal'[e] = TanpaJadwal => jadwal[e] = TanpaJadwal
    BY <2>1, <2>2, TulisJadwalBaru
  <2> QED BY <1>0, <2>2, <2>5, <2>6, TerbawaDiam
<1>9. ASSUME NEW p \in Proses, SampaiHitung(p) \/ SampaiBaca(p) \/ SampaiCek(p) PROVE Terbawa'
  <2>1. UNCHANGED <<jadwal, pengiriman, tercatat>>
    BY <1>9 DEF SampaiHitung, SampaiBaca, SampaiCek
  <2>2. PICK r : proses' = [proses EXCEPT ![p] = r] /\ r.tahap \notin {"ambilTulis", "kirimTulis"}
    <3>1. proses[p] \in TipeProses
      BY <1>0
    <3>2. CASE SampaiHitung(p)
      <4>1. PICK f : proses' = [proses EXCEPT ![p] = [proses[p] EXCEPT !.final = f]]
        BY <1>0, <3>2 DEF SampaiHitung
      <4> DEFINE r == [proses[p] EXCEPT !.final = f]
      <4>2. r.tahap \in {"sampai", "bayar"}
        BY <3>1, <3>2 DEF TipeProses, SampaiHitung
      <4> QED BY <4>1, <4>2
    <3>3. CASE SampaiBaca(p) \/ SampaiCek(p)
      <4>1. PICK t \in {"bayar", "sampaiTulis"} :
                proses' = [proses EXCEPT ![p] = [proses[p] EXCEPT !.tahap = t]]
        BY <1>0, <3>3 DEF SampaiBaca, SampaiCek, Ke
      <4> DEFINE r == [proses[p] EXCEPT !.tahap = t]
      <4>2. r.tahap = t
        BY <3>1 DEF TipeProses
      <4> QED BY <4>1, <4>2
    <3> QED BY <1>9, <3>2, <3>3
  <2> QED BY <1>b, <2>1, <2>2
<1>10. ASSUME NEW p \in Proses, Disbursment(p) PROVE Terbawa'
  <2>1. UNCHANGED <<jadwal, pengiriman, tercatat>>
    BY <1>10 DEF Disbursment
  <2>2. Lepas(p) \/ \E d \in proses[p].kirim : \E sah : Berikut(p, d, sah)
    BY <1>10 DEF Disbursment
  <2>3. CASE Lepas(p)
    BY <1>a, <1>b, <2>1, <2>3 DEF Lepas
  <2>4. CASE \E d \in proses[p].kirim : \E sah : Berikut(p, d, sah)
    <3>0. PICK d \in proses[p].kirim : \E sah : Berikut(p, d, sah)
      BY <2>4
    <3>1. PICK sah : Berikut(p, d, sah)
      BY <3>0
    <3> DEFINE t == IF proses[p].urut < Len(DaftarPenerima(d)) THEN "bayar" ELSE "cek"
               r == [proses[p] EXCEPT !.tahap = t, !.urut = @ + 1, !.sah = sah]
    <3>2. proses' = [proses EXCEPT ![p] = r]
      BY <3>1 DEF Berikut
    <3>3. r.tahap = t /\ t \in {"bayar", "cek"}
      BY <1>0 DEF TipeProses
    <3>4. r.tahap \notin {"ambilTulis", "kirimTulis"}
      <4> HIDE DEF r, t
      <4> QED BY <3>3
    <3> HIDE DEF r
    <3> QED BY <1>b, <2>1, <3>2, <3>4
  <2> QED BY <2>2, <2>3, <2>4
<1>11. ASSUME NEW p \in Proses, SampaiTulis(p) PROVE Terbawa'
  <2>1. PICK d \in Pengiriman :
            /\ HapusJadwal(d)
            /\ \E s : pengiriman' = [pengiriman EXCEPT ![d] = s]
            /\ tercatat' = [tercatat EXCEPT ![d] = @ + 1]
    <3>1. proses[p].kirim \subseteq Pengiriman
      BY <1>0 DEF TipeProses
    <3> QED BY <1>11, <3>1 DEF SampaiTulis
  <2>2. /\ tercatat'[d] = tercatat[d] + 1
        /\ \A e \in Pengiriman \ {d} : /\ jadwal'[e] = jadwal[e]
                                       /\ pengiriman'[e] = pengiriman[e]
                                       /\ tercatat'[e] = tercatat[e]
    BY <1>0, <2>1 DEF HapusJadwal
  <2>3. \A q \in Proses : proses'[q] = proses[q] \/ proses'[q] = ProsesBebas
    BY <1>0, <1>11 DEF SampaiTulis, Lepas
  <2>4. \A e \in Pengiriman \ {d} : Berangkat(e)' => Berangkat(e)
    BY <1>a, <2>2, <2>3 DEF Berangkat
  <2> QED BY <1>0, <2>2, <2>4, TerbawaDiam
<1>12. ASSUME NEW d \in Pengiriman, NEW n \in DOMAIN bid, JadwalkanOtomatis(d, n) PROVE Terbawa'
  <2>1. UNCHANGED <<pengiriman, tercatat, proses>>
    BY <1>12 DEF JadwalkanOtomatis
  <2>2. \A e \in Pengiriman : jadwal'[e] = TanpaJadwal => jadwal[e] = TanpaJadwal
    BY <1>0, <1>12 DEF JadwalkanOtomatis
  <2>3. \A e \in Pengiriman : Berangkat(e)' => Berangkat(e)
    BY <2>1 DEF Berangkat
  <2> QED BY <1>0, <2>1, <2>2, <2>3, TerbawaDiam
<1>13. CASE UNCHANGED vars
  BY <1>13 DEF vars, Terbawa, Berangkat
<1> QED BY <1>1, <1>2, <1>3, <1>4, <1>5, <1>6, <1>7, <1>8, <1>9, <1>10, <1>11, <1>12, <1>13
        DEF Next, Langkah

\* A delivery that was picked up stays on a bid until its payouts are saved, whatever
\* requests of couriers overlap or are sent again.
THEOREM TidakHilangBenar == Spec => []TidakHilang
<1>1. Init => Terbawa
  BY DEF Init, Terbawa, Berangkat, ProsesBebas
<1>2. TypeInv /\ TypeInv' /\ Terbawa /\ [Next]_vars => Terbawa'
  BY TerbawaLangkah, KurirAssumption
<1>3. Terbawa => TidakHilang
  BY DEF Terbawa, Berangkat, TidakHilang
<1> QED BY <1>1, <1>2, <1>3, TypeInvBenar, PTL DEF Spec

-----------------------------------------------------------------------------
(* The orderly courier.  A request that is about to write has read rows that *)
(* are still as it read them, because nobody else works on its courier's bid. *)

\* What request r has read of scheduler rows before it writes at stage tahap.
Dibaca(r, tahap, st) ==
    r.tahap = tahap => \A d \in r.kirim : jadwal[d] = [bid |-> r.bid, status |-> st]

\* On bid n only one delivery is further than waiting.
SatuBerjalan(n) ==
    \A d, e \in Pengiriman :
        /\ jadwal[d].bid = n /\ jadwal[d].status # "Wait"
        /\ jadwal[e].bid = n /\ jadwal[e].status # "Wait"
        => d = e

ProsesTertib(r) ==
    /\ r.tahap = "aktifTulis" => \A n \in DOMAIN bid : bid[n].kurir # r.kurir
    /\ r.tahap \notin {"bebas", "aktifTulis"} => bid[r.bid].kurir = r.kurir
    /\ Dibaca(r, "kunciTulis", "Wait")
    /\ Dibaca(r, "ambilTulis", "Ambil")
    /\ Dibaca(r, "kirimTulis", "Kirim")
    /\ Dibaca(r, "sampaiTulis", "Finish")
    /\ r.tahap \in TahapSampai /\ r.final = "ya" => SatuBerjalan(r.bid)

\* A courier has one request at a time, and one bid.
Eksklusif ==
    \A p, q \in Proses :
        p # q /\ proses[p].tahap # "bebas" /\ proses[q].tahap # "bebas"
            => proses[p].kurir # proses[q].kurir
BidUnik == \A m, n \in DOMAIN bid : bid[m].kurir = bid[n].kurir => m = n

Mengumpulkan ==
    \A n \in DOMAIN bid : bid[n].status = "Mengumpulkan" =>
        \A d \in Pengiriman : jadwal[d].bid = n => jadwal[d].status = "Wait"

StatusSesuai ==
    \A n \in DOMAIN bid :
        statusBid[bid[n].kurir] = IF bid[n].status = "Siap Antar" THEN "OnDelivery" ELSE "Idle"

SlotInv ==
    \A n \in DOMAIN bid : /\ IsFiniteSet(Terjadwal(n))
                          /\ bid[n].slot + Cardinality(Terjadwal(n)) = MaxSlot

BidInv == BidUnik /\ Mengumpulkan /\ StatusSesuai /\ SlotInv
AlurInv == Eksklusif /\ \A p \in Proses : ProsesTertib(proses[p])
TertibInv == TypeInv /\ AlurInv /\ BidInv /\ JadwalSesuai

-----------------------------------------------------------------------------
(* Data.                                                                    *)

LEMMA BebasTertib == ProsesTertib(ProsesBebas)
BY DEF ProsesTertib, ProsesBebas, Dibaca, TahapSampai

\* The stories of a delivery, one by one.
LEMMA CeritaArti ==
    ASSUME NEW d, NEW js, NEW ps, NEW ts, NEW jk, NEW tc
    PROVE  <<js, ps, ts, jk, tc>> \in Cerita(d) <=>
              \/ js \in {"tanpa", "Wait", "Ambil"} /\ ps = "Waiting" /\ ts = "Waiting" /\ jk = 0 /\ tc = 0
              \/ js = "Kirim" /\ ps = "Picked Up" /\ ts = "Dikirim" /\ jk = 1 /\ tc = 0
              \/ /\ js = "Finish" /\ ts = "Dikirim" /\ jk = 1 /\ tc = 0
                 /\ ps = IF d \in Ekspedisi THEN "Dikirim" ELSE "Diperjalanan"
              \/ /\ js = "tanpa" /\ jk = 1 /\ tc = 1
                 /\ ps = IF d \in Ekspedisi THEN "Sampai Agent" ELSE "Sampai"
                 /\ ts = IF d \in Ekspedisi THEN "Dikirim" ELSE "Selesai"
BY DEF Cerita

LEMMA JadwalKolom ==
    ASSUME jadwal \in [Pengiriman -> BarisJadwal], NEW d \in Pengiriman
    PROVE  /\ jadwal[d] = TanpaJadwal <=> jadwal[d].bid = 0
           /\ jadwal[d] = TanpaJadwal <=> jadwal[d].status = "tanpa"
           /\ \A n, st : jadwal[d].bid = n /\ jadwal[d].status = st
                             => jadwal[d] = [bid |-> n, status |-> st]
BY DEF BarisJadwal, TanpaJadwal, StatusJadwal

\* What an update of scheduler rows by id changes.
LEMMA TulisJadwalIsi ==
    ASSUME jadwal \in [Pengiriman -> BarisJadwal], NEW S, NEW st, TulisJadwal(S, st)
    PROVE  \A d \in Pengiriman :
               /\ jadwal'[d].bid = jadwal[d].bid
               /\ d \in S /\ jadwal[d] # TanpaJadwal => jadwal'[d].status = st
               /\ d \notin S => jadwal'[d] = jadwal[d]
<1> TAKE d \in Pengiriman
<1>1. jadwal[d] \in BarisJadwal
  OBVIOUS
<1>2. jadwal'[d] = IF d \in S /\ jadwal[d] # TanpaJadwal
                   THEN [jadwal[d] EXCEPT !.status = st] ELSE jadwal[d]
  BY DEF TulisJadwal
<1>3. /\ [jadwal[d] EXCEPT !.status = st].bid = jadwal[d].bid
      /\ [jadwal[d] EXCEPT !.status = st].status = st
  BY <1>1 DEF BarisJadwal, TanpaJadwal
<1> QED BY <1>2, <1>3

-----------------------------------------------------------------------------
(* Steps that leave the tables alone.                                       *)

LEMMA TabelTetap ==
    ASSUME TertibInv, TypeInv', NEW p \in Proses, NEW r, proses' = [proses EXCEPT ![p] = r],
           UNCHANGED <<statusBid, bid, jadwal, pengiriman, transaksi, jejak, tercatat>>,
           ProsesTertib(r),
           r.tahap = "bebas" \/ \A q \in Proses \ {p} :
               proses[q].tahap # "bebas" => proses[q].kurir # r.kurir
    PROVE  TertibInv' /\ UNCHANGED transaksi
<1>1. proses'[p] = r /\ \A q \in Proses \ {p} : proses'[q] = proses[q]
  BY DEF TertibInv, TypeInv, TypeOK
<1>2. Eksklusif'
  BY <1>1 DEF TertibInv, AlurInv, Eksklusif
<1>3. \A q \in Proses : ProsesTertib(proses'[q])
  BY <1>1 DEF TertibInv, AlurInv
<1>4. \A q \in Proses : ProsesTertib(proses[q])'
  BY <1>3 DEF ProsesTertib, Dibaca, SatuBerjalan
<1>5. BidInv' /\ JadwalSesuai'
  <2>1. BidUnik' /\ Mengumpulkan' /\ StatusSesuai'
    BY DEF TertibInv, BidInv, BidUnik, Mengumpulkan, StatusSesuai
  <2>2. SlotInv'
    BY DEF TertibInv, BidInv, SlotInv, Terjadwal
  <2>3. JadwalSesuai'
    BY DEF TertibInv, JadwalSesuai
  <2> QED BY <2>1, <2>2, <2>3 DEF BidInv
<1> QED BY <1>2, <1>4, <1>5 DEF TertibInv, AlurInv

\* A request begins: the courier has no other.
LEMMA MulaiTertib ==
    ASSUME KurirTertib, TertibInv, TypeInv', NEW p \in Proses, NEW k, Giliran(k), NEW r,
           r.kurir = k, proses' = [proses EXCEPT ![p] = r],
           UNCHANGED <<statusBid, bid, jadwal, pengiriman, transaksi, jejak, tercatat>>,
           ProsesTertib(r)
    PROVE  TertibInv' /\ UNCHANGED transaksi
BY TabelTetap DEF Giliran

\* A request goes on.
LEMMA TerusTertib ==
    ASSUME TertibInv, TypeInv', NEW p \in Proses, NEW r, proses[p].tahap # "bebas",
           r.kurir = proses[p].kurir, proses' = [proses EXCEPT ![p] = r],
           UNCHANGED <<statusBid, bid, jadwal, pengiriman, transaksi, jejak, tercatat>>,
           ProsesTertib(r)
    PROVE  TertibInv' /\ UNCHANGED transaksi
BY TabelTetap DEF TertibInv, AlurInv, Eksklusif

LEMMA LepasTertib ==
    ASSUME TertibInv, TypeInv', NEW p \in Proses, Lepas(p),
           UNCHANGED <<statusBid, bid, jadwal, pengiriman, transaksi, jejak, tercatat>>
    PROVE  TertibInv' /\ UNCHANGED transaksi
<1>1. ProsesBebas.tahap = "bebas"
  BY DEF ProsesBebas
<1> QED BY <1>1, TabelTetap, BebasTertib DEF Lepas

-----------------------------------------------------------------------------
(* Steps that write rows of one bid.                                        *)

\* Requests of other couriers do not notice.
LEMMA AlurTulis ==
    ASSUME TertibInv, NEW p \in Proses, proses[p].tahap \notin {"bebas", "aktifTulis"}, Lepas(p),
           DOMAIN bid' = DOMAIN bid, \A n \in DOMAIN bid : bid'[n].kurir = bid[n].kurir,
           \A d \in Pengiriman : \/ jadwal'[d] = jadwal[d]
                                 \/ /\ jadwal[d].bid = proses[p].bid
                                    /\ jadwal'[d].bid \in {proses[p].bid, 0}
    PROVE  AlurInv'
<1>0. /\ proses \in [Proses -> TipeProses]
      /\ \A q \in Proses : ProsesJelas(proses[q], DOMAIN bid)
      /\ \A q \in Proses : ProsesTertib(proses[q])
      /\ bid \in Seq(BarisBid)
      /\ Eksklusif
  BY DEF TertibInv, AlurInv, TypeInv, TypeOK
<1>1. proses'[p] = ProsesBebas /\ \A q \in Proses \ {p} : proses'[q] = proses[q]
  BY <1>0 DEF Lepas
<1>2. Eksklusif'
  BY <1>0, <1>1 DEF Eksklusif, ProsesBebas
<1>3. ProsesTertib(proses[p])'
  BY <1>1 DEF ProsesTertib, ProsesBebas, Dibaca, TahapSampai
<1>4. ASSUME NEW q \in Proses \ {p} PROVE ProsesTertib(proses[q])'
  <2>0. PICK r : r = proses[q]
    OBVIOUS
  <2>1. proses'[q] = r /\ ProsesTertib(r) /\ ProsesJelas(r, DOMAIN bid)
    BY <1>0, <1>1, <2>0
  <2>2. CASE r.tahap \in {"bebas", "aktifTulis"}
    BY <2>1, <2>2 DEF ProsesTertib, Dibaca, TahapSampai
  <2>3. CASE r.tahap \notin {"bebas", "aktifTulis"}
    <3>1. r.bid \in DOMAIN bid /\ bid[r.bid].kurir = r.kurir
      BY <2>1, <2>3 DEF ProsesJelas, ProsesTertib
    <3>2. bid[proses[p].bid].kurir = proses[p].kurir
      BY <1>0 DEF ProsesTertib
    <3>3. r.kurir # proses[p].kurir
      BY <1>0, <2>0, <2>3 DEF Eksklusif
    <3>4. r.bid # proses[p].bid /\ r.bid # 0
      BY <1>0, <3>1, <3>2, <3>3
    <3>5. \A d \in Pengiriman : jadwal'[d].bid = r.bid => jadwal'[d] = jadwal[d]
      BY <3>4
    <3>6. \A d \in Pengiriman : jadwal[d].bid = r.bid => jadwal'[d] = jadwal[d]
      BY <3>4
    <3>7. r.kirim \subseteq Pengiriman
      BY <1>0, <2>0 DEF TipeProses
    <3>8. ASSUME NEW tahap, NEW st, Dibaca(r, tahap, st) PROVE Dibaca(proses[q], tahap, st)'
      BY <2>1, <3>6, <3>7, <3>8 DEF Dibaca
    <3>9. r.tahap \in TahapSampai /\ r.final = "ya" => SatuBerjalan(r.bid)'
      BY <2>1, <3>5 DEF ProsesTertib, SatuBerjalan
    <3>10. bid'[r.bid].kurir = r.kurir
      BY <3>1
    <3> QED BY <2>1, <2>3, <3>8, <3>9, <3>10 DEF ProsesTertib, Dibaca, SatuBerjalan
  <2> QED BY <2>2, <2>3
<1> QED BY <1>2, <1>3, <1>4 DEF AlurInv

\* The other tables when nothing comes onto a bid or off one.
LEMMA SlotTetap ==
    ASSUME SlotInv, DOMAIN bid' = DOMAIN bid,
           \A n \in DOMAIN bid : bid'[n].slot = bid[n].slot,
           \A d \in Pengiriman : jadwal'[d].bid = jadwal[d].bid
    PROVE  SlotInv'
<1>1. \A n : Terjadwal(n)' = Terjadwal(n)
  BY DEF Terjadwal
<1> QED BY <1>1 DEF SlotInv

-----------------------------------------------------------------------------
(* The steps, one by one.                                                   *)

LEMMA MulaiLangkah ==
    ASSUME KurirTertib, TertibInv, TypeInv', NEW p \in Proses
    PROVE  /\ \A k \in Kurir, eks \in BOOLEAN :
                 AktifkanBidKurir(p, k, eks) => TertibInv' /\ UNCHANGED transaksi
           /\ \A n \in DOMAIN bid : LockSiapAntarBidKurir(p, n) => TertibInv' /\ UNCHANGED transaksi
           /\ \A n \in DOMAIN bid, d \in Pengiriman :
                 PickedUp(p, n, d) \/ KirimPengiriman(p, n, d) \/ SampaiPengiriman(p, n, d)
                     => TertibInv' /\ UNCHANGED transaksi
<1>1. ASSUME NEW k \in Kurir, NEW eks \in BOOLEAN, AktifkanBidKurir(p, k, eks)
      PROVE  TertibInv' /\ UNCHANGED transaksi
  <2> DEFINE r == [ProsesBebas EXCEPT !.tahap = "aktifTulis", !.kurir = k, !.eks = eks]
  <2>1. r.tahap = "aktifTulis" /\ r.kurir = k
    BY DEF ProsesBebas
  <2>2. \A n \in DOMAIN bid : bid[n].kurir # k
    BY <1>1 DEF AktifkanBidKurir
  <2>3. ProsesTertib(r)
    <3> HIDE DEF r
    <3> QED BY <2>1, <2>2 DEF ProsesTertib, Dibaca, TahapSampai
  <2> QED BY <1>1, <2>1, <2>3, MulaiTertib DEF AktifkanBidKurir
<1>2. ASSUME NEW n \in DOMAIN bid, LockSiapAntarBidKurir(p, n)
      PROVE  TertibInv' /\ UNCHANGED transaksi
  <2> DEFINE r == [ProsesBebas EXCEPT !.tahap = "kunciBaca", !.bid = n,
                                      !.kurir = bid[n].kurir, !.slot = bid[n].slot]
  <2>1. r.tahap = "kunciBaca" /\ r.kurir = bid[n].kurir /\ r.bid = n
    BY DEF ProsesBebas
  <2>2. ProsesTertib(r)
    <3> HIDE DEF r
    <3> QED BY <2>1 DEF ProsesTertib, Dibaca, TahapSampai
  <2> QED BY <1>2, <2>1, <2>2, MulaiTertib DEF LockSiapAntarBidKurir
<1>3. ASSUME NEW n \in DOMAIN bid, NEW d \in Pengiriman,
             PickedUp(p, n, d) \/ KirimPengiriman(p, n, d) \/ SampaiPengiriman(p, n, d)
      PROVE  TertibInv' /\ UNCHANGED transaksi
  <2>1. PICK tahap \in {"ambilTulis", "kirimTulis", "sampai"} :
            /\ Mulai(p, tahap, bid[n].kurir, n, {d})
            /\ tahap = "ambilTulis" => jadwal[d] = [bid |-> n, status |-> "Ambil"]
            /\ tahap = "kirimTulis" => jadwal[d] = [bid |-> n, status |-> "Kirim"]
    BY <1>3 DEF PickedUp, KirimPengiriman, SampaiPengiriman
  <2> DEFINE r == [ProsesBebas EXCEPT !.tahap = tahap, !.kurir = bid[n].kurir,
                                      !.bid = n, !.kirim = {d}]
  <2>2. /\ r.tahap = tahap /\ r.kurir = bid[n].kurir /\ r.bid = n /\ r.kirim = {d}
        /\ r.final = "belum"
    BY DEF ProsesBebas
  <2>3. ProsesTertib(r)
    <3> HIDE DEF r
    <3> QED BY <2>1, <2>2 DEF ProsesTertib, Dibaca
  <2>4. Giliran(bid[n].kurir) /\ proses' = [proses EXCEPT ![p] = r]
    BY <2>1 DEF Mulai
  <2>5. UNCHANGED <<statusBid, bid, jadwal, pengiriman, transaksi, jejak, tercatat>>
    BY <1>3 DEF PickedUp, KirimPengiriman, SampaiPengiriman
  <2> HIDE DEF r
  <2> QED BY <2>2, <2>3, <2>4, <2>5, MulaiTertib
<1> QED BY <1>1, <1>2, <1>3

LEMMA KunciBacaTertib ==
    ASSUME TertibInv, TypeInv', NEW p \in Proses, KunciBaca(p)
    PROVE  TertibInv' /\ UNCHANGED transaksi
<1>1. PICK ids \in SUBSET TerjadwalPada(proses[p].bid, "Wait") :
          proses' = [proses EXCEPT ![p].tahap = "kunciTulis", ![p].kirim = ids]
  BY DEF KunciBaca
<1> DEFINE r == [proses[p] EXCEPT !.tahap = "kunciTulis", !.kirim = ids]
<1>0. /\ proses \in [Proses -> TipeProses] /\ proses[p] \in TipeProses
      /\ jadwal \in [Pengiriman -> BarisJadwal] /\ ProsesTertib(proses[p])
  BY DEF TertibInv, AlurInv, TypeInv, TypeOK
<1>2. proses' = [proses EXCEPT ![p] = r]
  BY <1>0, <1>1
<1>3. /\ r.tahap = "kunciTulis" /\ r.kirim = ids
      /\ r.kurir = proses[p].kurir /\ r.bid = proses[p].bid
  BY <1>0 DEF TipeProses
<1>4. bid[proses[p].bid].kurir = proses[p].kurir
  BY <1>0 DEF ProsesTertib, KunciBaca
<1>5. \A d \in ids : jadwal[d] = [bid |-> proses[p].bid, status |-> "Wait"]
  BY <1>0, JadwalKolom DEF TerjadwalPada, Terjadwal
<1>6. ProsesTertib(r)
  <2> HIDE DEF r
  <2> QED BY <1>3, <1>4, <1>5 DEF ProsesTertib, Dibaca, TahapSampai
<1> HIDE DEF r
<1> QED BY <1>2, <1>3, <1>6, TerusTertib DEF KunciBaca

LEMMA SampaiTertib ==
    ASSUME TertibInv, TypeInv', NEW p \in Proses,
           SampaiHitung(p) \/ SampaiBaca(p) \/ SampaiCek(p) \/ Disbursment(p)
    PROVE  TertibInv' /\ UNCHANGED transaksi
<1>0. /\ proses \in [Proses -> TipeProses] /\ proses[p] \in TipeProses
      /\ jadwal \in [Pengiriman -> BarisJadwal]
      /\ ProsesTertib(proses[p]) /\ ProsesJelas(proses[p], DOMAIN bid)
      /\ proses[p].tahap \in {"sampai", "bayar", "cek"}
  BY DEF TertibInv, AlurInv, TypeInv, TypeOK, SampaiHitung, SampaiBaca, SampaiCek, Disbursment
<1>1. /\ UNCHANGED <<statusBid, bid, jadwal, pengiriman, transaksi, jejak, tercatat>>
      /\ bid[proses[p].bid].kurir = proses[p].kurir /\ proses[p].bid \in DOMAIN bid
  BY <1>0 DEF SampaiHitung, SampaiBaca, SampaiCek, Disbursment, ProsesTertib, ProsesJelas
\* The arrival goes on with the same courier and bid.
<1>2. ASSUME NEW r, proses' = [proses EXCEPT ![p] = r],
             r.kurir = proses[p].kurir, r.bid = proses[p].bid, r.tahap \in TahapSampai,
             r.final = "ya" => SatuBerjalan(proses[p].bid),
             r.tahap = "sampaiTulis" =>
                 \A d \in r.kirim : jadwal[d] = [bid |-> r.bid, status |-> "Finish"]
      PROVE  TertibInv' /\ UNCHANGED transaksi
  <2>1. ProsesTertib(r)
    BY <1>1, <1>2 DEF ProsesTertib, Dibaca, TahapSampai
  <2> QED BY <1>0, <1>1, <1>2, <2>1, TerusTertib
<1>3. proses[p].final = "ya" => SatuBerjalan(proses[p].bid)
  BY <1>0 DEF ProsesTertib, TahapSampai
<1>4. CASE SampaiHitung(p)
  <2>1. PICK f \in {"ya", "tidak"} :
            /\ proses' = [proses EXCEPT ![p] = [proses[p] EXCEPT !.final = f]]
            /\ f = "ya" => Cardinality(Terjadwal(proses[p].bid)) = 1
    BY <1>0, <1>4 DEF SampaiHitung
  <2> DEFINE r == [proses[p] EXCEPT !.final = f]
  <2>2. r.final = f /\ r.kurir = proses[p].kurir /\ r.bid = proses[p].bid /\ r.tahap = proses[p].tahap
    BY <1>0 DEF TipeProses
  <2>3. f = "ya" => SatuBerjalan(proses[p].bid)
    <3> SUFFICES ASSUME f = "ya" PROVE SatuBerjalan(proses[p].bid)
      OBVIOUS
    <3> DEFINE S == Terjadwal(proses[p].bid)
    <3>1. IsFiniteSet(S) /\ Cardinality(S) = 1
      BY <1>1, <2>1 DEF TertibInv, BidInv, SlotInv
    <3>2. \E x : S = {x}
      BY <3>1, FS_Singleton
    <3> QED BY <3>2 DEF SatuBerjalan, Terjadwal
  <2>4. proses' = [proses EXCEPT ![p] = r]
    BY <2>1
  <2>5. r.tahap \in TahapSampai /\ r.tahap # "sampaiTulis"
    BY <1>0, <2>2 DEF TahapSampai
  <2> HIDE DEF r
  <2> QED BY <1>2, <2>2, <2>3, <2>4, <2>5
<1>5. CASE SampaiBaca(p)
  <2> DEFINE r == [proses[p] EXCEPT !.tahap = "bayar"]
  <2>1. proses' = [proses EXCEPT ![p] = r]
    BY <1>5 DEF SampaiBaca, Ke
  <2>2. /\ r.final = proses[p].final /\ r.kurir = proses[p].kurir /\ r.bid = proses[p].bid
        /\ r.tahap = "bayar"
    BY <1>0 DEF TipeProses
  <2> HIDE DEF r
  <2> QED BY <1>2, <1>3, <2>1, <2>2 DEF TahapSampai
<1>6. CASE SampaiCek(p)
  <2> DEFINE r == [proses[p] EXCEPT !.tahap = "sampaiTulis"]
  <2>1. proses' = [proses EXCEPT ![p] = r]
    BY <1>6 DEF SampaiCek, Ke
  <2>2. /\ r.final = proses[p].final /\ r.kurir = proses[p].kurir /\ r.bid = proses[p].bid
        /\ r.tahap = "sampaiTulis" /\ r.kirim = proses[p].kirim
    BY <1>0 DEF TipeProses
  <2>3. PICK d : proses[p].kirim = {d}
    BY <1>0 DEF ProsesJelas, TahapSampai
  <2>4. jadwal[d] = [bid |-> proses[p].bid, status |-> "Finish"]
    BY <1>6, <2>3 DEF SampaiCek
  <2> HIDE DEF r
  <2> QED BY <1>2, <1>3, <2>1, <2>2, <2>3, <2>4 DEF TahapSampai
<1>7. CASE Disbursment(p)
  <2>1. Lepas(p) \/ \E d \in proses[p].kirim : \E sah : Berikut(p, d, sah)
    BY <1>7 DEF Disbursment
  <2>2. CASE Lepas(p)
    BY <1>1, <2>2, LepasTertib
  <2>3. CASE \E d \in proses[p].kirim : \E sah : Berikut(p, d, sah)
    <3>0. PICK d \in proses[p].kirim : \E sah : Berikut(p, d, sah)
      BY <2>3
    <3>1. PICK sah : Berikut(p, d, sah)
      BY <3>0
    <3> DEFINE t == IF proses[p].urut < Len(DaftarPenerima(d)) THEN "bayar" ELSE "cek"
               r == [proses[p] EXCEPT !.tahap = t, !.urut = @ + 1, !.sah = sah]
    <3>2. proses' = [proses EXCEPT ![p] = r]
      BY <3>1 DEF Berikut
    <3>3. /\ r.tahap = t /\ t \in {"bayar", "cek"}
          /\ r.final = proses[p].final /\ r.kurir = proses[p].kurir /\ r.bid = proses[p].bid
      BY <1>0 DEF TipeProses
    <3> HIDE DEF r, t
    <3> QED BY <1>2, <1>3, <3>2, <3>3 DEF TahapSampai
  <2> QED BY <2>1, <2>2, <2>3
<1> QED BY <1>4, <1>5, <1>6, <1>7

LEMMA AktifTertib ==
    ASSUME KurirAssumption, TertibInv, TypeInv', NEW p \in Proses, AktifTulis(p)
    PROVE  TertibInv' /\ UNCHANGED transaksi
<1> DEFINE m == Len(bid) + 1
<1>0. /\ proses \in [Proses -> TipeProses]
      /\ \A q \in Proses : ProsesTertib(proses[q]) /\ ProsesJelas(proses[q], DOMAIN bid)
      /\ bid \in Seq(BarisBid) /\ statusBid \in [Kurir -> StatusKurir]
      /\ jadwal \in [Pengiriman -> BarisJadwal]
      /\ \A d \in Pengiriman : jadwal[d] # TanpaJadwal => jadwal[d].bid \in DOMAIN bid
      /\ Eksklusif /\ BidUnik /\ Mengumpulkan /\ StatusSesuai /\ SlotInv /\ JadwalSesuai
  BY DEF TertibInv, AlurInv, BidInv, TypeInv, TypeOK
<1>1. PICK k \in Kurir : k = proses[p].kurir
  BY <1>0 DEF AktifTulis, ProsesJelas
<1>2. \A n \in DOMAIN bid : bid[n].kurir # k
  BY <1>0, <1>1 DEF AktifTulis, ProsesTertib
<1>3. UNCHANGED <<jadwal, pengiriman, transaksi, jejak, tercatat>>
  BY DEF AktifTulis
<1>4. PICK b : /\ bid' = Append(bid, b)
               /\ b.kurir = k /\ b.slot = MaxSlot /\ b.status = "Mengumpulkan"
  BY <1>1 DEF AktifTulis
<1>5. /\ m \in Nat \ {0} /\ m \notin DOMAIN bid /\ DOMAIN bid' = DOMAIN bid \cup {m}
      /\ bid'[m] = b /\ \A n \in DOMAIN bid : bid'[n] = bid[n]
  BY <1>0, <1>4
<1>6. statusBid'[k] = "Idle" /\ \A l \in Kurir \ {k} : statusBid'[l] = statusBid[l]
  BY <1>0, <1>1 DEF AktifTulis
<1>7. proses'[p] = ProsesBebas /\ \A q \in Proses \ {p} : proses'[q] = proses[q]
  BY <1>0 DEF AktifTulis, Lepas
<1>8. \A d \in Pengiriman : jadwal[d].bid # m
  BY <1>0, <1>5, JadwalKolom
<1> HIDE DEF m
<1>9. AlurInv'
  <2>1. Eksklusif'
    BY <1>0, <1>7 DEF Eksklusif, ProsesBebas
  <2>2. ProsesTertib(proses[p])'
    BY <1>7 DEF ProsesTertib, ProsesBebas, Dibaca, TahapSampai
  <2>3. ASSUME NEW q \in Proses \ {p} PROVE ProsesTertib(proses[q])'
    <3>1. PICK r : r = proses[q]
      OBVIOUS
    <3>2. proses'[q] = r /\ ProsesTertib(r) /\ ProsesJelas(r, DOMAIN bid)
      BY <1>0, <1>7, <3>1
    <3>3. r.tahap # "bebas" => r.kurir # k
      BY <1>0, <1>1, <3>1 DEF Eksklusif, AktifTulis
    <3>4. r.tahap = "aktifTulis" => \A n \in DOMAIN bid' : bid'[n].kurir # r.kurir
      BY <1>4, <1>5, <3>2, <3>3 DEF ProsesTertib
    <3>5. r.tahap \notin {"bebas", "aktifTulis"} => bid'[r.bid].kurir = r.kurir
      BY <1>5, <3>2 DEF ProsesTertib, ProsesJelas
    <3> QED BY <1>3, <3>2, <3>4, <3>5 DEF ProsesTertib, Dibaca, SatuBerjalan
  <2> QED BY <2>1, <2>2, <2>3 DEF AlurInv
<1>10. BidInv'
  <2>1. BidUnik'
    BY <1>0, <1>2, <1>4, <1>5 DEF BidUnik
  <2>2. Mengumpulkan'
    BY <1>0, <1>3, <1>5, <1>8 DEF Mengumpulkan
  <2>3. StatusSesuai'
    <3>1. \A n \in DOMAIN bid : bid[n].kurir \in Kurir
      BY <1>0, BidType
    <3> SUFFICES ASSUME NEW n \in DOMAIN bid'
                 PROVE  statusBid'[bid'[n].kurir] =
                            IF bid'[n].status = "Siap Antar" THEN "OnDelivery" ELSE "Idle"
      BY DEF StatusSesuai
    <3>2. CASE n = m
      BY <1>4, <1>5, <1>6, <3>2
    <3>3. CASE n \in DOMAIN bid
      <4>1. statusBid[bid[n].kurir] = IF bid[n].status = "Siap Antar" THEN "OnDelivery" ELSE "Idle"
        BY <1>0, <3>3 DEF StatusSesuai
      <4>2. statusBid'[bid[n].kurir] = statusBid[bid[n].kurir] /\ bid'[n] = bid[n]
        BY <1>2, <1>5, <1>6, <3>1, <3>3
      <4> QED BY <4>1, <4>2
    <3> QED BY <1>5, <3>2, <3>3
  <2>4. SlotInv'
    <3>1. \A n : Terjadwal(n)' = Terjadwal(n)
      BY <1>3 DEF Terjadwal
    <3>2. Terjadwal(m) = {}
      BY <1>8 DEF Terjadwal
    <3>3. IsFiniteSet(Terjadwal(m)) /\ Cardinality(Terjadwal(m)) = 0
      BY <3>2, FS_EmptySet
    <3>4. bid'[m].slot + Cardinality(Terjadwal(m)) = MaxSlot
      BY <1>4, <1>5, <3>3 DEF KurirAssumption
    <3> QED BY <1>0, <1>5, <3>1, <3>3, <3>4 DEF SlotInv
  <2> QED BY <2>1, <2>2, <2>3, <2>4 DEF BidInv
<1>11. JadwalSesuai'
  BY <1>0, <1>3 DEF JadwalSesuai
<1> QED BY <1>3, <1>9, <1>10, <1>11 DEF TertibInv

\* What any of the three writes about one bid has in common.
LEMMA TulisUmum ==
    ASSUME TertibInv, NEW p \in Proses, proses[p].tahap \notin {"bebas", "aktifTulis"}
    PROVE  /\ proses \in [Proses -> TipeProses]
           /\ proses[p].kirim \subseteq Pengiriman
           /\ ProsesTertib(proses[p]) /\ ProsesJelas(proses[p], DOMAIN bid)
           /\ proses[p].bid \in DOMAIN bid /\ bid[proses[p].bid].kurir = proses[p].kurir
           /\ proses[p].bid \in Nat \ {0} /\ proses[p].kurir \in Kurir
           /\ bid \in Seq(BarisBid) /\ statusBid \in [Kurir -> StatusKurir]
           /\ jadwal \in [Pengiriman -> BarisJadwal]
           /\ pengiriman \in [Pengiriman -> StatusPengiriman]
           /\ transaksi \in [Pengiriman -> StatusTransaksi]
           /\ jejak \in [Pengiriman -> Nat] /\ tercatat \in [Pengiriman -> Nat]
           /\ Eksklusif /\ BidUnik /\ Mengumpulkan /\ StatusSesuai /\ SlotInv /\ JadwalSesuai
<1>1. ProsesTertib(proses[p]) /\ ProsesJelas(proses[p], DOMAIN bid)
  BY DEF TertibInv, AlurInv, TypeInv
<1>2. proses[p].bid \in DOMAIN bid /\ bid[proses[p].bid].kurir = proses[p].kurir
  BY <1>1 DEF ProsesTertib, ProsesJelas
<1>3. bid \in Seq(BarisBid) /\ proses \in [Proses -> TipeProses]
  BY DEF TertibInv, TypeInv, TypeOK
<1>4. proses[p].bid \in Nat \ {0} /\ proses[p].kurir \in Kurir
  BY <1>2, <1>3, BidType
<1>5. proses[p].kirim \subseteq Pengiriman
  BY <1>3 DEF TipeProses
<1> QED BY <1>1, <1>2, <1>3, <1>4, <1>5 DEF TertibInv, AlurInv, BidInv, TypeInv, TypeOK

LEMMA KunciTertib ==
    ASSUME TertibInv, TypeInv', NEW p \in Proses, KunciTulis(p)
    PROVE  TertibInv' /\ UNCHANGED transaksi
<1>1. PICK n, k, ids : n = proses[p].bid /\ k = proses[p].kurir /\ ids = proses[p].kirim
  OBVIOUS
<1>2. proses[p].tahap = "kunciTulis"
  BY DEF KunciTulis
<1>3. /\ n \in DOMAIN bid /\ bid[n].kurir = k /\ n \in Nat \ {0} /\ k \in Kurir
      /\ ids \subseteq Pengiriman
      /\ \A d \in ids : jadwal[d] = [bid |-> n, status |-> "Wait"]
  BY <1>1, <1>2, TulisUmum DEF ProsesTertib, Dibaca
<1>4. /\ \A d \in Pengiriman : jadwal'[d].bid = jadwal[d].bid
      /\ \A d \in ids : jadwal'[d].status = "Ambil"
      /\ \A d \in Pengiriman \ ids : jadwal'[d] = jadwal[d]
  <2>1. TulisJadwal(ids, "Ambil") /\ jadwal \in [Pengiriman -> BarisJadwal]
    BY <1>1, <1>2, TulisUmum DEF KunciTulis
  <2>2. \A d \in ids : jadwal[d] # TanpaJadwal
    BY <1>3 DEF TanpaJadwal
  <2> QED BY <1>3, <2>1, <2>2, TulisJadwalIsi
<1>5. /\ DOMAIN bid' = DOMAIN bid
      /\ \A i \in DOMAIN bid : bid'[i].kurir = bid[i].kurir /\ bid'[i].slot = bid[i].slot
      /\ bid'[n].status = "Siap Antar"
      /\ \A i \in DOMAIN bid \ {n} : bid'[i] = bid[i]
  <2>1. bid \in Seq(BarisBid) /\ bid[n] \in BarisBid
    BY <1>2, <1>3, TulisUmum, BidType
  <2>2. bid' = [bid EXCEPT ![n] = [bid[n] EXCEPT !.status = "Siap Antar"]]
    BY <1>1, <2>1 DEF KunciTulis
  <2> QED BY <1>3, <2>1, <2>2 DEF BarisBid
<1>6. statusBid'[k] = "OnDelivery" /\ \A l \in Kurir \ {k} : statusBid'[l] = statusBid[l]
  BY <1>1, <1>2, <1>3, TulisUmum DEF KunciTulis
<1>7. UNCHANGED <<pengiriman, transaksi, jejak, tercatat>> /\ Lepas(p)
  BY DEF KunciTulis
<1>8. AlurInv'
  <2>1. \A d \in Pengiriman : \/ jadwal'[d] = jadwal[d]
                              \/ jadwal[d].bid = n /\ jadwal'[d].bid \in {n, 0}
    BY <1>3, <1>4
  <2> QED BY <1>1, <1>2, <1>5, <1>7, <2>1, AlurTulis
<1>9. BidInv'
  <2>1. BidUnik'
    BY <1>2, <1>5, TulisUmum DEF BidUnik
  <2>2. Mengumpulkan'
    <3>1. \A d \in ids : jadwal'[d].bid = n
      BY <1>3, <1>4
    <3> SUFFICES ASSUME NEW i \in DOMAIN bid, bid'[i].status = "Mengumpulkan",
                        NEW d \in Pengiriman, jadwal'[d].bid = i
                 PROVE  jadwal'[d].status = "Wait"
      BY <1>5 DEF Mengumpulkan
    <3>2. i # n /\ bid'[i] = bid[i]
      BY <1>5
    <3>3. d \notin ids /\ jadwal'[d] = jadwal[d]
      BY <1>4, <3>1, <3>2
    <3>4. Mengumpulkan
      BY <1>2, TulisUmum
    <3> QED BY <3>2, <3>3, <3>4 DEF Mengumpulkan
  <2>3. StatusSesuai'
    <3>1. \A i \in DOMAIN bid \ {n} : bid[i].kurir \in Kurir \ {k}
      BY <1>2, <1>3, TulisUmum, BidType DEF BidUnik
    <3> SUFFICES ASSUME NEW i \in DOMAIN bid
                 PROVE  statusBid'[bid'[i].kurir] =
                            IF bid'[i].status = "Siap Antar" THEN "OnDelivery" ELSE "Idle"
      BY <1>5 DEF StatusSesuai
    <3>2. CASE i = n
      BY <1>3, <1>5, <1>6, <3>2
    <3>3. CASE i # n
      <4>1. statusBid[bid[i].kurir] = IF bid[i].status = "Siap Antar" THEN "OnDelivery" ELSE "Idle"
        BY <1>2, TulisUmum DEF StatusSesuai
      <4>2. statusBid'[bid[i].kurir] = statusBid[bid[i].kurir] /\ bid'[i] = bid[i]
        BY <1>5, <1>6, <3>1, <3>3
      <4> QED BY <4>1, <4>2
    <3> QED BY <3>2, <3>3
  <2>4. SlotInv'
    BY <1>2, <1>4, <1>5, TulisUmum, SlotTetap
  <2> QED BY <2>1, <2>2, <2>3, <2>4 DEF BidInv
<1>10. JadwalSesuai'
  <2> SUFFICES ASSUME NEW d \in Pengiriman
               PROVE  <<jadwal'[d].status, pengiriman'[d], transaksi'[d], jejak'[d], tercatat'[d]>>
                          \in Cerita(d)
    BY DEF JadwalSesuai, Cerita
  <2>1. <<jadwal[d].status, pengiriman[d], transaksi[d], jejak[d], tercatat[d]>> \in Cerita(d)
    BY <1>2, TulisUmum DEF JadwalSesuai
  <2>2. CASE d \in ids
    <3>1. jadwal[d].status = "Wait"
      BY <1>3, <2>2
    <3>2. pengiriman[d] = "Waiting" /\ transaksi[d] = "Waiting" /\ jejak[d] = 0 /\ tercatat[d] = 0
      BY <2>1, <3>1 DEF Cerita
    <3> QED BY <1>4, <1>7, <2>2, <3>2 DEF Cerita
  <2>3. CASE d \notin ids
    BY <1>4, <1>7, <2>1, <2>3
  <2> QED BY <2>2, <2>3
<1> QED BY <1>7, <1>8, <1>9, <1>10 DEF TertibInv

\* A delivery that is under way goes on.
LEMMA BarisNaik ==
    ASSUME TertibInv, NEW p \in Proses, proses[p].tahap \notin {"bebas", "aktifTulis"}, Lepas(p),
           UNCHANGED <<statusBid, bid>>, NEW d \in Pengiriman,
           NEW S, S = {d}, NEW t, TulisJadwal(S, t), jadwal[d].bid = proses[p].bid, jadwal[d].status # "Wait"
    PROVE  /\ AlurInv' /\ BidInv'
           /\ jadwal'[d].status = t /\ \A e \in Pengiriman \ {d} : jadwal'[e] = jadwal[e]
<1>1. PICK n : n = proses[p].bid
  OBVIOUS
<1>2. jadwal[d].bid = n /\ jadwal[d].status # "Wait" /\ n # 0 /\ jadwal[d] # TanpaJadwal
  BY <1>1, TulisUmum DEF TanpaJadwal
<1>3. jadwal \in [Pengiriman -> BarisJadwal]
  BY TulisUmum
<1>4. /\ \A e \in Pengiriman : jadwal'[e].bid = jadwal[e].bid
      /\ jadwal'[d].status = t
      /\ \A e \in Pengiriman \ {d} : jadwal'[e] = jadwal[e]
  BY <1>2, <1>3, TulisJadwalIsi
<1>5. AlurInv'
  <2>1. \A e \in Pengiriman : \/ jadwal'[e] = jadwal[e]
                              \/ jadwal[e].bid = n /\ jadwal'[e].bid \in {n, 0}
    BY <1>2, <1>4
  <2> QED BY <1>1, <2>1, AlurTulis
<1>6. BidInv'
  <2>1. BidUnik' /\ StatusSesuai'
    BY TulisUmum DEF BidUnik, StatusSesuai
  <2>2. Mengumpulkan'
    <3>1. \A i \in DOMAIN bid : bid[i].status = "Mengumpulkan" => jadwal[d].bid # i
      BY <1>2, TulisUmum DEF Mengumpulkan
    <3> SUFFICES ASSUME NEW i \in DOMAIN bid, bid[i].status = "Mengumpulkan",
                        NEW e \in Pengiriman, jadwal'[e].bid = i
                 PROVE  jadwal'[e].status = "Wait"
      BY DEF Mengumpulkan
    <3>2. e # d /\ jadwal'[e] = jadwal[e]
      BY <1>4, <3>1
    <3>3. Mengumpulkan
      BY TulisUmum
    <3> QED BY <3>2, <3>3 DEF Mengumpulkan
  <2>3. SlotInv'
    BY <1>4, TulisUmum, SlotTetap
  <2> QED BY <2>1, <2>2, <2>3 DEF BidInv
<1> QED BY <1>4, <1>5, <1>6

LEMMA AmbilTertib ==
    ASSUME TertibInv, TypeInv', NEW p \in Proses, AmbilTulis(p)
    PROVE  TertibInv' /\ [Siklus!Next]_transaksi
<1>1. proses[p].tahap = "ambilTulis" /\ Lepas(p) /\ UNCHANGED <<statusBid, bid, tercatat>>
  BY DEF AmbilTulis
<1>2. /\ proses[p].kirim \subseteq Pengiriman /\ jadwal \in [Pengiriman -> BarisJadwal]
      /\ pengiriman \in [Pengiriman -> StatusPengiriman]
      /\ transaksi \in [Pengiriman -> StatusTransaksi]
      /\ jejak \in [Pengiriman -> Nat] /\ tercatat \in [Pengiriman -> Nat]
      /\ ProsesTertib(proses[p]) /\ JadwalSesuai
  BY <1>1, TulisUmum
<1>3. PICK d \in proses[p].kirim :
          /\ TulisJadwal({d}, "Kirim")
          /\ pengiriman' = [pengiriman EXCEPT ![d] = "Picked Up"]
          /\ jejak' = [jejak EXCEPT ![d] = @ + 1]
          /\ transaksi' = [transaksi EXCEPT ![d] = "Dikirim"]
  BY DEF AmbilTulis
<1>4. d \in Pengiriman /\ jadwal[d] = [bid |-> proses[p].bid, status |-> "Ambil"]
  BY <1>1, <1>2 DEF ProsesTertib, Dibaca
<1>5. /\ AlurInv' /\ BidInv'
      /\ jadwal'[d].status = "Kirim" /\ \A e \in Pengiriman \ {d} : jadwal'[e] = jadwal[e]
  <2>0. PICK S : S = {d}
    OBVIOUS
  <2>1. /\ proses[p].tahap \notin {"bebas", "aktifTulis"}
        /\ UNCHANGED <<statusBid, bid>>
        /\ jadwal[d].bid = proses[p].bid /\ jadwal[d].status # "Wait"
    BY <1>1, <1>4
  <2>2. TulisJadwal(S, "Kirim")
    BY <1>3, <2>0 DEF TulisJadwal
  <2> QED BY <1>1, <1>4, <2>0, <2>1, <2>2, BarisNaik
<1>6. /\ pengiriman[d] = "Waiting" /\ transaksi[d] = "Waiting" /\ jejak[d] = 0 /\ tercatat[d] = 0
  <2>1. <<jadwal[d].status, pengiriman[d], transaksi[d], jejak[d], tercatat[d]>> \in Cerita(d)
    BY <1>2, <1>4 DEF JadwalSesuai
  <2> QED BY <1>4, <2>1 DEF Cerita
<1>7. /\ pengiriman'[d] = "Picked Up" /\ transaksi'[d] = "Dikirim" /\ jejak'[d] = 1
      /\ tercatat'[d] = 0
      /\ \A e \in Pengiriman \ {d} : /\ pengiriman'[e] = pengiriman[e] /\ transaksi'[e] = transaksi[e]
                                     /\ jejak'[e] = jejak[e] /\ tercatat'[e] = tercatat[e]
  <2>1. jejak[d] + 1 = 1
    BY <1>6
  <2> QED BY <1>1, <1>2, <1>3, <1>4, <1>6, <2>1
<1>8. JadwalSesuai'
  <2> SUFFICES ASSUME NEW e \in Pengiriman
               PROVE  <<jadwal'[e].status, pengiriman'[e], transaksi'[e], jejak'[e], tercatat'[e]>>
                          \in Cerita(e)
    BY DEF JadwalSesuai, Cerita
  <2>1. CASE e = d
    BY <1>5, <1>7, <2>1 DEF Cerita
  <2>2. CASE e # d
    <3>1. <<jadwal[e].status, pengiriman[e], transaksi[e], jejak[e], tercatat[e]>> \in Cerita(e)
      BY <1>2 DEF JadwalSesuai
    <3> QED BY <1>5, <1>7, <2>2, <3>1
  <2> QED BY <2>1, <2>2
<1>9. Siklus!Next
  BY <1>3, <1>4, <1>6 DEF Siklus!Next, Siklus!Dikirim, Siklus!Pindah
<1> QED BY <1>5, <1>8, <1>9 DEF TertibInv

LEMMA KirimTertib ==
    ASSUME TertibInv, TypeInv', NEW p \in Proses, KirimTulis(p)
    PROVE  TertibInv' /\ UNCHANGED transaksi
<1>1. /\ proses[p].tahap = "kirimTulis" /\ Lepas(p)
      /\ UNCHANGED <<statusBid, bid, transaksi, jejak, tercatat>>
  BY DEF KirimTulis
<1>2. /\ proses[p].kirim \subseteq Pengiriman
      /\ pengiriman \in [Pengiriman -> StatusPengiriman]
      /\ ProsesTertib(proses[p]) /\ JadwalSesuai
  BY <1>1, TulisUmum
<1>3. PICK d \in proses[p].kirim :
          /\ TulisJadwal({d}, "Finish")
          /\ pengiriman' = [pengiriman EXCEPT ![d] =
                               IF d \in Ekspedisi THEN "Dikirim" ELSE "Diperjalanan"]
  BY DEF KirimTulis
<1>4. d \in Pengiriman /\ jadwal[d] = [bid |-> proses[p].bid, status |-> "Kirim"]
  BY <1>1, <1>2 DEF ProsesTertib, Dibaca
<1>5. /\ AlurInv' /\ BidInv'
      /\ jadwal'[d].status = "Finish" /\ \A e \in Pengiriman \ {d} : jadwal'[e] = jadwal[e]
  <2>0. PICK S : S = {d}
    OBVIOUS
  <2>1. /\ proses[p].tahap \notin {"bebas", "aktifTulis"}
        /\ UNCHANGED <<statusBid, bid>>
        /\ jadwal[d].bid = proses[p].bid /\ jadwal[d].status # "Wait"
    BY <1>1, <1>4
  <2>2. TulisJadwal(S, "Finish")
    BY <1>3, <2>0 DEF TulisJadwal
  <2> QED BY <1>1, <1>4, <2>0, <2>1, <2>2, BarisNaik
<1>6. transaksi[d] = "Dikirim" /\ jejak[d] = 1 /\ tercatat[d] = 0
  <2>1. <<jadwal[d].status, pengiriman[d], transaksi[d], jejak[d], tercatat[d]>> \in Cerita(d)
    BY <1>2, <1>4 DEF JadwalSesuai
  <2>2. jadwal[d].status = "Kirim"
    BY <1>4
  <2> QED BY <2>1, <2>2 DEF Cerita
<1>7. /\ pengiriman'[d] = IF d \in Ekspedisi THEN "Dikirim" ELSE "Diperjalanan"
      /\ \A e \in Pengiriman \ {d} : pengiriman'[e] = pengiriman[e]
  BY <1>2, <1>3, <1>4
<1>8. JadwalSesuai'
  <2> SUFFICES ASSUME NEW e \in Pengiriman
               PROVE  <<jadwal'[e].status, pengiriman'[e], transaksi'[e], jejak'[e], tercatat'[e]>>
                          \in Cerita(e)
    BY DEF JadwalSesuai, Cerita
  <2>1. CASE e = d
    BY <1>1, <1>5, <1>6, <1>7, <2>1 DEF Cerita
  <2>2. CASE e # d
    <3>1. <<jadwal[e].status, pengiriman[e], transaksi[e], jejak[e], tercatat[e]>> \in Cerita(e)
      BY <1>2 DEF JadwalSesuai
    <3> QED BY <1>1, <1>5, <1>7, <2>2, <3>1
  <2> QED BY <2>1, <2>2
<1> QED BY <1>1, <1>5, <1>8 DEF TertibInv

LEMMA TibaTertib ==
    ASSUME KurirAssumption, TertibInv, TypeInv', NEW p \in Proses, SampaiTulis(p)
    PROVE  TertibInv' /\ [Siklus!Next]_transaksi
<1>1. /\ proses[p].tahap = "sampaiTulis" /\ Lepas(p)
      /\ UNCHANGED jejak /\ bid' = BidSampai(proses[p])
      /\ statusBid' = [statusBid EXCEPT ![proses[p].kurir] =
                           IF proses[p].final = "ya" THEN "Idle" ELSE @]
  BY DEF SampaiTulis
<1>2. PICK n, k, f : n = proses[p].bid /\ k = proses[p].kurir /\ f = proses[p].final
  OBVIOUS
<1>3. /\ proses[p].kirim \subseteq Pengiriman /\ jadwal \in [Pengiriman -> BarisJadwal]
      /\ pengiriman \in [Pengiriman -> StatusPengiriman]
      /\ transaksi \in [Pengiriman -> StatusTransaksi]
      /\ jejak \in [Pengiriman -> Nat] /\ tercatat \in [Pengiriman -> Nat]
      /\ bid \in Seq(BarisBid) /\ statusBid \in [Kurir -> StatusKurir]
      /\ n \in DOMAIN bid /\ n \in Nat \ {0} /\ bid[n].kurir = k /\ k \in Kurir
      /\ ProsesTertib(proses[p])
      /\ BidUnik /\ Mengumpulkan /\ StatusSesuai /\ SlotInv /\ JadwalSesuai
  BY <1>1, <1>2, TulisUmum
<1>4. PICK d \in proses[p].kirim :
          /\ HapusJadwal(d)
          /\ pengiriman' = [pengiriman EXCEPT ![d] =
                               IF d \in Ekspedisi THEN "Sampai Agent" ELSE "Sampai"]
          /\ transaksi' = [transaksi EXCEPT ![d] = IF d \in Ekspedisi THEN @ ELSE "Selesai"]
          /\ tercatat' = [tercatat EXCEPT ![d] = @ + 1]
  BY DEF SampaiTulis
<1>5. d \in Pengiriman /\ jadwal[d].bid = n /\ jadwal[d].status = "Finish"
  <2>1. Dibaca(proses[p], "sampaiTulis", "Finish")
    BY <1>3 DEF ProsesTertib
  <2>2. jadwal[d] = [bid |-> n, status |-> "Finish"]
    BY <1>1, <1>2, <2>1 DEF Dibaca
  <2> QED BY <1>3, <2>2
<1>6. jadwal'[d] = TanpaJadwal /\ \A e \in Pengiriman \ {d} : jadwal'[e] = jadwal[e]
  BY <1>3, <1>4, <1>5 DEF HapusJadwal
<1>7. TanpaJadwal.bid = 0 /\ TanpaJadwal.status = "tanpa"
  BY DEF TanpaJadwal
<1>8. f = "ya" => SatuBerjalan(n)
  BY <1>1, <1>2, <1>3 DEF ProsesTertib, TahapSampai
<1>9. PICK t : t = IF f = "ya" THEN "Mengumpulkan" ELSE bid[n].status
  OBVIOUS
<1>10. /\ DOMAIN bid' = DOMAIN bid /\ bid'[n].slot = bid[n].slot + 1
       /\ bid'[n].status = t /\ bid'[n].kurir = k
       /\ \A i \in DOMAIN bid \ {n} : bid'[i] = bid[i]
  <2>1. bid[n] \in BarisBid
    BY <1>3
  <2>2. bid' = [bid EXCEPT ![n] = [bid[n] EXCEPT !.slot = bid[n].slot + 1, !.status = t]]
    BY <1>1, <1>2, <1>9 DEF BidSampai
  <2> QED BY <1>3, <2>1, <2>2 DEF BarisBid
<1>11. /\ statusBid'[k] = IF f = "ya" THEN "Idle" ELSE statusBid[k]
       /\ \A l \in Kurir \ {k} : statusBid'[l] = statusBid[l]
  BY <1>1, <1>2, <1>3
<1>12. AlurInv'
  <2>1. \A e \in Pengiriman : \/ jadwal'[e] = jadwal[e]
                              \/ jadwal[e].bid = n /\ jadwal'[e].bid \in {n, 0}
    BY <1>5, <1>6, <1>7
  <2>2. \A i \in DOMAIN bid : bid'[i].kurir = bid[i].kurir
    BY <1>3, <1>10
  <2> QED BY <1>1, <1>2, <1>10, <2>1, <2>2, AlurTulis
<1>13. BidInv'
  <2>1. BidUnik'
    BY <1>3, <1>10 DEF BidUnik
  <2>2. Mengumpulkan'
    <3> SUFFICES ASSUME NEW i \in DOMAIN bid, bid'[i].status = "Mengumpulkan",
                        NEW e \in Pengiriman, jadwal'[e].bid = i
                 PROVE  jadwal'[e].status = "Wait"
      BY <1>10 DEF Mengumpulkan
    <3>1. e # d /\ jadwal'[e] = jadwal[e]
      BY <1>3, <1>6, <1>7
    <3>2. CASE i # n
      BY <1>3, <1>10, <3>1, <3>2 DEF Mengumpulkan
    <3>3. CASE i = n /\ f = "ya"
      BY <1>5, <1>8, <3>1, <3>3 DEF SatuBerjalan
    <3>4. CASE i = n /\ f # "ya"
      BY <1>3, <1>5, <1>9, <1>10, <3>4 DEF Mengumpulkan
    <3> QED BY <3>2, <3>3, <3>4
  <2>3. StatusSesuai'
    <3>1. \A i \in DOMAIN bid \ {n} : bid[i].kurir \in Kurir \ {k}
      BY <1>3, BidType DEF BidUnik
    <3> SUFFICES ASSUME NEW i \in DOMAIN bid
                 PROVE  statusBid'[bid'[i].kurir] =
                            IF bid'[i].status = "Siap Antar" THEN "OnDelivery" ELSE "Idle"
      BY <1>10 DEF StatusSesuai
    <3>2. statusBid[bid[i].kurir] = IF bid[i].status = "Siap Antar" THEN "OnDelivery" ELSE "Idle"
      BY <1>3 DEF StatusSesuai
    <3>3. CASE i = n
      <4>1. CASE f = "ya"
        BY <1>9, <1>10, <1>11, <3>3, <4>1
      <4>2. CASE f # "ya"
        BY <1>3, <1>9, <1>10, <1>11, <3>2, <3>3, <4>2
      <4> QED BY <4>1, <4>2
    <3>4. CASE i # n
      <4>1. statusBid'[bid[i].kurir] = statusBid[bid[i].kurir] /\ bid'[i] = bid[i]
        BY <1>10, <1>11, <3>1, <3>4
      <4> QED BY <3>2, <4>1
    <3> QED BY <3>3, <3>4
  <2>4. SlotInv'
    <3>1. Terjadwal(n)' = Terjadwal(n) \ {d}
      BY <1>3, <1>5, <1>6, <1>7 DEF Terjadwal
    <3>2. ASSUME NEW i \in DOMAIN bid \ {n} PROVE Terjadwal(i)' = Terjadwal(i)
      <4>1. i # 0
        BY <1>3, BidType
      <4>2. \A e \in Pengiriman : jadwal'[e].bid = i <=> jadwal[e].bid = i
        BY <1>5, <1>6, <1>7, <4>1
      <4> QED BY <4>2 DEF Terjadwal
    <3>3. d \in Terjadwal(n)
      BY <1>5 DEF Terjadwal
    <3>4. IsFiniteSet(Terjadwal(n)) /\ bid[n].slot + Cardinality(Terjadwal(n)) = MaxSlot
      BY <1>3 DEF SlotInv
    <3>5. /\ IsFiniteSet(Terjadwal(n)')
          /\ Cardinality(Terjadwal(n)') = Cardinality(Terjadwal(n)) - 1
      BY <3>1, <3>3, <3>4, FS_RemoveElement
    <3>6. bid[n].slot \in Int /\ Cardinality(Terjadwal(n)) \in Nat
      BY <1>3, <3>4, BidType, FS_CardinalityType
    <3>7. bid'[n].slot + Cardinality(Terjadwal(n)') = MaxSlot
      BY <1>10, <3>4, <3>5, <3>6 DEF KurirAssumption
    <3> QED BY <1>3, <1>10, <3>2, <3>5, <3>7 DEF SlotInv
  <2> QED BY <2>1, <2>2, <2>3, <2>4 DEF BidInv
<1>14. transaksi[d] = "Dikirim" /\ jejak[d] = 1 /\ tercatat[d] = 0
  <2>1. <<jadwal[d].status, pengiriman[d], transaksi[d], jejak[d], tercatat[d]>> \in Cerita(d)
    BY <1>3, <1>5 DEF JadwalSesuai
  <2> QED BY <1>5, <2>1 DEF Cerita
<1>15. /\ pengiriman'[d] = IF d \in Ekspedisi THEN "Sampai Agent" ELSE "Sampai"
       /\ transaksi'[d] = IF d \in Ekspedisi THEN "Dikirim" ELSE "Selesai"
       /\ jejak'[d] = 1 /\ tercatat'[d] = 1
       /\ \A e \in Pengiriman \ {d} : /\ pengiriman'[e] = pengiriman[e] /\ transaksi'[e] = transaksi[e]
                                      /\ jejak'[e] = jejak[e] /\ tercatat'[e] = tercatat[e]
  <2>1. tercatat[d] + 1 = 1
    BY <1>14
  <2> QED BY <1>1, <1>3, <1>4, <1>5, <1>14, <2>1
<1>16. JadwalSesuai'
  <2> SUFFICES ASSUME NEW e \in Pengiriman
               PROVE  <<jadwal'[e].status, pengiriman'[e], transaksi'[e], jejak'[e], tercatat'[e]>>
                          \in Cerita(e)
    BY DEF JadwalSesuai, Cerita
  <2>1. CASE e = d
    BY <1>6, <1>7, <1>15, <2>1 DEF Cerita
  <2>2. CASE e # d
    <3>1. <<jadwal[e].status, pengiriman[e], transaksi[e], jejak[e], tercatat[e]>> \in Cerita(e)
      BY <1>3 DEF JadwalSesuai
    <3> QED BY <1>6, <1>15, <2>2, <3>1
  <2> QED BY <2>1, <2>2
<1>17. [Siklus!Next]_transaksi
  <2>1. CASE d \in Ekspedisi
    BY <1>3, <1>4, <1>5, <2>1
  <2>2. CASE d \notin Ekspedisi
    <3>1. transaksi' = [transaksi EXCEPT ![d] = "Selesai"]
      BY <1>4, <2>2
    <3> QED BY <1>5, <1>14, <3>1 DEF Siklus!Next, Siklus!Selesai, Siklus!Pindah
  <2> QED BY <2>1, <2>2
<1> QED BY <1>12, <1>13, <1>16, <1>17 DEF TertibInv

LEMMA OtomatisTertib ==
    ASSUME KurirAssumption, TertibInv, TypeInv', NEW d \in Pengiriman, NEW n \in DOMAIN bid,
           JadwalkanOtomatis(d, n)
    PROVE  TertibInv' /\ UNCHANGED transaksi
<1>1. /\ jadwal[d] = TanpaJadwal /\ pengiriman[d] = "Waiting"
      /\ jadwal' = [jadwal EXCEPT ![d] = [bid |-> n, status |-> "Wait"]]
      /\ bid' = [bid EXCEPT ![n].slot = @ - 1]
      /\ UNCHANGED <<statusBid, pengiriman, transaksi, jejak, tercatat, proses>>
  BY DEF JadwalkanOtomatis
<1>2. /\ proses \in [Proses -> TipeProses] /\ jadwal \in [Pengiriman -> BarisJadwal]
      /\ bid \in Seq(BarisBid)
      /\ \A q \in Proses : ProsesTertib(proses[q]) /\ ProsesJelas(proses[q], DOMAIN bid)
      /\ Eksklusif /\ BidUnik /\ Mengumpulkan /\ StatusSesuai /\ SlotInv /\ JadwalSesuai
  BY DEF TertibInv, AlurInv, BidInv, TypeInv, TypeOK
<1>3. n \in Nat \ {0} /\ bid[n] \in BarisBid /\ bid[n].slot \in Int
  BY <1>2, BidType
<1>4. TanpaJadwal.bid = 0 /\ TanpaJadwal.status = "tanpa"
  BY DEF TanpaJadwal
<1>5. /\ jadwal'[d].bid = n /\ jadwal'[d].status = "Wait"
      /\ \A e \in Pengiriman \ {d} : jadwal'[e] = jadwal[e]
  BY <1>1, <1>2
<1>6. /\ DOMAIN bid' = DOMAIN bid /\ bid'[n].slot = bid[n].slot - 1
      /\ \A i \in DOMAIN bid : bid'[i].kurir = bid[i].kurir /\ bid'[i].status = bid[i].status
      /\ \A i \in DOMAIN bid \ {n} : bid'[i] = bid[i]
  <2>1. bid' = [bid EXCEPT ![n] = [bid[n] EXCEPT !.slot = bid[n].slot - 1]]
    BY <1>1
  <2> QED BY <1>2, <1>3, <2>1 DEF BarisBid
<1>7. AlurInv'
  <2>1. Eksklusif'
    BY <1>1, <1>2 DEF Eksklusif
  <2>2. ASSUME NEW q \in Proses PROVE ProsesTertib(proses[q])'
    <3>1. PICK r : r = proses[q]
      OBVIOUS
    <3>2. /\ proses'[q] = r /\ ProsesTertib(r) /\ ProsesJelas(r, DOMAIN bid)
          /\ r.kirim \subseteq Pengiriman
      BY <1>1, <1>2, <3>1 DEF TipeProses
    <3>3. ASSUME NEW tahap, NEW st, tahap \notin {"bebas", "aktifTulis"}, Dibaca(r, tahap, st)
          PROVE  Dibaca(proses[q], tahap, st)'
      <4>1. r.tahap = tahap => d \notin r.kirim
        <5>1. r.tahap = tahap => r.bid # 0
          BY <1>2, <3>2, <3>3, BidType DEF ProsesJelas
        <5> QED BY <1>1, <1>4, <3>3, <5>1 DEF Dibaca
      <4> QED BY <1>5, <3>2, <3>3, <4>1 DEF Dibaca
    <3>4. ASSUME NEW m, SatuBerjalan(m) PROVE SatuBerjalan(m)'
      BY <1>5, <3>4 DEF SatuBerjalan
    <3>5. r.tahap = "aktifTulis" => \A i \in DOMAIN bid' : bid'[i].kurir # r.kurir
      BY <1>6, <3>2 DEF ProsesTertib
    <3>6. r.tahap \notin {"bebas", "aktifTulis"} => bid'[r.bid].kurir = r.kurir
      BY <1>6, <3>2 DEF ProsesTertib, ProsesJelas
    <3>7. r.tahap \in TahapSampai /\ r.final = "ya" => SatuBerjalan(r.bid)'
      BY <3>2, <3>4 DEF ProsesTertib
    <3>8. /\ Dibaca(proses[q], "kunciTulis", "Wait")' /\ Dibaca(proses[q], "ambilTulis", "Ambil")'
          /\ Dibaca(proses[q], "kirimTulis", "Kirim")' /\ Dibaca(proses[q], "sampaiTulis", "Finish")'
      <4>1. /\ Dibaca(r, "kunciTulis", "Wait") /\ Dibaca(r, "ambilTulis", "Ambil")
            /\ Dibaca(r, "kirimTulis", "Kirim") /\ Dibaca(r, "sampaiTulis", "Finish")
        BY <3>2 DEF ProsesTertib
      <4> QED BY <3>3, <4>1
    <3>9. SatuBerjalan(proses[q].bid)' <=> SatuBerjalan(r.bid)'
      BY <3>2 DEF SatuBerjalan
    <3> QED BY <3>2, <3>5, <3>6, <3>7, <3>8, <3>9 DEF ProsesTertib
  <2> QED BY <2>1, <2>2 DEF AlurInv
<1>8. BidInv'
  <2>1. BidUnik' /\ StatusSesuai'
    <3>1. BidUnik'
      BY <1>2, <1>6 DEF BidUnik
    <3>2. \A i \in DOMAIN bid :
              statusBid[bid[i].kurir] = IF bid[i].status = "Siap Antar" THEN "OnDelivery" ELSE "Idle"
      BY <1>2 DEF StatusSesuai
    <3>3. StatusSesuai'
      <4> SUFFICES ASSUME NEW i \in DOMAIN bid
                   PROVE  statusBid'[bid'[i].kurir] =
                              IF bid'[i].status = "Siap Antar" THEN "OnDelivery" ELSE "Idle"
        BY <1>6 DEF StatusSesuai
      <4>1. /\ bid'[i].kurir = bid[i].kurir /\ bid'[i].status = bid[i].status
            /\ statusBid' = statusBid
        BY <1>1, <1>6
      <4> QED BY <3>2, <4>1
    <3> QED BY <3>1, <3>3
  <2>2. Mengumpulkan'
    BY <1>2, <1>5, <1>6 DEF Mengumpulkan
  <2>3. SlotInv'
    <3>1. Terjadwal(n)' = Terjadwal(n) \cup {d}
      BY <1>5 DEF Terjadwal
    <3>2. ASSUME NEW i \in DOMAIN bid \ {n} PROVE Terjadwal(i)' = Terjadwal(i)
      <4>1. i # 0
        BY <1>2, BidType
      <4>2. \A e \in Pengiriman : jadwal'[e].bid = i <=> jadwal[e].bid = i
        BY <1>1, <1>4, <1>5, <4>1
      <4> QED BY <4>2 DEF Terjadwal
    <3>3. d \notin Terjadwal(n)
      BY <1>1, <1>3, <1>4 DEF Terjadwal
    <3>4. IsFiniteSet(Terjadwal(n)) /\ bid[n].slot + Cardinality(Terjadwal(n)) = MaxSlot
      BY <1>2 DEF SlotInv
    <3>5. /\ IsFiniteSet(Terjadwal(n)')
          /\ Cardinality(Terjadwal(n)') = Cardinality(Terjadwal(n)) + 1
      BY <3>1, <3>3, <3>4, FS_AddElement
    <3>6. Cardinality(Terjadwal(n)) \in Nat
      BY <3>4, FS_CardinalityType
    <3>7. bid'[n].slot + Cardinality(Terjadwal(n)') = MaxSlot
      BY <1>3, <1>6, <3>4, <3>5, <3>6 DEF KurirAssumption
    <3> QED BY <1>2, <1>6, <3>2, <3>5, <3>7 DEF SlotInv
  <2> QED BY <2>1, <2>2, <2>3 DEF BidInv
<1>9. JadwalSesuai'
  <2> SUFFICES ASSUME NEW e \in Pengiriman
               PROVE  <<jadwal'[e].status, pengiriman'[e], transaksi'[e], jejak'[e], tercatat'[e]>>
                          \in Cerita(e)
    BY DEF JadwalSesuai, Cerita
  <2>1. <<jadwal[e].status, pengiriman[e], transaksi[e], jejak[e], tercatat[e]>> \in Cerita(e)
    BY <1>2 DEF JadwalSesuai
  <2>2. CASE e = d
    <3>1. jadwal[d].status = "tanpa"
      BY <1>1, <1>4
    <3>2. transaksi[d] = "Waiting" /\ jejak[d] = 0 /\ tercatat[d] = 0
      BY <1>1, <2>1, <2>2, <3>1 DEF Cerita
    <3> QED BY <1>1, <1>5, <2>2, <3>2 DEF Cerita
  <2>3. CASE e # d
    BY <1>1, <1>5, <2>1, <2>3
  <2> QED BY <2>2, <2>3
<1> QED BY <1>1, <1>7, <1>8, <1>9 DEF TertibInv

-----------------------------------------------------------------------------
(* The invariant and what follows from it.                                  *)

LEMMA TertibInit == ASSUME KurirAssumption, Init PROVE TertibInv
<1>1. TypeInv
  BY TypeInit
<1>2. AlurInv
  <2>1. \A p \in Proses : proses[p] = ProsesBebas
    BY DEF Init
  <2> QED BY <2>1, BebasTertib DEF AlurInv, Eksklusif, ProsesBebas
<1>3. BidInv
  BY DEF Init, BidInv, BidUnik, Mengumpulkan, StatusSesuai, SlotInv
<1>4. JadwalSesuai
  BY DEF Init, JadwalSesuai, Cerita, TanpaJadwal
<1> QED BY <1>1, <1>2, <1>3, <1>4 DEF TertibInv

LEMMA TertibLangkah ==
    ASSUME KurirAssumption, KurirTertib, TertibInv, TypeInv', [Next]_vars
    PROVE  TertibInv' /\ [Siklus!Next]_transaksi
<1>1. ASSUME NEW p \in Proses, Langkah(p) PROVE TertibInv' /\ [Siklus!Next]_transaksi
  <2>1. CASE \/ \E k \in Kurir : \E eks \in BOOLEAN : AktifkanBidKurir(p, k, eks)
             \/ \E n \in DOMAIN bid : LockSiapAntarBidKurir(p, n)
             \/ \E n \in DOMAIN bid : \E d \in Pengiriman : \/ PickedUp(p, n, d)
                                                           \/ KirimPengiriman(p, n, d)
                                                           \/ SampaiPengiriman(p, n, d)
    BY <2>1, MulaiLangkah
  <2>2. CASE AktifTulis(p)
    BY <2>2, AktifTertib
  <2>3. CASE KunciBaca(p)
    BY <2>3, KunciBacaTertib
  <2>4. CASE KunciTulis(p)
    BY <2>4, KunciTertib
  <2>5. CASE AmbilTulis(p)
    BY <2>5, AmbilTertib
  <2>6. CASE KirimTulis(p)
    BY <2>6, KirimTertib
  <2>7. CASE SampaiHitung(p) \/ SampaiBaca(p) \/ Disbursment(p) \/ SampaiCek(p)
    BY <2>7, SampaiTertib
  <2>8. CASE SampaiTulis(p)
    BY <2>8, TibaTertib
  <2>9. CASE Putus(p)
    BY <2>9, LepasTertib DEF Putus
  <2> QED BY <1>1, <2>1, <2>2, <2>3, <2>4, <2>5, <2>6, <2>7, <2>8, <2>9 DEF Langkah
<1>2. ASSUME NEW d \in Pengiriman, NEW n \in DOMAIN bid, JadwalkanOtomatis(d, n)
      PROVE  TertibInv' /\ [Siklus!Next]_transaksi
  BY <1>2, OtomatisTertib
<1>3. CASE UNCHANGED vars
  <2>1. UNCHANGED <<statusBid, bid, jadwal, pengiriman, transaksi, jejak, tercatat, proses>>
    BY <1>3 DEF vars
  <2>2. AlurInv' /\ JadwalSesuai'
    BY <2>1 DEF TertibInv, AlurInv, Eksklusif, ProsesTertib, Dibaca, SatuBerjalan, JadwalSesuai
  <2>3. BidInv'
    BY <2>1 DEF TertibInv, BidInv, BidUnik, Mengumpulkan, StatusSesuai, SlotInv, Terjadwal
  <2> QED BY <2>1, <2>2, <2>3 DEF TertibInv
<1> QED BY <1>1, <1>2, <1>3 DEF Next

LEMMA TertibInvBenar == KurirTertib => (Spec => []TertibInv)
<1> SUFFICES ASSUME KurirTertib PROVE Spec => []TertibInv
  OBVIOUS
<1>1. Init => TertibInv
  BY TertibInit, KurirAssumption
<1>2. TertibInv /\ TypeInv' /\ [Next]_vars => TertibInv'
  BY TertibLangkah, KurirAssumption
<1> QED BY <1>1, <1>2, TypeInvBenar, PTL DEF Spec

LEMMA BidDariInv == TertibInv => StatusBidSesuai /\ MengumpulkanTanpaBawaan /\ SlotKekal
<1>1. ASSUME TertibInv PROVE StatusBidSesuai /\ MengumpulkanTanpaBawaan /\ SlotKekal
  <2>1. BidUnik /\ Mengumpulkan /\ StatusSesuai /\ SlotInv
    BY <1>1 DEF TertibInv, BidInv
  <2>2. MengumpulkanTanpaBawaan
    BY <2>1 DEF Mengumpulkan, MengumpulkanTanpaBawaan, TerjadwalPada, Terjadwal
  <2> QED BY <2>1, <2>2 DEF BidUnik, StatusSesuai, StatusBidSesuai, SlotInv, SlotKekal
<1> QED BY <1>1

\* With couriers who wait for each answer the scheduler row, the delivery, the order, the
\* trail and the payouts of a delivery tell one story.
THEOREM JadwalBenar == KurirTertib => (Spec => []JadwalSesuai)
<1>1. TertibInv => JadwalSesuai
  BY DEF TertibInv
<1> QED BY <1>1, TertibInvBenar, PTL

\* With couriers who wait for each answer a bid that collects carries nothing, its courier
\* is on delivery exactly while it is locked, and its slots are free or hold a delivery.
THEOREM BidBenar ==
    KurirTertib => (Spec => [](StatusBidSesuai /\ MengumpulkanTanpaBawaan /\ SlotKekal))
BY BidDariInv, TertibInvBenar, PTL

\* What such couriers do to the orders are moves of the life the status enum promises.
THEOREM SiklusBenar == KurirTertib => (Spec => [][Siklus!Next]_transaksi)
<1> SUFFICES ASSUME KurirTertib PROVE Spec => [][Siklus!Next]_transaksi
  OBVIOUS
<1>1. TertibInv /\ TypeInv' /\ [Next]_vars => [Siklus!Next]_transaksi
  BY TertibLangkah, KurirAssumption
<1> QED BY <1>1, TertibInvBenar, TypeInvBenar, PTL DEF Spec

-----------------------------------------------------------------------------
(* The same for the instance that TLC checks, in its scenario of couriers    *)
(* who wait; its other scenario takes no step of theirs.                     *)

TypeSkenario == skenario = "tertib" => TypeInv
TertibSkenario == skenario = "tertib" => TertibInv

LEMMA SkenarioAwal == InitDua => TypeSkenario /\ TertibSkenario
BY TypeInit, TertibInit, KurirAssumption DEF InitDua, TypeSkenario, TertibSkenario

LEMMA SkenarioLangkah ==
    ASSUME KurirTertib, TypeSkenario, TertibSkenario, [NextDua]_varsDua
    PROVE  /\ TypeSkenario' /\ TertibSkenario'
           /\ skenario = "tertib" => [Siklus!Next]_transaksi
<1>1. skenario' = skenario
  BY DEF NextDua, varsDua
<1>2. CASE skenario = "tertib"
  <2>1. [Next]_vars
    BY <1>2 DEF NextDua, varsDua
  <2>2. TypeInv /\ TertibInv
    BY <1>2 DEF TypeSkenario, TertibSkenario
  <2>3. TypeInv'
    BY <2>1, <2>2, TypeLangkah, KurirAssumption
  <2>4. TertibInv' /\ [Siklus!Next]_transaksi
    BY <2>1, <2>2, <2>3, TertibLangkah, KurirAssumption
  <2> QED BY <2>3, <2>4 DEF TypeSkenario, TertibSkenario
<1>3. CASE skenario # "tertib"
  BY <1>1, <1>3 DEF TypeSkenario, TertibSkenario
<1> QED BY <1>2, <1>3

LEMMA SkenarioBenar == KurirTertib => (SpecDua => [](TypeSkenario /\ TertibSkenario))
<1> SUFFICES ASSUME KurirTertib PROVE SpecDua => [](TypeSkenario /\ TertibSkenario)
  OBVIOUS
<1>1. TypeSkenario /\ TertibSkenario /\ [NextDua]_varsDua => TypeSkenario' /\ TertibSkenario'
  BY SkenarioLangkah
<1> QED BY <1>1, SkenarioAwal, PTL DEF SpecDua

\* In the run the rows and the payouts of a delivery tell one story.
THEOREM JadwalTertibBenar == KurirTertib => (SpecDua => []JadwalTertib)
<1>1. TertibSkenario => JadwalTertib
  BY DEF TertibSkenario, TertibInv, JadwalTertib
<1> QED BY <1>1, SkenarioBenar, PTL

\* In the run the bids of a courier who waits are consistent.
THEOREM BidTertibBenar == KurirTertib => (SpecDua => []BidTertib)
<1>1. TertibSkenario => BidTertib
  BY BidDariInv DEF TertibSkenario, BidTertib
<1> QED BY <1>1, SkenarioBenar, PTL

\* In the run such a courier moves an order as the status enum promises.
THEOREM SiklusTertibBenar == KurirTertib => (SpecDua => SiklusTertib)
<1> SUFFICES ASSUME KurirTertib PROVE SpecDua => SiklusTertib
  OBVIOUS
<1>1. TypeSkenario /\ TertibSkenario /\ [NextDua]_varsDua
         => [skenario = "tertib" => [Siklus!Next]_transaksi]_varsDua
  BY SkenarioLangkah
<1> QED BY <1>1, SkenarioBenar, PTL DEF SpecDua, SiklusTertib
=============================================================================
