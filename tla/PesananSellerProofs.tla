------------------------- MODULE PesananSellerProofs -------------------------
(***************************************************************************)
(* Proofs about PesananSeller, for any orders, sellers and concurrent       *)
(* requests; about orderly sellers; and about such sellers and couriers     *)
(* together, where the proofs about KurirPengiriman are used through a view *)
(* of the orders.                                                           *)
(***************************************************************************)
EXTENDS MCPesananSeller, JumlahProofs

\* A running request works on an order.
AdaOrder == \A p \in Proses : proses[p].tahap # "bebas" => proses[p].transaksi \in Transaksi

TypeInv == TypeOK /\ AdaOrder

-----------------------------------------------------------------------------
(* Data.                                                                    *)

LEMMA BebasType == ProsesBebas \in TipeProses
BY DEF ProsesBebas, TipeProses, TahapProses

\* The threshold rows of a seller are rows of the table.
LEMMA AmbangSellerBagian == \A t : AmbangSeller(t) \subseteq DOMAIN ambang
BY DEF AmbangSeller

\* Changing one request to a well-formed one keeps the table of requests well-formed.
LEMMA ProsesBaru ==
    ASSUME TypeInv, NEW p \in Proses, NEW r \in TipeProses,
           proses' = [proses EXCEPT ![p] = r],
           DOMAIN ambang \subseteq DOMAIN ambang',
           r.tahap \in {"setujuTulis", "kirimTulis", "kirimKomit"} =>
               r.ambang \in DOMAIN ambang',
           r.tahap # "bebas" => r.transaksi \in Transaksi
    PROVE  /\ proses' \in [Proses -> TipeProses]
           /\ \A q \in Proses :
                 proses'[q].tahap \in {"setujuTulis", "kirimTulis", "kirimKomit"} =>
                     proses'[q].ambang \in DOMAIN ambang'
           /\ AdaOrder'
BY DEF TypeInv, TypeOK, AdaOrder

\* What Proses holds after Mulai, Ke, PilihAmbang and Lepas.
LEMMA LepasBaru ==
    ASSUME TypeInv, NEW p \in Proses, Lepas(p), DOMAIN ambang \subseteq DOMAIN ambang'
    PROVE  /\ proses' \in [Proses -> TipeProses]
           /\ \A q \in Proses :
                 proses'[q].tahap \in {"setujuTulis", "kirimTulis", "kirimKomit"} =>
                     proses'[q].ambang \in DOMAIN ambang'
           /\ AdaOrder'
<1>1. ProsesBebas.tahap = "bebas"
  BY DEF ProsesBebas
<1> HIDE DEF ProsesBebas
<1> QED BY <1>1, BebasType, ProsesBaru DEF Lepas

LEMMA MulaiBaru ==
    ASSUME TypeInv, NEW p \in Proses, NEW t \in Transaksi,
           NEW tahap \in {"setuju", "kirim", "tolakTulis"}, Mulai(p, tahap, t),
           UNCHANGED ambang
    PROVE  /\ proses' \in [Proses -> TipeProses]
           /\ \A q \in Proses :
                 proses'[q].tahap \in {"setujuTulis", "kirimTulis", "kirimKomit"} =>
                     proses'[q].ambang \in DOMAIN ambang'
           /\ AdaOrder'
<1> DEFINE r == [tahap |-> tahap, transaksi |-> t, ambang |-> 0]
<1>1. r \in TipeProses
  BY DEF TipeProses, TahapProses
<1>2. proses' = [proses EXCEPT ![p] = r]
  BY DEF Mulai
<1>3. r.tahap \notin {"setujuTulis", "kirimTulis", "kirimKomit"} /\ r.transaksi \in Transaksi
  OBVIOUS
<1> HIDE DEF r
<1> QED BY <1>1, <1>2, <1>3, ProsesBaru

LEMMA KeBaru ==
    ASSUME TypeInv, NEW p \in Proses, proses[p].tahap # "bebas", NEW tahap \in TahapProses,
           Ke(p, tahap), DOMAIN ambang \subseteq DOMAIN ambang',
           tahap \in {"setujuTulis", "kirimTulis", "kirimKomit"} =>
               proses[p].ambang \in DOMAIN ambang'
    PROVE  /\ proses' \in [Proses -> TipeProses]
           /\ \A q \in Proses :
                 proses'[q].tahap \in {"setujuTulis", "kirimTulis", "kirimKomit"} =>
                     proses'[q].ambang \in DOMAIN ambang'
           /\ AdaOrder'
<1> DEFINE r == [proses[p] EXCEPT !.tahap = tahap]
<1>1. proses[p] \in TipeProses
  BY DEF TypeInv, TypeOK
<1>2. r \in TipeProses /\ r.tahap = tahap /\ r.ambang = proses[p].ambang
      /\ r.transaksi = proses[p].transaksi
  BY <1>1 DEF TipeProses
<1>3. proses' = [proses EXCEPT ![p] = r]
  BY DEF Ke
<1>4. r.transaksi \in Transaksi
  BY <1>2 DEF TypeInv, AdaOrder
<1> HIDE DEF r
<1> QED BY <1>2, <1>3, <1>4, ProsesBaru

LEMMA PilihBaru ==
    ASSUME TypeInv, NEW p \in Proses, proses[p].tahap # "bebas", NEW tahap \in TahapProses,
           PilihAmbang(p, tahap), UNCHANGED ambang
    PROVE  /\ proses' \in [Proses -> TipeProses]
           /\ \A q \in Proses :
                 proses'[q].tahap \in {"setujuTulis", "kirimTulis", "kirimKomit"} =>
                     proses'[q].ambang \in DOMAIN ambang'
           /\ AdaOrder'
<1>0. PICK n \in AmbangSeller(proses[p].transaksi) :
          proses' = [proses EXCEPT ![p] = [proses[p] EXCEPT !.tahap = tahap, !.ambang = n]]
  BY DEF PilihAmbang
<1> DEFINE r == [proses[p] EXCEPT !.tahap = tahap, !.ambang = n]
<1>1. proses[p] \in TipeProses /\ ambang \in Seq(BarisAmbang)
  BY DEF TypeInv, TypeOK
<1>2. n \in DOMAIN ambang /\ n \in Nat
  BY <1>1, AmbangSellerBagian
<1>3. r \in TipeProses /\ r.tahap = tahap /\ r.ambang = n
      /\ r.transaksi = proses[p].transaksi
  BY <1>1, <1>2 DEF TipeProses
<1>4. r.transaksi \in Transaksi
  BY <1>3 DEF TypeInv, AdaOrder
<1>5. proses' = [proses EXCEPT ![p] = r]
  BY <1>0
<1> HIDE DEF r
<1> QED BY <1>2, <1>3, <1>4, <1>5, ProsesBaru

\* Writing integers into two counters of a threshold row.
LEMMA BarisAmbangBaru ==
    ASSUME NEW b \in BarisAmbang, NEW i \in Int, NEW j \in Int
    PROVE  /\ [b EXCEPT !.total = i, !.diproses = j] \in BarisAmbang
           /\ [b EXCEPT !.diproses = i, !.waiting = j] \in BarisAmbang
BY DEF BarisAmbang

\* Raising or moving the counters of a threshold row keeps the table of thresholds.
LEMMA AmbangType ==
    ASSUME TypeInv, NEW n \in DOMAIN ambang
    PROVE  /\ AmbangSetuju(n) \in Seq(BarisAmbang)
           /\ AmbangKirim(n) \in Seq(BarisAmbang)
           /\ DOMAIN AmbangSetuju(n) = DOMAIN ambang
           /\ DOMAIN AmbangKirim(n) = DOMAIN ambang
<1>1. ambang \in Seq(BarisAmbang)
  BY DEF TypeInv, TypeOK
<1>2. ambang[n] \in BarisAmbang
  BY <1>1
<1>3. /\ [ambang[n] EXCEPT !.total = ambang[n].total + 1,
                           !.diproses = ambang[n].diproses + 1] \in BarisAmbang
      /\ [ambang[n] EXCEPT !.diproses = ambang[n].diproses - 1,
                           !.waiting = ambang[n].waiting + 1] \in BarisAmbang
  <2>1. ambang[n].total \in Int /\ ambang[n].diproses \in Int /\ ambang[n].waiting \in Int
    BY <1>2 DEF BarisAmbang
  <2>2. /\ ambang[n].total + 1 \in Int /\ ambang[n].diproses + 1 \in Int
        /\ ambang[n].diproses - 1 \in Int /\ ambang[n].waiting + 1 \in Int
    BY <2>1
  <2> QED BY <1>2, <2>2, BarisAmbangBaru
<1>4. \A r \in BarisAmbang : [ambang EXCEPT ![n] = r] \in Seq(BarisAmbang)
  BY <1>1
<1>5. \A r : DOMAIN [ambang EXCEPT ![n] = r] = DOMAIN ambang
  OBVIOUS
<1>6. AmbangSetuju(n) \in Seq(BarisAmbang) /\ AmbangKirim(n) \in Seq(BarisAmbang)
  BY <1>3, <1>4 DEF AmbangSetuju, AmbangKirim
<1> QED BY <1>5, <1>6 DEF AmbangSetuju, AmbangKirim

\* Changing a counter by one where it stays a natural number.
LEMMA PencacahType ==
    ASSUME NEW S, NEW f \in [S -> Nat], NEW x
    PROVE  /\ [f EXCEPT ![x] = f[x] + 1] \in [S -> Nat]
           /\ f[x] > 0 => [f EXCEPT ![x] = f[x] - 1] \in [S -> Nat]
<1>1. CASE x \in S
  <2>1. f[x] \in Nat /\ f[x] + 1 \in Nat /\ (f[x] > 0 => f[x] - 1 \in Nat)
    BY <1>1
  <2> QED BY <2>1
<1>2. CASE x \notin S
  BY <1>2
<1> QED BY <1>1, <1>2

\* The order a request works on.
LEMMA OrderProses ==
    ASSUME TypeInv, NEW p \in Proses, proses[p].tahap # "bebas"
    PROVE  /\ proses[p].transaksi \in Transaksi
           /\ SellerDari[proses[p].transaksi] \in Seller
           /\ transaksi[proses[p].transaksi] \in BarisTransaksi
BY PesananAssumption DEF TypeInv, TypeOK, AdaOrder, PesananAssumption

-----------------------------------------------------------------------------
(* Type correctness.                                                        *)

LEMMA TypeInvInit == Init => TypeInv
<1> SUFFICES ASSUME Init PROVE TypeInv
  OBVIOUS
<1>1. transaksi \in [Transaksi -> BarisTransaksi]
  BY DEF Init, BarisTransaksi, StatusTransaksi
<1>2. ambang \in Seq(BarisAmbang) /\ pengiriman \in Seq(BarisPengiriman)
  BY DEF Init
<1>3. latar \in [Transaksi -> Nat] /\ terbitKirim \in [Transaksi -> Nat]
  BY DEF Init
<1>4. proses \in [Proses -> TipeProses]
  BY BebasType DEF Init
<1>5. \A p \in Proses : proses[p].tahap = "bebas"
  BY DEF Init, ProsesBebas
<1> QED BY <1>1, <1>2, <1>3, <1>4, <1>5 DEF TypeInv, TypeOK, AdaOrder

\* The parts of TypeInv that the tables and the requests contribute.
LEMMA TypeInvSusun ==
    ASSUME transaksi' \in [Transaksi -> BarisTransaksi], ambang' \in Seq(BarisAmbang),
           pengiriman' \in Seq(BarisPengiriman), latar' \in [Transaksi -> Nat],
           terbitKirim' \in [Transaksi -> Nat], proses' \in [Proses -> TipeProses],
           \A q \in Proses :
                 proses'[q].tahap \in {"setujuTulis", "kirimTulis", "kirimKomit"} =>
                     proses'[q].ambang \in DOMAIN ambang',
           AdaOrder'
    PROVE  TypeInv'
BY DEF TypeInv, TypeOK

LEMMA TypeInvLangkah ==
    ASSUME TypeInv, NEW p \in Proses, Langkah(p)
    PROVE  TypeInv'
<1> USE DEF TypeInv, TypeOK
<1>1. CASE \E t \in Transaksi : \/ ApproveOrderTransaksi(p, t)
                               \/ KirimOrderTransaksi(p, t)
                               \/ UnApproveOrderTransaksi(p, t)
  <2>1. PICK t \in Transaksi : \/ ApproveOrderTransaksi(p, t)
                              \/ KirimOrderTransaksi(p, t)
                              \/ UnApproveOrderTransaksi(p, t)
    BY <1>1
  <2>2. UNCHANGED <<transaksi, ambang, pengiriman, latar, terbitKirim>>
    BY <2>1 DEF ApproveOrderTransaksi, KirimOrderTransaksi, UnApproveOrderTransaksi
  <2>3. \E tahap \in {"setuju", "kirim", "tolakTulis"} : Mulai(p, tahap, t)
    BY <2>1 DEF ApproveOrderTransaksi, KirimOrderTransaksi, UnApproveOrderTransaksi
  <2> QED BY <2>2, <2>3, MulaiBaru, TypeInvSusun
<1>2. CASE SetujuBacaAmbang(p)
  <2>1. CASE Ke(p, "upThreshold")
    <3>1. "upThreshold" \in TahapProses /\ proses[p].tahap # "bebas"
      BY <1>2 DEF SetujuBacaAmbang, TahapProses
    <3> QED BY <1>2, <2>1, <3>1, KeBaru, TypeInvSusun DEF SetujuBacaAmbang
  <2>2. CASE PilihAmbang(p, "setujuTulis")
    <3>1. "setujuTulis" \in TahapProses /\ proses[p].tahap # "bebas"
      BY <1>2 DEF SetujuBacaAmbang, TahapProses
    <3> QED BY <1>2, <2>2, <3>1, PilihBaru, TypeInvSusun DEF SetujuBacaAmbang
  <2> QED BY <1>2, <2>1, <2>2 DEF SetujuBacaAmbang
<1>3. CASE UpThreshold(p)
  <2>1. \E tahap \in {"buatAmbang", "setuju"} : Ke(p, tahap)
    BY <1>3 DEF UpThreshold
  <2>2. proses[p].tahap # "bebas" /\ {"buatAmbang", "setuju"} \subseteq TahapProses
    BY <1>3 DEF UpThreshold, TahapProses
  <2> QED BY <1>3, <2>1, <2>2, KeBaru, TypeInvSusun DEF UpThreshold
<1>4. CASE UpThresholdBuat(p)
  <2> DEFINE b == [seller |-> SellerDari[proses[p].transaksi],
                   total |-> 0, diproses |-> 0, waiting |-> 0]
  <2>1. proses[p].tahap # "bebas" /\ "setuju" \in TahapProses
    BY <1>4 DEF UpThresholdBuat, TahapProses
  <2>2. b \in BarisAmbang
    BY <2>1, OrderProses DEF BarisAmbang
  <2>3. ambang' = Append(ambang, b) /\ Ke(p, "setuju")
    BY <1>4 DEF UpThresholdBuat
  <2> HIDE DEF b
  <2>4. ambang' \in Seq(BarisAmbang) /\ DOMAIN ambang \subseteq DOMAIN ambang'
    BY <2>2, <2>3
  <2> QED BY <1>4, <2>1, <2>3, <2>4, KeBaru, TypeInvSusun DEF UpThresholdBuat
<1>5. CASE SetujuTulis(p)
  <2>1. proses[p].tahap # "bebas" /\ proses[p].ambang \in DOMAIN ambang
    BY <1>5 DEF SetujuTulis
  <2>2. [transaksi[proses[p].transaksi] EXCEPT !.status = "Diproses"] \in BarisTransaksi
    BY <2>1, OrderProses DEF BarisTransaksi, StatusTransaksi
  <2>3. transaksi' \in [Transaksi -> BarisTransaksi]
    BY <1>5, <2>2 DEF SetujuTulis
  <2> QED BY <1>5, <2>1, <2>3, AmbangType, LepasBaru, TypeInvSusun DEF SetujuTulis
<1>6. CASE KirimBacaAmbang(p)
  <2>1. "kirimTulis" \in TahapProses /\ proses[p].tahap # "bebas"
    BY <1>6 DEF KirimBacaAmbang, TahapProses
  <2> QED BY <1>6, <2>1, PilihBaru, TypeInvSusun DEF KirimBacaAmbang
<1>7. CASE KirimTulis(p)
  <2>1. /\ "kirimKomit" \in TahapProses /\ proses[p].tahap # "bebas"
        /\ proses[p].ambang \in DOMAIN ambang
    BY <1>7 DEF KirimTulis, TahapProses
  <2>2. latar' \in [Transaksi -> Nat]
    BY <1>7, PencacahType DEF KirimTulis
  <2> QED BY <1>7, <2>1, <2>2, KeBaru, TypeInvSusun DEF KirimTulis
<1>8. CASE KirimKomit(p)
  <2> DEFINE k == [transaksi |-> proses[p].transaksi, status |-> "Waiting"]
  <2>1. proses[p].tahap # "bebas" /\ proses[p].ambang \in DOMAIN ambang
    BY <1>8 DEF KirimKomit
  <2>2. [transaksi[proses[p].transaksi] EXCEPT !.status = "Waiting"] \in BarisTransaksi
    BY <2>1, OrderProses DEF BarisTransaksi, StatusTransaksi
  <2>3. transaksi' \in [Transaksi -> BarisTransaksi]
    BY <1>8, <2>2 DEF KirimKomit
  <2>4. k \in BarisPengiriman
    BY <2>1, OrderProses DEF BarisPengiriman
  <2>5. pengiriman' = Append(pengiriman, k)
    BY <1>8 DEF KirimKomit
  <2> HIDE DEF k
  <2>6. pengiriman' \in Seq(BarisPengiriman)
    BY <2>4, <2>5
  <2> QED BY <1>8, <2>1, <2>3, <2>6, AmbangType, LepasBaru, TypeInvSusun DEF KirimKomit
<1>9. CASE TolakTulis(p)
  <2>1. [status |-> "Dibatalkan", dibatalkanOleh |-> "Seller"] \in BarisTransaksi
    BY DEF BarisTransaksi, StatusTransaksi
  <2>2. transaksi' \in [Transaksi -> BarisTransaksi]
    BY <1>9, <2>1 DEF TolakTulis
  <2> QED BY <1>9, <2>2, LepasBaru, TypeInvSusun DEF TolakTulis
<1>10. CASE Putus(p)
  BY <1>10, LepasBaru, TypeInvSusun DEF Putus
<1> QED BY <1>1, <1>2, <1>3, <1>4, <1>5, <1>6, <1>7, <1>8, <1>9, <1>10 DEF Langkah

LEMMA TypeInvStep == TypeInv /\ [Next]_vars => TypeInv'
<1> SUFFICES ASSUME TypeInv, [Next]_vars PROVE TypeInv'
  OBVIOUS
<1>1. ASSUME NEW t \in Transaksi, LatarKirim(t) PROVE TypeInv'
  <2>1. latar' \in [Transaksi -> Nat] /\ terbitKirim' \in [Transaksi -> Nat]
    BY <1>1, PencacahType DEF LatarKirim, TypeInv, TypeOK
  <2>2. UNCHANGED <<transaksi, ambang, pengiriman, proses>>
    BY <1>1 DEF LatarKirim
  <2> QED BY <2>1, <2>2 DEF TypeInv, TypeOK, AdaOrder
<1>2. CASE UNCHANGED vars
  BY <1>2 DEF vars, TypeInv, TypeOK, AdaOrder
<1> QED BY <1>1, <1>2, TypeInvLangkah DEF Next

LEMMA TypeInvBenar == Spec => []TypeInv
BY TypeInvInit, TypeInvStep, PTL DEF Spec

\* Every table and local variable of the seller's handlers keeps its type, and a
\* request about to write names a threshold row that exists.
THEOREM TypeBenar == Spec => []TypeOK
<1>1. TypeInv => TypeOK
  BY DEF TypeInv
<1> QED BY <1>1, TypeInvBenar, PTL

-----------------------------------------------------------------------------
(* Sums of a counter over the rows of a seller.                             *)

\* A counter that is f for the rows D before a step and g for the rows E after it, of the
\* rows that S says are the seller's.
Kolom(D, S, f) == [n \in D |-> IF n \in S THEN f[n] ELSE 0]

\* One row is changed.
UbahSatu(D, f, g, n) == \A i \in D : f[i] \in Int /\ g[i] \in Int /\ (i # n => g[i] = f[i])

LEMMA KolomUbah ==
    ASSUME NEW D, IsFiniteSet(D), NEW S, NEW f, NEW g, NEW n \in D, UbahSatu(D, f, g, n)
    PROVE  /\ SumFunction(Kolom(D, S, g)) =
                  SumFunction(Kolom(D, S, f)) + (IF n \in S THEN g[n] - f[n] ELSE 0)
           /\ SumFunction(Kolom(D, S, f)) \in Int
<1> DEFINE F == Kolom(D, S, f)
           G == Kolom(D, S, g)
<1>1. SumFunction(F) = SumFunctionOnSet(F, D) /\ SumFunction(G) = SumFunctionOnSet(G, D)
  BY DEF SumFunction, Kolom
<1>2. /\ \A i \in D : F[i] \in Int /\ G[i] \in Int /\ (i # n => F[i] = G[i])
      /\ G[n] - F[n] = IF n \in S THEN g[n] - f[n] ELSE 0
  BY DEF Kolom, UbahSatu
<1> HIDE DEF F, G
<1>3. Bilangan(F, D) /\ Bilangan(G, D)
  BY <1>2 DEF Bilangan
<1>4. SumFunctionOnSet(G, D) = SumFunctionOnSet(F, D) + G[n] - F[n]
  BY <1>2, <1>3, JumlahUbah
<1>5. SumFunctionOnSet(F, D) \in Int
  BY <1>3, JumlahTipe
<1>6. F[n] \in Int /\ G[n] \in Int
  BY <1>2
<1>7. SumFunctionOnSet(G, D) = SumFunctionOnSet(F, D) + (G[n] - F[n])
  BY <1>4, <1>5, <1>6
<1> QED BY <1>1, <1>2, <1>5, <1>7 DEF F, G

\* A row e whose counter is 0 is added.
LEMMA KolomTambah ==
    ASSUME NEW D, IsFiniteSet(D), NEW e, e \notin D, NEW E, E = D \cup {e},
           NEW S, NEW T, NEW f, NEW g,
           \A i \in D : f[i] \in Int /\ g[i] = f[i] /\ (i \in S <=> i \in T),
           g[e] = 0
    PROVE  SumFunction(Kolom(E, T, g)) = SumFunction(Kolom(D, S, f))
<1> DEFINE F == Kolom(D, S, f)
           G == Kolom(E, T, g)
<1>1. SumFunction(F) = SumFunctionOnSet(F, D) /\ SumFunction(G) = SumFunctionOnSet(G, D \cup {e})
  BY DEF SumFunction, Kolom
<1>2. \A i \in D : F[i] = G[i] /\ F[i] \in Int
  BY DEF Kolom
<1>3. G[e] = 0
  BY DEF Kolom
<1> HIDE DEF F, G
<1>5. Bilangan(F, D) /\ Bilangan(G, D \cup {e})
  BY <1>2, <1>3 DEF Bilangan
<1>6. SumFunctionOnSet(G, D \cup {e}) = G[e] + SumFunctionOnSet(G, D)
  BY <1>5, JumlahTambah
<1>7. SumFunctionOnSet(G, D) = SumFunctionOnSet(F, D)
  BY <1>2, JumlahSama
<1>8. SumFunctionOnSet(F, D) \in Int
  BY <1>5, JumlahTipe
<1>9. SumFunction(G) = SumFunction(F)
  BY <1>1, <1>3, <1>6, <1>7, <1>8
<1> QED BY <1>9 DEF F, G

\* The rows keep their sellers, and the counters change in row n only.
LEMMA SellerUbah ==
    ASSUME ambang \in Seq(BarisAmbang), ambang' \in Seq(BarisAmbang), DOMAIN ambang' = DOMAIN ambang,
           NEW n \in DOMAIN ambang, NEW s,
           \A i \in DOMAIN ambang : ambang'[i].seller = ambang[i].seller /\ (i # n => ambang'[i] = ambang[i])
    PROVE  /\ WaitingSeller(s)' = WaitingSeller(s)
                  + (IF ambang[n].seller = s THEN ambang'[n].waiting - ambang[n].waiting ELSE 0)
           /\ DiprosesSeller(s)' = DiprosesSeller(s)
                  + (IF ambang[n].seller = s THEN ambang'[n].diproses - ambang[n].diproses ELSE 0)
           /\ WaitingSeller(s) \in Int /\ DiprosesSeller(s) \in Int
<1> DEFINE D == DOMAIN ambang
           S == {i \in D : ambang[i].seller = s}
           f == [i \in D |-> ambang[i].waiting]
           g == [i \in D |-> ambang'[i].waiting]
           h == [i \in D |-> ambang[i].diproses]
           k == [i \in D |-> ambang'[i].diproses]
<1>1. \A i \in D : ambang[i] \in BarisAmbang /\ ambang'[i] \in BarisAmbang
  OBVIOUS
<1>2. IsFiniteSet(D)
  <2>1. D = 1 .. Len(ambang) /\ Len(ambang) \in Nat
    OBVIOUS
  <2> QED BY <2>1, FS_Interval
<1>3. UbahSatu(D, f, g, n) /\ UbahSatu(D, h, k, n)
  BY <1>1 DEF BarisAmbang, UbahSatu
<1>4. /\ WaitingSeller(s) = SumFunction(Kolom(D, S, f))
      /\ DiprosesSeller(s) = SumFunction(Kolom(D, S, h))
  <2>1. /\ Kolom(D, S, f) = [i \in D |-> IF ambang[i].seller = s THEN ambang[i].waiting ELSE 0]
        /\ Kolom(D, S, h) = [i \in D |-> IF ambang[i].seller = s THEN ambang[i].diproses ELSE 0]
    BY DEF Kolom
  <2> QED BY <2>1 DEF WaitingSeller, DiprosesSeller
<1>5. /\ WaitingSeller(s)' = SumFunction(Kolom(D, S, g))
      /\ DiprosesSeller(s)' = SumFunction(Kolom(D, S, k))
  <2>1. /\ Kolom(D, S, g) = [i \in D |-> IF ambang'[i].seller = s THEN ambang'[i].waiting ELSE 0]
        /\ Kolom(D, S, k) = [i \in D |-> IF ambang'[i].seller = s THEN ambang'[i].diproses ELSE 0]
    BY DEF Kolom
  <2> QED BY <2>1 DEF WaitingSeller, DiprosesSeller
<1>6. /\ n \in S <=> ambang[n].seller = s
      /\ f[n] = ambang[n].waiting /\ g[n] = ambang'[n].waiting
      /\ h[n] = ambang[n].diproses /\ k[n] = ambang'[n].diproses
  OBVIOUS
<1> HIDE DEF D, S, f, g, h, k
<1>7. n \in D
  BY DEF D
<1>8. /\ SumFunction(Kolom(D, S, g)) =
             SumFunction(Kolom(D, S, f)) + (IF n \in S THEN g[n] - f[n] ELSE 0)
      /\ SumFunction(Kolom(D, S, f)) \in Int
  BY <1>2, <1>3, <1>7, KolomUbah
<1>9. /\ SumFunction(Kolom(D, S, k)) =
             SumFunction(Kolom(D, S, h)) + (IF n \in S THEN k[n] - h[n] ELSE 0)
      /\ SumFunction(Kolom(D, S, h)) \in Int
  BY <1>2, <1>3, <1>7, KolomUbah
<1> QED BY <1>4, <1>5, <1>6, <1>8, <1>9

\* A row is added whose counters are 0.
LEMMA SellerTambah ==
    ASSUME ambang \in Seq(BarisAmbang), NEW b \in BarisAmbang, ambang' = Append(ambang, b),
           b.waiting = 0, b.diproses = 0, NEW s
    PROVE  WaitingSeller(s)' = WaitingSeller(s) /\ DiprosesSeller(s)' = DiprosesSeller(s)
<1> DEFINE z == Len(ambang)
           D == 1 .. z
           E == 1 .. z + 1
           S == {i \in D : ambang[i].seller = s}
           T == {i \in E : ambang'[i].seller = s}
           f == [i \in D |-> ambang[i].waiting]
           g == [i \in E |-> ambang'[i].waiting]
           h == [i \in D |-> ambang[i].diproses]
           k == [i \in E |-> ambang'[i].diproses]
<1>1. DOMAIN ambang = D /\ DOMAIN ambang' = E /\ z \in Nat
  OBVIOUS
<1>2. /\ \A i \in D : i \in E /\ ambang'[i] = ambang[i] /\ ambang[i] \in BarisAmbang
      /\ z + 1 \in E /\ ambang'[z + 1] = b
  OBVIOUS
<1>3. \A i \in D : f[i] \in Int /\ g[i] = f[i] /\ (i \in S <=> i \in T)
  BY <1>2 DEF BarisAmbang
<1>b. \A i \in D : h[i] \in Int /\ k[i] = h[i] /\ (i \in S <=> i \in T)
  BY <1>2 DEF BarisAmbang
<1>4. /\ WaitingSeller(s) = SumFunction(Kolom(D, S, f))
      /\ DiprosesSeller(s) = SumFunction(Kolom(D, S, h))
  <2>1. /\ Kolom(D, S, f) = [i \in D |-> IF ambang[i].seller = s THEN ambang[i].waiting ELSE 0]
        /\ Kolom(D, S, h) = [i \in D |-> IF ambang[i].seller = s THEN ambang[i].diproses ELSE 0]
    BY DEF Kolom
  <2> QED BY <1>1, <2>1 DEF WaitingSeller, DiprosesSeller
<1>5. /\ WaitingSeller(s)' = SumFunction(Kolom(E, T, g))
      /\ DiprosesSeller(s)' = SumFunction(Kolom(E, T, k))
  <2>1. /\ Kolom(E, T, g) = [i \in E |-> IF ambang'[i].seller = s THEN ambang'[i].waiting ELSE 0]
        /\ Kolom(E, T, k) = [i \in E |-> IF ambang'[i].seller = s THEN ambang'[i].diproses ELSE 0]
    BY DEF Kolom
  <2> QED BY <1>1, <2>1 DEF WaitingSeller, DiprosesSeller
<1> DEFINE e == z + 1
<1>a. IsFiniteSet(D) /\ e \notin D /\ E = D \cup {e}
  <2> HIDE DEF z
  <2>1. IsFiniteSet(1 .. z)
    BY <1>1, FS_Interval
  <2>2. z + 1 \notin 1 .. z /\ 1 .. z + 1 = (1 .. z) \cup {z + 1}
    BY <1>1
  <2> QED BY <2>1, <2>2
<1>c. g[e] = 0 /\ k[e] = 0
  BY <1>2
<1> HIDE DEF z, D, E, S, T, f, g, h, k, e
<1>6. SumFunction(Kolom(E, T, g)) = SumFunction(Kolom(D, S, f))
  BY <1>3, <1>a, <1>c, KolomTambah
<1>7. SumFunction(Kolom(E, T, k)) = SumFunction(Kolom(D, S, h))
  BY <1>b, <1>a, <1>c, KolomTambah
<1> QED BY <1>4, <1>5, <1>6, <1>7

-----------------------------------------------------------------------------
(* The threshold rows.                                                      *)

\* The row a request has chosen is one of the seller of its order.
AmbangMilik ==
    \A p \in Proses : proses[p].tahap \in {"setujuTulis", "kirimTulis", "kirimKomit"} =>
        ambang[proses[p].ambang].seller = SellerDari[proses[p].transaksi]

\* The rows that a step leaves are the same sellers'.
SellerTetap == /\ DOMAIN ambang \subseteq DOMAIN ambang'
               /\ \A n \in DOMAIN ambang : ambang'[n].seller = ambang[n].seller

\* The deliveries of a seller.
KirimanSeller(s) == {n \in DOMAIN pengiriman : SellerDari[pengiriman[n].transaksi] = s}

\* What approval and hand over do to the counters.
LEMMA AmbangUbah ==
    ASSUME TypeInv, NEW n \in DOMAIN ambang, ambang' \in {AmbangSetuju(n), AmbangKirim(n)}
    PROVE  /\ ambang \in Seq(BarisAmbang) /\ ambang' \in Seq(BarisAmbang) /\ DOMAIN ambang' = DOMAIN ambang
           /\ \A i \in DOMAIN ambang : ambang'[i].seller = ambang[i].seller /\ (i # n => ambang'[i] = ambang[i])
           /\ ambang' = AmbangSetuju(n) =>
                 /\ ambang'[n].total = ambang[n].total + 1 /\ ambang'[n].diproses = ambang[n].diproses + 1
                 /\ ambang'[n].waiting = ambang[n].waiting
           /\ ambang' = AmbangKirim(n) =>
                 /\ ambang'[n].total = ambang[n].total /\ ambang'[n].diproses = ambang[n].diproses - 1
                 /\ ambang'[n].waiting = ambang[n].waiting + 1
           /\ ambang[n].total \in Int /\ ambang[n].diproses \in Int /\ ambang[n].waiting \in Int
<1>1. ambang \in Seq(BarisAmbang) /\ ambang[n] \in BarisAmbang
  BY DEF TypeInv, TypeOK
<1>2. ambang' \in Seq(BarisAmbang) /\ DOMAIN ambang' = DOMAIN ambang
  BY AmbangType
<1>3. ambang[n].total \in Int /\ ambang[n].diproses \in Int /\ ambang[n].waiting \in Int
  BY <1>1 DEF BarisAmbang
<1>4. CASE ambang' = AmbangSetuju(n)
  <2> DEFINE b == [ambang[n] EXCEPT !.total = @ + 1, !.diproses = @ + 1]
  <2>1. /\ b.total = ambang[n].total + 1 /\ b.diproses = ambang[n].diproses + 1
        /\ b.waiting = ambang[n].waiting /\ b.seller = ambang[n].seller
    BY <1>1 DEF BarisAmbang
  <2>2. ambang' = [ambang EXCEPT ![n] = b]
    BY <1>4 DEF AmbangSetuju
  <2> HIDE DEF b
  <2>3. ambang'[n] = b /\ \A i \in DOMAIN ambang : i # n => ambang'[i] = ambang[i]
    BY <2>2
  <2>4. ambang'[n].total # ambang[n].total
    BY <1>3, <2>1, <2>3
  <2>5. ambang' # AmbangKirim(n)
    <3>1. AmbangKirim(n)[n].total = ambang[n].total
      BY <1>1 DEF AmbangKirim, BarisAmbang
    <3> QED BY <2>4, <3>1
  <2> QED BY <1>1, <1>2, <1>3, <2>1, <2>3, <2>5
<1>5. CASE ambang' = AmbangKirim(n)
  <2> DEFINE b == [ambang[n] EXCEPT !.diproses = @ - 1, !.waiting = @ + 1]
  <2>1. /\ b.total = ambang[n].total /\ b.diproses = ambang[n].diproses - 1
        /\ b.waiting = ambang[n].waiting + 1 /\ b.seller = ambang[n].seller
    BY <1>1 DEF BarisAmbang
  <2>2. ambang' = [ambang EXCEPT ![n] = b]
    BY <1>5 DEF AmbangKirim
  <2> HIDE DEF b
  <2>3. ambang'[n] = b /\ \A i \in DOMAIN ambang : i # n => ambang'[i] = ambang[i]
    BY <2>2
  <2>4. ambang'[n].waiting # ambang[n].waiting
    BY <1>3, <2>1, <2>3
  <2>5. ambang' # AmbangSetuju(n)
    <3>1. AmbangSetuju(n)[n].waiting = ambang[n].waiting
      BY <1>1 DEF AmbangSetuju, BarisAmbang
    <3> QED BY <2>4, <3>1
  <2> QED BY <1>1, <1>2, <1>3, <2>1, <2>3, <2>5
<1> QED BY <1>4, <1>5

LEMMA SellerTetapLangkah ==
    ASSUME TypeInv, [Next]_vars
    PROVE  SellerTetap
<1>1. ASSUME NEW p \in Proses, SetujuTulis(p) \/ KirimKomit(p) PROVE SellerTetap
  <2>1. proses[p].ambang \in DOMAIN ambang
    BY <1>1 DEF SetujuTulis, KirimKomit, TypeInv, TypeOK
  <2>2. ambang' \in {AmbangSetuju(proses[p].ambang), AmbangKirim(proses[p].ambang)}
    BY <1>1 DEF SetujuTulis, KirimKomit
  <2> QED BY <2>1, <2>2, AmbangUbah DEF SellerTetap
<1>2. ASSUME NEW p \in Proses, UpThresholdBuat(p) PROVE SellerTetap
  <2> DEFINE b == [seller |-> SellerDari[proses[p].transaksi],
                   total |-> 0, diproses |-> 0, waiting |-> 0]
  <2>1. ambang' = Append(ambang, b) /\ ambang \in Seq(BarisAmbang)
    BY <1>2 DEF UpThresholdBuat, TypeInv, TypeOK
  <2> HIDE DEF b
  <2> QED BY <2>1 DEF SellerTetap
<1>3. CASE UNCHANGED ambang
  BY <1>3 DEF SellerTetap
<1> QED BY <1>1, <1>2, <1>3
    DEF Next, Langkah, ApproveOrderTransaksi, KirimOrderTransaksi, UnApproveOrderTransaksi,
        SetujuBacaAmbang, UpThreshold, KirimBacaAmbang, KirimTulis, TolakTulis, Putus,
        LatarKirim, vars

\* Only PilihAmbang brings a request to a stage at which it has a row.
LEMMA AmbangMilikLangkah ==
    ASSUME TypeInv, AmbangMilik, [Next]_vars
    PROVE  AmbangMilik'
<1> DEFINE Punya(r) == r.tahap \in {"setujuTulis", "kirimTulis", "kirimKomit"}
<1>1. SellerTetap
  BY SellerTetapLangkah
<1>2. ASSUME NEW q \in Proses, Punya(proses'[q]), proses'[q].ambang \in DOMAIN ambang,
             ambang[proses'[q].ambang].seller = SellerDari[proses'[q].transaksi]
      PROVE  ambang'[proses'[q].ambang].seller = SellerDari[proses'[q].transaksi]
  BY <1>1, <1>2 DEF SellerTetap
<1>3. ASSUME NEW q \in Proses, Punya(proses[q])
      PROVE  proses[q].ambang \in DOMAIN ambang /\ ambang[proses[q].ambang].seller = SellerDari[proses[q].transaksi]
  BY <1>3 DEF AmbangMilik, TypeInv, TypeOK
<1> SUFFICES ASSUME NEW q \in Proses, Punya(proses'[q])
             PROVE  /\ proses'[q].ambang \in DOMAIN ambang
                    /\ ambang[proses'[q].ambang].seller = SellerDari[proses'[q].transaksi]
  BY <1>2 DEF AmbangMilik
<1>4. CASE UNCHANGED proses
  BY <1>3, <1>4
<1>5. ASSUME NEW p \in Proses, Langkah(p)
      PROVE  /\ proses'[q].ambang \in DOMAIN ambang
             /\ ambang[proses'[q].ambang].seller = SellerDari[proses'[q].transaksi]
  <2>1. proses \in [Proses -> TipeProses]
    BY DEF TypeInv, TypeOK
  <2>2. CASE p # q
    <3>1. \E r : proses' = [proses EXCEPT ![p] = r]
      BY <1>5 DEF Langkah, ApproveOrderTransaksi, KirimOrderTransaksi, UnApproveOrderTransaksi,
        SetujuBacaAmbang, UpThreshold, UpThresholdBuat, SetujuTulis, KirimBacaAmbang, KirimTulis,
        KirimKomit, TolakTulis, Putus, Mulai, Ke, PilihAmbang, Lepas
    <3>2. proses'[q] = proses[q]
      BY <2>1, <2>2, <3>1
    <3> QED BY <1>3, <3>2
  <2>3. CASE p = q
    <3>1. CASE PilihAmbang(q, "setujuTulis") \/ PilihAmbang(q, "kirimTulis")
      <4>1. PICK n \in AmbangSeller(proses[q].transaksi) :
                /\ proses'[q].ambang = n /\ proses'[q].transaksi = proses[q].transaksi
        BY <2>1, <3>1 DEF PilihAmbang, TipeProses
      <4> QED BY <4>1 DEF AmbangSeller
    <3>2. CASE proses[q].tahap = "kirimTulis" /\ Ke(q, "kirimKomit")
      <4>1. proses'[q].ambang = proses[q].ambang /\ proses'[q].transaksi = proses[q].transaksi
        BY <2>1, <3>2 DEF Ke, TipeProses
      <4> QED BY <1>3, <3>2, <4>1
    <3>3. CASE \E tahap \in {"upThreshold", "buatAmbang", "setuju"} : Ke(q, tahap)
      BY <2>1, <3>3 DEF Ke, TipeProses
    <3>4. CASE \E tahap \in {"setuju", "kirim", "tolakTulis"}, t \in Transaksi : Mulai(q, tahap, t)
      BY <2>1, <3>4 DEF Mulai
    <3>5. CASE Lepas(q)
      BY <2>1, <3>5 DEF Lepas, ProsesBebas
    <3> QED BY <1>5, <2>3, <3>1, <3>2, <3>3, <3>4, <3>5
        DEF Langkah, ApproveOrderTransaksi, KirimOrderTransaksi, UnApproveOrderTransaksi,
            SetujuBacaAmbang, UpThreshold, UpThresholdBuat, SetujuTulis, KirimBacaAmbang, KirimTulis,
            KirimKomit, TolakTulis, Putus
  <2> QED BY <2>2, <2>3
<1> QED BY <1>4, <1>5 DEF Next, LatarKirim, vars

LEMMA KirimanTambah ==
    ASSUME pengiriman \in Seq(BarisPengiriman), NEW k, k.transaksi \in Transaksi,
           pengiriman' = Append(pengiriman, k), NEW s
    PROVE  /\ Cardinality(KirimanSeller(s)') =
                 Cardinality(KirimanSeller(s)) + (IF SellerDari[k.transaksi] = s THEN 1 ELSE 0)
           /\ Cardinality(KirimanSeller(s)) \in Nat
<1> DEFINE z == Len(pengiriman)
           A == KirimanSeller(s)
           B == KirimanSeller(s)'
<1>1. z \in Nat /\ DOMAIN pengiriman = 1 .. z /\ DOMAIN pengiriman' = 1 .. z + 1
  OBVIOUS
<1>2. \A i \in 1 .. z : i \in 1 .. z + 1 /\ pengiriman'[i] = pengiriman[i]
  OBVIOUS
<1>3. z + 1 \notin 1 .. z /\ z + 1 \in 1 .. z + 1 /\ pengiriman'[z + 1] = k
  OBVIOUS
<1>4. 1 .. z + 1 = (1 .. z) \cup {z + 1}
  <2> HIDE DEF z
  <2> QED BY <1>1
<1>5. IsFiniteSet(A) /\ z + 1 \notin A
  <2>1. IsFiniteSet(1 .. z)
    BY <1>1, FS_Interval
  <2>2. A \subseteq 1 .. z
    BY <1>1 DEF KirimanSeller
  <2> HIDE DEF A
  <2> QED BY <1>3, <2>1, <2>2, FS_Subset
<1>6. B = IF SellerDari[k.transaksi] = s THEN A \cup {z + 1} ELSE A
  BY <1>1, <1>2, <1>3, <1>4 DEF KirimanSeller
<1> HIDE DEF A, B, z
<1>7. Cardinality(A) \in Nat
  BY <1>5, FS_CardinalityType
<1>8. Cardinality(A \cup {z + 1}) = Cardinality(A) + 1
  BY <1>5, FS_AddElement
<1>9. Cardinality(B) = Cardinality(A) + (IF SellerDari[k.transaksi] = s THEN 1 ELSE 0)
  BY <1>6, <1>7, <1>8
<1> QED BY <1>7, <1>9 DEF A, B

WaitingSesuai == \A s \in Seller : WaitingSeller(s) = Cardinality(KirimanSeller(s))
BarisSeimbang == \A n \in DOMAIN ambang : ambang[n].diproses + ambang[n].waiting = ambang[n].total

LEMMA SeimbangParts == AmbangSeimbang <=> BarisSeimbang /\ WaitingSesuai
BY DEF AmbangSeimbang, BarisSeimbang, WaitingSesuai, KirimanSeller

LEMMA AmbangSeimbangStep ==
    ASSUME TypeInv, AmbangMilik, BarisSeimbang, WaitingSesuai, [Next]_vars
    PROVE  BarisSeimbang' /\ WaitingSesuai'
<1>0. /\ ambang \in Seq(BarisAmbang) /\ \A n \in DOMAIN ambang : ambang[n] \in BarisAmbang
      /\ pengiriman \in Seq(BarisPengiriman)
  BY DEF TypeInv, TypeOK
<1>1. ASSUME NEW p \in Proses, SetujuTulis(p) PROVE BarisSeimbang' /\ WaitingSesuai'
  <2> DEFINE n == proses[p].ambang
  <2>1. n \in DOMAIN ambang
    BY <1>1 DEF SetujuTulis, TypeInv, TypeOK
  <2>2. ambang' = AmbangSetuju(n) /\ UNCHANGED pengiriman
    BY <1>1 DEF SetujuTulis
  <2> HIDE DEF n
  <2>3. /\ ambang' \in Seq(BarisAmbang) /\ DOMAIN ambang' = DOMAIN ambang
        /\ \A i \in DOMAIN ambang : ambang'[i].seller = ambang[i].seller /\ (i # n => ambang'[i] = ambang[i])
        /\ ambang'[n].total = ambang[n].total + 1 /\ ambang'[n].diproses = ambang[n].diproses + 1
        /\ ambang'[n].waiting = ambang[n].waiting
        /\ ambang[n].total \in Int /\ ambang[n].diproses \in Int /\ ambang[n].waiting \in Int
    BY <2>1, <2>2, AmbangUbah
  <2>4. BarisSeimbang'
    <3> SUFFICES ASSUME NEW i \in DOMAIN ambang'
                 PROVE  ambang'[i].diproses + ambang'[i].waiting = ambang'[i].total
      BY DEF BarisSeimbang
    <3>1. i \in DOMAIN ambang /\ ambang[i].diproses + ambang[i].waiting = ambang[i].total
      BY <2>3 DEF BarisSeimbang
    <3>2. CASE i = n
      BY <2>3, <3>1, <3>2
    <3>3. CASE i # n
      BY <2>3, <3>1, <3>3
    <3> QED BY <3>2, <3>3
  <2>5. ASSUME NEW s \in Seller PROVE WaitingSeller(s)' = Cardinality(KirimanSeller(s))'
    <3>1. /\ WaitingSeller(s)' = WaitingSeller(s)
                 + (IF ambang[n].seller = s THEN ambang'[n].waiting - ambang[n].waiting ELSE 0)
          /\ WaitingSeller(s) \in Int
      BY <1>0, <2>1, <2>3, SellerUbah
    <3>2. KirimanSeller(s)' = KirimanSeller(s)
      BY <2>2 DEF KirimanSeller
    <3> QED BY <2>3, <3>1, <3>2 DEF WaitingSesuai
  <2> QED BY <2>4, <2>5 DEF WaitingSesuai
<1>2. ASSUME NEW p \in Proses, KirimKomit(p) PROVE BarisSeimbang' /\ WaitingSesuai'
  <2> DEFINE n == proses[p].ambang
             k == [transaksi |-> proses[p].transaksi, status |-> "Waiting"]
  <2>1. n \in DOMAIN ambang /\ ambang[n].seller = SellerDari[k.transaksi] /\ k.transaksi \in Transaksi
    BY <1>2 DEF KirimKomit, TypeInv, TypeOK, AmbangMilik, AdaOrder
  <2>2. ambang' = AmbangKirim(n) /\ pengiriman' = Append(pengiriman, k)
    BY <1>2 DEF KirimKomit
  <2> HIDE DEF n, k
  <2>3. /\ ambang' \in Seq(BarisAmbang) /\ DOMAIN ambang' = DOMAIN ambang
        /\ \A i \in DOMAIN ambang : ambang'[i].seller = ambang[i].seller /\ (i # n => ambang'[i] = ambang[i])
        /\ ambang'[n].total = ambang[n].total /\ ambang'[n].diproses = ambang[n].diproses - 1
        /\ ambang'[n].waiting = ambang[n].waiting + 1
        /\ ambang[n].total \in Int /\ ambang[n].diproses \in Int /\ ambang[n].waiting \in Int
    BY <2>1, <2>2, AmbangUbah
  <2>4. BarisSeimbang'
    <3> SUFFICES ASSUME NEW i \in DOMAIN ambang'
                 PROVE  ambang'[i].diproses + ambang'[i].waiting = ambang'[i].total
      BY DEF BarisSeimbang
    <3>1. i \in DOMAIN ambang /\ ambang[i].diproses + ambang[i].waiting = ambang[i].total
      BY <2>3 DEF BarisSeimbang
    <3>2. CASE i = n
      BY <2>3, <3>1, <3>2
    <3>3. CASE i # n
      BY <2>3, <3>1, <3>3
    <3> QED BY <3>2, <3>3
  <2>5. ASSUME NEW s \in Seller PROVE WaitingSeller(s)' = Cardinality(KirimanSeller(s))'
    <3>1. /\ WaitingSeller(s)' = WaitingSeller(s)
                 + (IF ambang[n].seller = s THEN ambang'[n].waiting - ambang[n].waiting ELSE 0)
          /\ WaitingSeller(s) \in Int
      BY <1>0, <2>1, <2>3, SellerUbah
    <3>2. /\ Cardinality(KirimanSeller(s)') =
                 Cardinality(KirimanSeller(s)) + (IF SellerDari[k.transaksi] = s THEN 1 ELSE 0)
          /\ Cardinality(KirimanSeller(s)) \in Nat
      BY <1>0, <2>1, <2>2, KirimanTambah
    <3> QED BY <2>1, <2>3, <3>1, <3>2 DEF WaitingSesuai
  <2> QED BY <2>4, <2>5 DEF WaitingSesuai
<1>3. ASSUME NEW p \in Proses, UpThresholdBuat(p) PROVE BarisSeimbang' /\ WaitingSesuai'
  <2> DEFINE b == [seller |-> SellerDari[proses[p].transaksi],
                   total |-> 0, diproses |-> 0, waiting |-> 0]
  <2>1. ambang' = Append(ambang, b) /\ UNCHANGED pengiriman
    BY <1>3 DEF UpThresholdBuat
  <2>2. b.diproses + b.waiting = b.total /\ b.waiting = 0 /\ b.diproses = 0 /\ b \in BarisAmbang
    BY <1>3, OrderProses DEF UpThresholdBuat, BarisAmbang
  <2> HIDE DEF b
  <2>3. BarisSeimbang'
    BY <1>0, <2>1, <2>2 DEF BarisSeimbang
  <2>4. ASSUME NEW s \in Seller PROVE WaitingSeller(s)' = Cardinality(KirimanSeller(s))'
    <3>1. WaitingSeller(s)' = WaitingSeller(s)
      BY <1>0, <2>1, <2>2, SellerTambah
    <3>2. KirimanSeller(s)' = KirimanSeller(s)
      BY <2>1 DEF KirimanSeller
    <3> QED BY <3>1, <3>2 DEF WaitingSesuai
  <2> QED BY <2>3, <2>4 DEF WaitingSesuai
<1>4. CASE UNCHANGED <<ambang, pengiriman>>
  BY <1>4 DEF BarisSeimbang, WaitingSesuai, WaitingSeller, KirimanSeller
<1> QED BY <1>1, <1>2, <1>3, <1>4
    DEF Next, Langkah, ApproveOrderTransaksi, KirimOrderTransaksi, UnApproveOrderTransaksi,
        SetujuBacaAmbang, UpThreshold, KirimBacaAmbang, KirimTulis, TolakTulis, Putus,
        LatarKirim, vars

LEMMA AmbangAwal ==
    ASSUME Init
    PROVE  /\ AmbangMilik /\ BarisSeimbang /\ WaitingSesuai
           /\ \A s \in Seller : DiprosesSeller(s) = 0
<1>1. ambang = << >> /\ pengiriman = << >> /\ \A p \in Proses : proses[p].tahap = "bebas"
  BY DEF Init, ProsesBebas
<1>2. DOMAIN ambang = {} /\ DOMAIN pengiriman = {}
  BY <1>1
<1>3. ASSUME NEW s PROVE WaitingSeller(s) = 0 /\ DiprosesSeller(s) = 0
  <2> DEFINE f == [n \in DOMAIN ambang |-> IF ambang[n].seller = s THEN ambang[n].waiting ELSE 0]
             g == [n \in DOMAIN ambang |-> IF ambang[n].seller = s THEN ambang[n].diproses ELSE 0]
  <2>1. WaitingSeller(s) = SumFunctionOnSet(f, {}) /\ DiprosesSeller(s) = SumFunctionOnSet(g, {})
    BY <1>2 DEF WaitingSeller, DiprosesSeller, SumFunction
  <2> HIDE DEF f, g
  <2> QED BY <2>1, JumlahKosong
<1>4. ASSUME NEW s PROVE Cardinality(KirimanSeller(s)) = 0
  <2>1. KirimanSeller(s) = {}
    BY <1>2 DEF KirimanSeller
  <2> QED BY <2>1, FS_EmptySet
<1>5. AmbangMilik
  BY <1>1 DEF AmbangMilik
<1>6. WaitingSesuai
  BY <1>3, <1>4 DEF WaitingSesuai
<1>7. BarisSeimbang
  BY <1>2 DEF BarisSeimbang
<1> QED BY <1>3, <1>5, <1>6, <1>7

LEMMA AmbangMilikBenar == Spec => []AmbangMilik
<1>1. Init => AmbangMilik
  BY AmbangAwal
<1>2. TypeInv /\ AmbangMilik /\ [Next]_vars => AmbangMilik'
  BY AmbangMilikLangkah
<1> QED BY <1>1, <1>2, TypeInvBenar, PTL DEF Spec

\* No interleaving of approvals and hand-overs, on one row or on the two rows that a
\* race in UpThreshold leaves, loses or invents an order in a threshold row, and a seller's
\* rows together count the deliveries of the seller.
THEOREM AmbangSeimbangBenar == Spec => []AmbangSeimbang
<1>1. Init => BarisSeimbang /\ WaitingSesuai
  BY AmbangAwal
<1>2. TypeInv /\ AmbangMilik /\ BarisSeimbang /\ WaitingSesuai /\ [Next]_vars
        => BarisSeimbang' /\ WaitingSesuai'
  BY AmbangSeimbangStep
<1> QED BY <1>1, <1>2, SeimbangParts, AmbangMilikBenar, TypeInvBenar, PTL DEF Spec

-----------------------------------------------------------------------------
(* The life of an order, when the seller answers each order one request at a *)
(* time.  A handler writes the status by the order's id alone; what makes    *)
(* its write right is that the status it has read cannot have changed:       *)
(* Eksklusif keeps other requests away, TahapStatus is what it has read.     *)

Eksklusif ==
    \A p, q \in Proses :
        p # q /\ proses[p].tahap # "bebas" /\ proses[q].tahap # "bebas" =>
            proses[p].transaksi # proses[q].transaksi

StatusDari(tahap) ==
    IF tahap \in {"kirim", "kirimTulis", "kirimKomit"} THEN "Diproses" ELSE "Dibayar"

TahapStatus ==
    \A p \in Proses : proses[p].tahap # "bebas" =>
        transaksi[proses[p].transaksi].status = StatusDari(proses[p].tahap)

TertibInv == TypeInv /\ Eksklusif /\ TahapStatus

LEMMA MulaiTertib ==
    ASSUME TertibInv, SellerTertib, NEW p \in Proses, NEW t \in Transaksi, NEW tahap,
           Mulai(p, tahap, t), transaksi[t].status = StatusDari(tahap), UNCHANGED transaksi
    PROVE  Eksklusif' /\ TahapStatus'
<1> DEFINE r == [tahap |-> tahap, transaksi |-> t, ambang |-> 0]
<1>1. proses \in [Proses -> TipeProses] /\ proses' = [proses EXCEPT ![p] = r]
  BY DEF Mulai, TertibInv, TypeInv, TypeOK
<1>2. \A q \in Proses : proses[q].transaksi # t
  BY DEF Mulai, Giliran
<1>3. r.tahap = tahap /\ r.transaksi = t
  OBVIOUS
<1> HIDE DEF r
<1>4. proses'[p] = r /\ \A q \in Proses : q # p => proses'[q] = proses[q]
  BY <1>1
<1>5. Eksklusif'
  BY <1>2, <1>3, <1>4 DEF TertibInv, Eksklusif
<1>6. TahapStatus'
  BY <1>3, <1>4 DEF TertibInv, TahapStatus
<1> QED BY <1>5, <1>6

\* A request that goes on works on the same order.
LEMMA LanjutTertib ==
    ASSUME TertibInv, NEW p \in Proses, proses[p].tahap # "bebas", NEW r,
           proses' = [proses EXCEPT ![p] = r], r.transaksi = proses[p].transaksi,
           StatusDari(r.tahap) = StatusDari(proses[p].tahap), UNCHANGED transaksi
    PROVE  Eksklusif' /\ TahapStatus'
<1>1. proses \in [Proses -> TipeProses]
  BY DEF TertibInv, TypeInv, TypeOK
<1>2. proses'[p] = r /\ \A q \in Proses : q # p => proses'[q] = proses[q]
  BY <1>1
<1>3. Eksklusif'
  BY <1>2 DEF TertibInv, Eksklusif
<1>4. TahapStatus'
  BY <1>2 DEF TertibInv, TahapStatus
<1> QED BY <1>3, <1>4

LEMMA KeTertib ==
    ASSUME TertibInv, NEW p \in Proses, proses[p].tahap # "bebas", NEW tahap, Ke(p, tahap),
           StatusDari(tahap) = StatusDari(proses[p].tahap), UNCHANGED transaksi
    PROVE  Eksklusif' /\ TahapStatus'
<1> DEFINE r == [proses[p] EXCEPT !.tahap = tahap]
<1>1. proses[p] \in TipeProses
  BY DEF TertibInv, TypeInv, TypeOK
<1>2. r.tahap = tahap /\ r.transaksi = proses[p].transaksi
  BY <1>1 DEF TipeProses
<1>3. proses' = [proses EXCEPT ![p] = r]
  BY DEF Ke
<1> HIDE DEF r
<1> QED BY <1>2, <1>3, LanjutTertib

LEMMA PilihTertib ==
    ASSUME TertibInv, NEW p \in Proses, proses[p].tahap # "bebas", NEW tahap,
           PilihAmbang(p, tahap),
           StatusDari(tahap) = StatusDari(proses[p].tahap), UNCHANGED transaksi
    PROVE  Eksklusif' /\ TahapStatus'
<1>0. PICK n \in AmbangSeller(proses[p].transaksi) :
          proses' = [proses EXCEPT ![p] = [proses[p] EXCEPT !.tahap = tahap, !.ambang = n]]
  BY DEF PilihAmbang
<1> DEFINE r == [proses[p] EXCEPT !.tahap = tahap, !.ambang = n]
<1>1. proses[p] \in TipeProses
  BY DEF TertibInv, TypeInv, TypeOK
<1>2. r.tahap = tahap /\ r.transaksi = proses[p].transaksi
  BY <1>1 DEF TipeProses
<1>3. proses' = [proses EXCEPT ![p] = r]
  BY <1>0
<1> HIDE DEF r
<1> QED BY <1>2, <1>3, LanjutTertib

\* A request that ends may have written the order it worked on, and no other.
LEMMA LepasTertib ==
    ASSUME TertibInv, NEW p \in Proses, proses[p].tahap # "bebas", Lepas(p),
           \A t \in Transaksi : t # proses[p].transaksi => transaksi'[t] = transaksi[t]
    PROVE  Eksklusif' /\ TahapStatus'
<1>1. /\ proses \in [Proses -> TipeProses]
      /\ \A q \in Proses : proses[q].tahap # "bebas" => proses[q].transaksi \in Transaksi
  BY DEF TertibInv, TypeInv, TypeOK, AdaOrder
<1>2. proses'[p].tahap = "bebas" /\ \A q \in Proses : q # p => proses'[q] = proses[q]
  BY <1>1 DEF Lepas, ProsesBebas
<1>3. Eksklusif'
  BY <1>2 DEF TertibInv, Eksklusif
<1>4. ASSUME NEW q \in Proses, proses'[q].tahap # "bebas"
      PROVE  transaksi'[proses'[q].transaksi].status = StatusDari(proses'[q].tahap)
  <2>1. q # p /\ proses'[q] = proses[q] /\ proses[q].tahap # "bebas"
    BY <1>2, <1>4
  <2>2. proses[q].transaksi # proses[p].transaksi /\ proses[q].transaksi \in Transaksi
    BY <1>1, <2>1 DEF TertibInv, Eksklusif
  <2>3. transaksi'[proses[q].transaksi] = transaksi[proses[q].transaksi]
    BY <2>2
  <2> QED BY <2>1, <2>3 DEF TertibInv, TahapStatus
<1> QED BY <1>3, <1>4 DEF TahapStatus

\* The order a running request writes had the status the request has read.
LEMMA TulisTertib ==
    ASSUME TertibInv, NEW p \in Proses, NEW status \in StatusTransaksi, NEW oleh,
           proses[p].tahap # "bebas", Lepas(p),
           transaksi' = [transaksi EXCEPT ![proses[p].transaksi] =
                            [status |-> status, dibatalkanOleh |-> oleh]]
    PROVE  /\ Eksklusif' /\ TahapStatus'
           /\ proses[p].transaksi \in Transaksi
           /\ transaksi[proses[p].transaksi].status = StatusDari(proses[p].tahap)
           /\ [t \in Transaksi |-> transaksi'[t].status] =
                 [[t \in Transaksi |-> transaksi[t].status]
                     EXCEPT ![proses[p].transaksi] = status]
<1> DEFINE o == proses[p].transaksi
<1>1. o \in Transaksi /\ transaksi \in [Transaksi -> BarisTransaksi]
  BY DEF TertibInv, TypeInv, TypeOK, AdaOrder
<1>2. transaksi[o].status = StatusDari(proses[p].tahap)
  BY DEF TertibInv, TahapStatus
<1>3. /\ transaksi'[o].status = status
      /\ \A t \in Transaksi : t # o => transaksi'[t] = transaksi[t]
  BY <1>1
<1>4. Eksklusif' /\ TahapStatus'
  BY <1>3, LepasTertib
<1> QED BY <1>1, <1>2, <1>3, <1>4

\* What a request does to the orders: nothing, or one move of the abstract life.
LEMMA LangkahTertib ==
    ASSUME TertibInv, SellerTertib, NEW p \in Proses, Langkah(p)
    PROVE  /\ Eksklusif' /\ TahapStatus'
           /\ Siklus!Next \/ UNCHANGED transaksi
<1>0. \A t \in Transaksi : transaksi[t] \in BarisTransaksi
  BY DEF TertibInv, TypeInv, TypeOK
<1>1. ASSUME NEW t \in Transaksi, ApproveOrderTransaksi(p, t)
      PROVE  Eksklusif' /\ TahapStatus' /\ UNCHANGED transaksi
  BY <1>1, MulaiTertib DEF ApproveOrderTransaksi, StatusDari
<1>2. ASSUME NEW t \in Transaksi, KirimOrderTransaksi(p, t)
      PROVE  Eksklusif' /\ TahapStatus' /\ UNCHANGED transaksi
  BY <1>2, MulaiTertib DEF KirimOrderTransaksi, StatusDari
<1>3. ASSUME NEW t \in Transaksi, UnApproveOrderTransaksi(p, t)
      PROVE  Eksklusif' /\ TahapStatus' /\ UNCHANGED transaksi
  BY <1>3, MulaiTertib DEF UnApproveOrderTransaksi, StatusDari
<1>4. CASE SetujuBacaAmbang(p)
  <2>1. /\ proses[p].tahap = "setuju" /\ UNCHANGED transaksi
        /\ Ke(p, "upThreshold") \/ PilihAmbang(p, "setujuTulis")
    BY <1>4 DEF SetujuBacaAmbang
  <2> QED BY <2>1, KeTertib, PilihTertib DEF StatusDari
<1>5. CASE UpThreshold(p)
  <2>1. /\ proses[p].tahap = "upThreshold" /\ UNCHANGED transaksi
        /\ Ke(p, "buatAmbang") \/ Ke(p, "setuju")
    BY <1>5 DEF UpThreshold
  <2> QED BY <2>1, KeTertib DEF StatusDari
<1>6. CASE UpThresholdBuat(p)
  BY <1>6, KeTertib DEF UpThresholdBuat, StatusDari
<1>7. CASE KirimBacaAmbang(p)
  BY <1>7, PilihTertib DEF KirimBacaAmbang, StatusDari
<1>8. CASE KirimTulis(p)
  BY <1>8, KeTertib DEF KirimTulis, StatusDari
<1>9. CASE Putus(p)
  BY <1>9, LepasTertib DEF Putus
<1>10. CASE SetujuTulis(p)
  <2> DEFINE o == proses[p].transaksi
  <2>1. proses[p].tahap = "setujuTulis" /\ o \in Transaksi
    BY <1>10 DEF SetujuTulis, TertibInv, TypeInv, AdaOrder
  <2>2. [transaksi[o] EXCEPT !.status = "Diproses"] =
            [status |-> "Diproses", dibatalkanOleh |-> transaksi[o].dibatalkanOleh]
    BY <1>0, <2>1 DEF BarisTransaksi
  <2>3. /\ transaksi' = [transaksi EXCEPT ![o] =
                [status |-> "Diproses", dibatalkanOleh |-> transaksi[o].dibatalkanOleh]]
        /\ Lepas(p)
    BY <1>10, <2>2 DEF SetujuTulis
  <2>4. "Diproses" \in StatusTransaksi
    BY DEF StatusTransaksi
  <2>5. /\ Eksklusif' /\ TahapStatus' /\ transaksi[o].status = "Dibayar"
        /\ [t \in Transaksi |-> transaksi'[t].status] =
              [[t \in Transaksi |-> transaksi[t].status] EXCEPT ![o] = "Diproses"]
    BY <2>1, <2>3, <2>4, TulisTertib DEF StatusDari
  <2>6. \E t \in Transaksi : Siklus!Disetujui(t)
    BY <2>1, <2>5 DEF Siklus!Disetujui, Siklus!Pindah
  <2> QED BY <2>1, <2>5, <2>6 DEF Siklus!Next
<1>11. CASE KirimKomit(p)
  <2> DEFINE o == proses[p].transaksi
  <2>1. proses[p].tahap = "kirimKomit" /\ o \in Transaksi
    BY <1>11 DEF KirimKomit, TertibInv, TypeInv, AdaOrder
  <2>2. [transaksi[o] EXCEPT !.status = "Waiting"] =
            [status |-> "Waiting", dibatalkanOleh |-> transaksi[o].dibatalkanOleh]
    BY <1>0, <2>1 DEF BarisTransaksi
  <2>3. /\ transaksi' = [transaksi EXCEPT ![o] =
                [status |-> "Waiting", dibatalkanOleh |-> transaksi[o].dibatalkanOleh]]
        /\ Lepas(p)
    BY <1>11, <2>2 DEF KirimKomit
  <2>4. "Waiting" \in StatusTransaksi
    BY DEF StatusTransaksi
  <2>5. /\ Eksklusif' /\ TahapStatus' /\ transaksi[o].status = "Diproses"
        /\ [t \in Transaksi |-> transaksi'[t].status] =
              [[t \in Transaksi |-> transaksi[t].status] EXCEPT ![o] = "Waiting"]
    BY <2>1, <2>3, <2>4, TulisTertib DEF StatusDari
  <2>6. \E t \in Transaksi : Siklus!Menunggu(t)
    BY <2>1, <2>5 DEF Siklus!Menunggu, Siklus!Pindah
  <2> QED BY <2>1, <2>5, <2>6 DEF Siklus!Next
<1>12. CASE TolakTulis(p)
  <2> DEFINE o == proses[p].transaksi
  <2>1. proses[p].tahap = "tolakTulis" /\ o \in Transaksi
    BY <1>12 DEF TolakTulis, TertibInv, TypeInv, AdaOrder
  <2>2. "Dibatalkan" \in StatusTransaksi
    BY DEF StatusTransaksi
  <2>3. /\ Eksklusif' /\ TahapStatus' /\ transaksi[o].status = "Dibayar"
        /\ [t \in Transaksi |-> transaksi'[t].status] =
              [[t \in Transaksi |-> transaksi[t].status] EXCEPT ![o] = "Dibatalkan"]
    BY <1>12, <2>1, <2>2, TulisTertib DEF TolakTulis, StatusDari
  <2>4. \E t \in Transaksi : Siklus!Dibatalkan(t)
    BY <2>1, <2>3 DEF Siklus!Dibatalkan, Siklus!Pindah
  <2> QED BY <2>1, <2>3, <2>4 DEF Siklus!Next
<1> QED BY <1>1, <1>2, <1>3, <1>4, <1>5, <1>6, <1>7, <1>8, <1>9, <1>10, <1>11, <1>12
    DEF Langkah

LEMMA TertibStep ==
    ASSUME SellerTertib, TertibInv, [Next]_vars
    PROVE  TertibInv' /\ (Siklus!Next \/ UNCHANGED transaksi)
<1>1. TypeInv'
  BY TypeInvStep DEF TertibInv
<1>2. CASE UNCHANGED <<transaksi, proses>>
  BY <1>1, <1>2 DEF TertibInv, Eksklusif, TahapStatus
<1>3. CASE \E p \in Proses : Langkah(p)
  BY <1>1, <1>3, LangkahTertib DEF TertibInv
<1> QED BY <1>2, <1>3 DEF Next, LatarKirim, vars

\* When a seller answers each order one request at a time, everything the three
\* handlers do to the status of orders, however the requests about different orders
\* overlap and wherever they stop, is a life the status enum allows.
THEOREM SiklusBenar == SellerTertib => (Spec => SiklusSpec)
<1> SUFFICES ASSUME SellerTertib PROVE Spec => SiklusSpec
  OBVIOUS
<1>1. Init => TertibInv /\ Siklus!Init
  <2> SUFFICES ASSUME Init PROVE TertibInv /\ Siklus!Init
    OBVIOUS
  <2>1. \A p \in Proses : proses[p].tahap = "bebas"
    BY DEF Init, ProsesBebas
  <2>2. TypeInv
    BY TypeInvInit
  <2> QED BY <2>1, <2>2 DEF Init, TertibInv, Eksklusif, TahapStatus, Siklus!Init
<1>2. TertibInv /\ [Next]_vars =>
          TertibInv' /\ [Siklus!Next]_([t \in Transaksi |-> transaksi[t].status])
  BY TertibStep
<1> QED BY <1>1, <1>2, PTL DEF Spec, SiklusSpec, Siklus!Spec

-----------------------------------------------------------------------------
(* The orders in process of an orderly seller.                              *)

OrderDiproses(s) == {t \in Transaksi : SellerDari[t] = s /\ transaksi[t].status = "Diproses"}

DiprosesInv ==
    \A s \in Seller : /\ IsFiniteSet(OrderDiproses(s))
                      /\ DiprosesSeller(s) = Cardinality(OrderDiproses(s))

LEMMA DiprosesSesuaiParts == DiprosesInv => DiprosesSesuaiStatus
BY DEF DiprosesInv, DiprosesSesuaiStatus, OrderDiproses

Satu(b) == IF b THEN 1 ELSE 0

\* One order gets another status.
LEMMA OrderUbah ==
    ASSUME TypeInv, NEW o \in Transaksi, NEW r, transaksi' = [transaksi EXCEPT ![o] = r],
           NEW s, IsFiniteSet(OrderDiproses(s))
    PROVE  /\ IsFiniteSet(OrderDiproses(s)')
           /\ Cardinality(OrderDiproses(s)) \in Nat
           /\ Cardinality(OrderDiproses(s)') = Cardinality(OrderDiproses(s))
                 + (IF SellerDari[o] = s
                    THEN Satu(r.status = "Diproses") - Satu(transaksi[o].status = "Diproses") ELSE 0)
<1> DEFINE A == OrderDiproses(s)
           B == OrderDiproses(s)'
           masuk == SellerDari[o] = s /\ r.status = "Diproses"
           ada == SellerDari[o] = s /\ transaksi[o].status = "Diproses"
<1>1. transaksi \in [Transaksi -> BarisTransaksi]
  BY DEF TypeInv, TypeOK
<1>2. /\ o \in A <=> ada
      /\ B = IF masuk THEN A \cup {o} ELSE A \ {o}
  BY <1>1 DEF OrderDiproses
<1>3. /\ IsFiniteSet(A \cup {o}) /\ Cardinality(A \cup {o}) = IF o \in A THEN Cardinality(A) ELSE Cardinality(A) + 1
      /\ IsFiniteSet(A \ {o}) /\ Cardinality(A \ {o}) = IF o \in A THEN Cardinality(A) - 1 ELSE Cardinality(A)
      /\ Cardinality(A) \in Nat
  <2> HIDE DEF A
  <2>1. Cardinality(A) \in Nat
    BY FS_CardinalityType DEF A
  <2>2. IsFiniteSet(A)
    BY DEF A
  <2> QED BY <2>1, <2>2, FS_AddElement, FS_RemoveElement
<1> HIDE DEF A, B
<1>4. IsFiniteSet(B)
  BY <1>2, <1>3
<1>5. Cardinality(B) = Cardinality(A) + Satu(masuk) - Satu(ada)
  BY <1>2, <1>3 DEF Satu
<1> QED BY <1>3, <1>4, <1>5 DEF A, B, Satu

LEMMA DiprosesStep ==
    ASSUME TertibInv, AmbangMilik, DiprosesInv, [Next]_vars
    PROVE  DiprosesInv'
<1>0. /\ TypeInv /\ ambang \in Seq(BarisAmbang)
      /\ \A t \in Transaksi : transaksi[t] \in BarisTransaksi
  BY DEF TertibInv, TypeInv, TypeOK
<1>a. \A s \in Seller : IsFiniteSet(OrderDiproses(s)) /\ DiprosesSeller(s) = Cardinality(OrderDiproses(s))
  BY DEF DiprosesInv
<1>1. ASSUME NEW p \in Proses, SetujuTulis(p) PROVE DiprosesInv'
  <2> DEFINE n == proses[p].ambang
             o == proses[p].transaksi
             r == [transaksi[o] EXCEPT !.status = "Diproses"]
  <2>1. /\ n \in DOMAIN ambang /\ ambang[n].seller = SellerDari[o] /\ o \in Transaksi
        /\ transaksi[o].status = "Dibayar"
    BY <1>1 DEF SetujuTulis, TertibInv, TypeInv, TypeOK, AmbangMilik, AdaOrder, TahapStatus, StatusDari
  <2>2. ambang' = AmbangSetuju(n) /\ transaksi' = [transaksi EXCEPT ![o] = r]
    BY <1>1 DEF SetujuTulis
  <2>3. r.status = "Diproses"
    BY <1>0, <2>1 DEF BarisTransaksi
  <2> HIDE DEF n, o, r
  <2>4. /\ ambang' \in Seq(BarisAmbang) /\ DOMAIN ambang' = DOMAIN ambang
        /\ \A i \in DOMAIN ambang : ambang'[i].seller = ambang[i].seller /\ (i # n => ambang'[i] = ambang[i])
        /\ ambang'[n].diproses = ambang[n].diproses + 1 /\ ambang[n].diproses \in Int
    BY <1>0, <2>1, <2>2, AmbangUbah
  <2> SUFFICES ASSUME NEW s \in Seller
               PROVE  IsFiniteSet(OrderDiproses(s)') /\ DiprosesSeller(s)' = Cardinality(OrderDiproses(s)')
    BY DEF DiprosesInv
  <2>5. /\ DiprosesSeller(s)' = DiprosesSeller(s)
               + (IF ambang[n].seller = s THEN ambang'[n].diproses - ambang[n].diproses ELSE 0)
        /\ DiprosesSeller(s) \in Int
    BY <1>0, <2>1, <2>4, SellerUbah
  <2>6. /\ IsFiniteSet(OrderDiproses(s)')
        /\ Cardinality(OrderDiproses(s)') = Cardinality(OrderDiproses(s))
                 + (IF SellerDari[o] = s
                    THEN Satu(r.status = "Diproses") - Satu(transaksi[o].status = "Diproses") ELSE 0)
    BY <1>0, <1>a, <2>1, <2>2, OrderUbah
  <2> QED BY <1>a, <2>1, <2>3, <2>4, <2>5, <2>6 DEF Satu
<1>2. ASSUME NEW p \in Proses, KirimKomit(p) PROVE DiprosesInv'
  <2> DEFINE n == proses[p].ambang
             o == proses[p].transaksi
             r == [transaksi[o] EXCEPT !.status = "Waiting"]
  <2>1. /\ n \in DOMAIN ambang /\ ambang[n].seller = SellerDari[o] /\ o \in Transaksi
        /\ transaksi[o].status = "Diproses"
    BY <1>2 DEF KirimKomit, TertibInv, TypeInv, TypeOK, AmbangMilik, AdaOrder, TahapStatus, StatusDari
  <2>2. ambang' = AmbangKirim(n) /\ transaksi' = [transaksi EXCEPT ![o] = r]
    BY <1>2 DEF KirimKomit
  <2>3. r.status = "Waiting"
    BY <1>0, <2>1 DEF BarisTransaksi
  <2> HIDE DEF n, o, r
  <2>4. /\ ambang' \in Seq(BarisAmbang) /\ DOMAIN ambang' = DOMAIN ambang
        /\ \A i \in DOMAIN ambang : ambang'[i].seller = ambang[i].seller /\ (i # n => ambang'[i] = ambang[i])
        /\ ambang'[n].diproses = ambang[n].diproses - 1 /\ ambang[n].diproses \in Int
    BY <1>0, <2>1, <2>2, AmbangUbah
  <2> SUFFICES ASSUME NEW s \in Seller
               PROVE  IsFiniteSet(OrderDiproses(s)') /\ DiprosesSeller(s)' = Cardinality(OrderDiproses(s)')
    BY DEF DiprosesInv
  <2>5. /\ DiprosesSeller(s)' = DiprosesSeller(s)
               + (IF ambang[n].seller = s THEN ambang'[n].diproses - ambang[n].diproses ELSE 0)
        /\ DiprosesSeller(s) \in Int
    BY <1>0, <2>1, <2>4, SellerUbah
  <2>6. /\ IsFiniteSet(OrderDiproses(s)')
        /\ Cardinality(OrderDiproses(s)') = Cardinality(OrderDiproses(s))
                 + (IF SellerDari[o] = s
                    THEN Satu(r.status = "Diproses") - Satu(transaksi[o].status = "Diproses") ELSE 0)
    BY <1>0, <1>a, <2>1, <2>2, OrderUbah
  <2> QED BY <1>a, <2>1, <2>3, <2>4, <2>5, <2>6 DEF Satu
<1>3. ASSUME NEW p \in Proses, TolakTulis(p) PROVE DiprosesInv'
  <2> DEFINE o == proses[p].transaksi
             r == [status |-> "Dibatalkan", dibatalkanOleh |-> "Seller"]
  <2>1. o \in Transaksi /\ transaksi[o].status = "Dibayar"
    BY <1>3 DEF TolakTulis, TertibInv, TypeInv, AdaOrder, TahapStatus, StatusDari
  <2>2. UNCHANGED ambang /\ transaksi' = [transaksi EXCEPT ![o] = r] /\ r.status = "Dibatalkan"
    BY <1>3 DEF TolakTulis
  <2> HIDE DEF o, r
  <2> SUFFICES ASSUME NEW s \in Seller
               PROVE  IsFiniteSet(OrderDiproses(s)') /\ DiprosesSeller(s)' = Cardinality(OrderDiproses(s)')
    BY DEF DiprosesInv
  <2>5. DiprosesSeller(s)' = DiprosesSeller(s)
    BY <2>2 DEF DiprosesSeller
  <2>6. /\ IsFiniteSet(OrderDiproses(s)')
        /\ Cardinality(OrderDiproses(s)) \in Nat
        /\ Cardinality(OrderDiproses(s)') = Cardinality(OrderDiproses(s))
                 + (IF SellerDari[o] = s
                    THEN Satu(r.status = "Diproses") - Satu(transaksi[o].status = "Diproses") ELSE 0)
    BY <1>0, <1>a, <2>1, <2>2, OrderUbah
  <2> QED BY <1>a, <2>1, <2>2, <2>5, <2>6 DEF Satu
<1>4. ASSUME NEW p \in Proses, UpThresholdBuat(p) PROVE DiprosesInv'
  <2> DEFINE b == [seller |-> SellerDari[proses[p].transaksi],
                   total |-> 0, diproses |-> 0, waiting |-> 0]
  <2>1. ambang' = Append(ambang, b) /\ UNCHANGED transaksi
    BY <1>4 DEF UpThresholdBuat
  <2>2. b.waiting = 0 /\ b.diproses = 0 /\ b \in BarisAmbang
    BY <1>0, <1>4, OrderProses DEF UpThresholdBuat, BarisAmbang
  <2> HIDE DEF b
  <2>3. \A s \in Seller : DiprosesSeller(s)' = DiprosesSeller(s)
    BY <1>0, <2>1, <2>2, SellerTambah
  <2>4. \A s \in Seller : OrderDiproses(s)' = OrderDiproses(s)
    BY <2>1 DEF OrderDiproses
  <2> QED BY <1>a, <2>3, <2>4 DEF DiprosesInv
<1>5. CASE UNCHANGED <<ambang, transaksi>>
  BY <1>5 DEF DiprosesInv, OrderDiproses, DiprosesSeller
<1> QED BY <1>1, <1>2, <1>3, <1>4, <1>5
    DEF Next, Langkah, ApproveOrderTransaksi, KirimOrderTransaksi, UnApproveOrderTransaksi,
        SetujuBacaAmbang, UpThreshold, KirimBacaAmbang, KirimTulis, Putus,
        LatarKirim, vars

LEMMA DiprosesAwal == Init => DiprosesInv
<1> SUFFICES ASSUME Init, NEW s \in Seller
             PROVE  IsFiniteSet(OrderDiproses(s)) /\ DiprosesSeller(s) = Cardinality(OrderDiproses(s))
  BY DEF DiprosesInv
<1>1. OrderDiproses(s) = {}
  BY DEF Init, OrderDiproses
<1> QED BY <1>1, AmbangAwal, FS_EmptySet

-----------------------------------------------------------------------------
(* Seller and courier together.  The courier sees an order that is not handed *)
(* over as one that waits: seen so, the steps of both components are steps of *)
(* KurirPengiriman alone, whose proofs are used as they are.                  *)

StatusTampak == [t \in Transaksi |-> IF t \in Diserahkan THEN StatusOrder[t] ELSE "Waiting"]

AT == INSTANCE KurirPengirimanProofs WITH
          Pengiriman <- Transaksi, Proses <- ProsesKurir, KurirTertib <- SellerTertib,
          transaksi <- StatusTampak, pengiriman <- kiriman, proses <- prosesKurir,
          skenario <- "tertib", d1 <- t1, d2 <- t2, d3 <- t3, k2 <- k1, p1 <- q1, p2 <- q1

KirimanKurir == /\ AT!TypeInv /\ AT!TertibInv
                /\ \A t \in Transaksi : t \notin Diserahkan => jadwal[t] = AT!TanpaJadwal
GabungInv == TertibInv /\ AmbangMilik /\ DiprosesInv /\ SatuKiriman /\ KirimanKurir

LEMMA KurirAsumsi == AT!KurirAssumption
BY SiklusAssumption DEF AT!KurirAssumption, Antar!KurirAssumption, AT!IsFiniteSet, Antar!IsFiniteSet

LEMMA TampakNilai ==
    ASSUME NEW t \in Transaksi
    PROVE  /\ StatusOrder[t] = transaksi[t].status
           /\ StatusTampak[t] = IF t \in Diserahkan THEN transaksi[t].status ELSE "Waiting"
BY DEF StatusOrder, StatusTampak

\* The courier's steps that write no order are the same steps under either view.
LEMMA AntarMulai ==
    ASSUME UNCHANGED StatusTampak, NEW p \in ProsesKurir
    PROVE  /\ \A k \in Kurir, eks \in BOOLEAN :
                 Antar!AktifkanBidKurir(p, k, eks) => AT!AktifkanBidKurir(p, k, eks)
           /\ \A n \in DOMAIN bid : Antar!LockSiapAntarBidKurir(p, n) => AT!LockSiapAntarBidKurir(p, n)
           /\ \A n \in DOMAIN bid, d \in Transaksi :
                 /\ Antar!PickedUp(p, n, d) => AT!PickedUp(p, n, d)
                 /\ Antar!KirimPengiriman(p, n, d) => AT!KirimPengiriman(p, n, d)
                 /\ Antar!SampaiPengiriman(p, n, d) => AT!SampaiPengiriman(p, n, d)
<1> USE DEF Antar!Giliran, AT!Giliran, Antar!ProsesBebas, AT!ProsesBebas, Antar!Mulai, AT!Mulai
<1>1. ASSUME NEW k \in Kurir, NEW eks \in BOOLEAN, Antar!AktifkanBidKurir(p, k, eks)
      PROVE  AT!AktifkanBidKurir(p, k, eks)
  BY <1>1 DEF Antar!AktifkanBidKurir, AT!AktifkanBidKurir
<1>2. ASSUME NEW n \in DOMAIN bid, Antar!LockSiapAntarBidKurir(p, n)
      PROVE  AT!LockSiapAntarBidKurir(p, n)
  BY <1>2 DEF Antar!LockSiapAntarBidKurir, AT!LockSiapAntarBidKurir
<1>3. ASSUME NEW n \in DOMAIN bid, NEW d \in Transaksi, Antar!PickedUp(p, n, d)
      PROVE  AT!PickedUp(p, n, d)
  BY <1>3 DEF Antar!PickedUp, AT!PickedUp
<1>4. ASSUME NEW n \in DOMAIN bid, NEW d \in Transaksi, Antar!KirimPengiriman(p, n, d)
      PROVE  AT!KirimPengiriman(p, n, d)
  BY <1>4 DEF Antar!KirimPengiriman, AT!KirimPengiriman
<1>5. ASSUME NEW n \in DOMAIN bid, NEW d \in Transaksi, Antar!SampaiPengiriman(p, n, d)
      PROVE  AT!SampaiPengiriman(p, n, d)
  BY <1>5 DEF Antar!SampaiPengiriman, AT!SampaiPengiriman
<1> QED BY <1>1, <1>2, <1>3, <1>4, <1>5

LEMMA AntarTerus ==
    ASSUME UNCHANGED StatusTampak, NEW p \in ProsesKurir
    PROVE  /\ Antar!AktifTulis(p) => AT!AktifTulis(p)
           /\ Antar!KunciBaca(p) => AT!KunciBaca(p)
           /\ Antar!KunciTulis(p) => AT!KunciTulis(p)
           /\ Antar!KirimTulis(p) => AT!KirimTulis(p)
           /\ Antar!SampaiHitung(p) => AT!SampaiHitung(p)
           /\ Antar!SampaiBaca(p) => AT!SampaiBaca(p)
           /\ Antar!Disbursment(p) => AT!Disbursment(p)
           /\ Antar!SampaiCek(p) => AT!SampaiCek(p)
           /\ Antar!Putus(p) => AT!Putus(p)
<1> USE DEF Antar!ProsesBebas, AT!ProsesBebas, Antar!Lepas, AT!Lepas, Antar!Ke, AT!Ke,
            Antar!TanpaJadwal, AT!TanpaJadwal
<1>1. ASSUME Antar!AktifTulis(p) PROVE AT!AktifTulis(p)
  BY <1>1 DEF Antar!AktifTulis, AT!AktifTulis
<1>2. ASSUME Antar!KunciBaca(p) PROVE AT!KunciBaca(p)
  BY <1>2 DEF Antar!KunciBaca, AT!KunciBaca, Antar!TerjadwalPada, AT!TerjadwalPada, Antar!Terjadwal,
              AT!Terjadwal, Antar!Cardinality, AT!Cardinality
<1>3. ASSUME Antar!KunciTulis(p) PROVE AT!KunciTulis(p)
  BY <1>3 DEF Antar!KunciTulis, AT!KunciTulis, Antar!TulisJadwal, AT!TulisJadwal
<1>4. ASSUME Antar!KirimTulis(p) PROVE AT!KirimTulis(p)
  BY <1>4 DEF Antar!KirimTulis, AT!KirimTulis, Antar!TulisJadwal, AT!TulisJadwal
<1>5. ASSUME Antar!SampaiHitung(p) PROVE AT!SampaiHitung(p)
  BY <1>5 DEF Antar!SampaiHitung, AT!SampaiHitung, Antar!Terjadwal, AT!Terjadwal,
              Antar!Cardinality, AT!Cardinality
<1>6. ASSUME Antar!SampaiBaca(p) PROVE AT!SampaiBaca(p)
  BY <1>6 DEF Antar!SampaiBaca, AT!SampaiBaca
<1>7. ASSUME Antar!Disbursment(p) PROVE AT!Disbursment(p)
  BY <1>7 DEF Antar!Disbursment, AT!Disbursment, Antar!Berikut, AT!Berikut,
              Antar!DaftarPenerima, AT!DaftarPenerima
<1>8. ASSUME Antar!SampaiCek(p) PROVE AT!SampaiCek(p)
  BY <1>8 DEF Antar!SampaiCek, AT!SampaiCek, Antar!DaftarPenerima, AT!DaftarPenerima
<1>9. ASSUME Antar!Putus(p) PROVE AT!Putus(p)
  BY <1>9 DEF Antar!Putus, AT!Putus
<1> QED BY <1>1, <1>2, <1>3, <1>4, <1>5, <1>6, <1>7, <1>8, <1>9

\* A step that writes the order of one handed over delivery writes it in either view.
LEMMA TampakTulis ==
    ASSUME NEW d \in Diserahkan, d \in Transaksi, NEW s, UNCHANGED Diserahkan,
           StatusOrder' = [StatusOrder EXCEPT ![d] = s]
    PROVE  /\ StatusTampak' = [StatusTampak EXCEPT ![d] = s]
           /\ \A t \in Transaksi \ Diserahkan : StatusOrder'[t] = StatusOrder[t]
BY DEF StatusTampak, StatusOrder

\* A courier's step is one of KurirPengiriman where orders that are not handed over seem
\* to wait, and writes none of these.
LEMMA LangkahAntar ==
    ASSUME KirimanKurir, LangkahKurir
    PROVE  /\ AT!Next /\ UNCHANGED Diserahkan
           /\ \A t \in Transaksi \ Diserahkan : StatusOrder'[t] = StatusOrder[t]
<1> SUFFICES /\ AT!Next
             /\ \A t \in Transaksi \ Diserahkan : StatusOrder'[t] = StatusOrder[t]
  BY DEF LangkahKurir, Diserahkan
<1>1. UNCHANGED Diserahkan /\ Antar!Next
  BY DEF LangkahKurir, Diserahkan
<1>2. UNCHANGED StatusOrder => UNCHANGED StatusTampak
  BY <1>1 DEF StatusTampak
<1>3. ASSUME NEW p \in ProsesKurir, Antar!AmbilTulis(p)
      PROVE  AT!AmbilTulis(p) /\ \A t \in Transaksi \ Diserahkan : StatusOrder'[t] = StatusOrder[t]
  <2>1. prosesKurir[p].tahap = "ambilTulis" /\ Antar!Lepas(p) /\ UNCHANGED <<statusBid, bid, dibayar, tercatat>>
    BY <1>3 DEF Antar!AmbilTulis
  <2>2. PICK d \in prosesKurir[p].kirim :
            /\ jejak[d] < MaxJejak
            /\ Antar!TulisJadwal({d}, "Kirim")
            /\ kiriman' = [kiriman EXCEPT ![d] = "Picked Up"]
            /\ jejak' = [jejak EXCEPT ![d] = @ + 1]
            /\ StatusOrder' = [StatusOrder EXCEPT ![d] = "Dikirim"]
    BY <1>3 DEF Antar!AmbilTulis
  <2>3. d \in Transaksi /\ jadwal[d] # AT!TanpaJadwal
    <3>1. /\ prosesKurir[p] \in AT!TipeProses
          /\ jadwal[d] = [bid |-> prosesKurir[p].bid, status |-> "Ambil"]
      BY <2>1, <2>2 DEF KirimanKurir, AT!TypeInv, AT!TypeOK, AT!TertibInv, AT!AlurInv,
                        AT!ProsesTertib, AT!Dibaca
    <3>2. prosesKurir[p].kirim \in SUBSET Transaksi
      BY <3>1 DEF AT!TipeProses
    <3>3. jadwal[d].status = "Ambil" /\ AT!TanpaJadwal.status = "tanpa"
      BY <3>1 DEF AT!TanpaJadwal
    <3>4. jadwal[d] # AT!TanpaJadwal
      BY <3>3
    <3> QED BY <3>2, <3>4
  <2>4. d \in Diserahkan
    BY <2>3 DEF KirimanKurir
  <2>5. /\ StatusTampak' = [StatusTampak EXCEPT ![d] = "Dikirim"]
        /\ \A t \in Transaksi \ Diserahkan : StatusOrder'[t] = StatusOrder[t]
    BY <1>1, <2>2, <2>3, <2>4, TampakTulis
  <2>6. AT!TulisJadwal({d}, "Kirim") /\ AT!Lepas(p)
    BY <2>1, <2>2 DEF Antar!TulisJadwal, AT!TulisJadwal, Antar!TanpaJadwal, AT!TanpaJadwal,
                      Antar!Lepas, AT!Lepas, Antar!ProsesBebas, AT!ProsesBebas
  <2> QED BY <2>1, <2>2, <2>5, <2>6 DEF AT!AmbilTulis
<1>4. ASSUME NEW p \in ProsesKurir, Antar!SampaiTulis(p)
      PROVE  AT!SampaiTulis(p) /\ \A t \in Transaksi \ Diserahkan : StatusOrder'[t] = StatusOrder[t]
  <2> DEFINE r == prosesKurir[p]
  <2>1. /\ r.tahap = "sampaiTulis" /\ Antar!Lepas(p) /\ UNCHANGED <<jejak, dibayar>>
        /\ bid' = Antar!BidSampai(r)
        /\ statusBid' = [statusBid EXCEPT ![r.kurir] = IF r.final = "ya" THEN "Idle" ELSE @]
    BY <1>4 DEF Antar!SampaiTulis
  <2>2. PICK d \in r.kirim :
            /\ Antar!HapusJadwal(d)
            /\ kiriman' = [kiriman EXCEPT ![d] = IF d \in Ekspedisi THEN "Sampai Agent" ELSE "Sampai"]
            /\ StatusOrder' = [StatusOrder EXCEPT ![d] = IF d \in Ekspedisi THEN @ ELSE "Selesai"]
            /\ tercatat' = [tercatat EXCEPT ![d] = @ + 1]
    BY <1>4 DEF Antar!SampaiTulis
  <2>3. d \in Transaksi /\ jadwal[d] # AT!TanpaJadwal
    <3>1. /\ r \in AT!TipeProses
          /\ jadwal[d] = [bid |-> r.bid, status |-> "Finish"]
      BY <2>1, <2>2 DEF KirimanKurir, AT!TypeInv, AT!TypeOK, AT!TertibInv, AT!AlurInv,
                        AT!ProsesTertib, AT!Dibaca
    <3>2. r.kirim \in SUBSET Transaksi
      BY <3>1 DEF AT!TipeProses
    <3>3. jadwal[d].status = "Finish" /\ AT!TanpaJadwal.status = "tanpa"
      BY <3>1 DEF AT!TanpaJadwal
    <3>4. jadwal[d] # AT!TanpaJadwal
      BY <3>3
    <3> QED BY <3>2, <3>4
  <2>4. d \in Diserahkan
    BY <2>3 DEF KirimanKurir
  <2>5. StatusTampak[d] = StatusOrder[d]
    BY <2>3, <2>4 DEF StatusTampak
  <2>6. /\ StatusTampak' = [StatusTampak EXCEPT ![d] = IF d \in Ekspedisi THEN @ ELSE "Selesai"]
        /\ \A t \in Transaksi \ Diserahkan : StatusOrder'[t] = StatusOrder[t]
    <3> DEFINE s == IF d \in Ekspedisi THEN StatusOrder[d] ELSE "Selesai"
    <3>1. StatusOrder' = [StatusOrder EXCEPT ![d] = s]
      BY <2>2
    <3>2. s = IF d \in Ekspedisi THEN StatusTampak[d] ELSE "Selesai"
      BY <2>5
    <3> HIDE DEF s
    <3>3. /\ StatusTampak' = [StatusTampak EXCEPT ![d] = s]
          /\ \A t \in Transaksi \ Diserahkan : StatusOrder'[t] = StatusOrder[t]
      BY <1>1, <2>3, <2>4, <3>1, TampakTulis
    <3> QED BY <3>2, <3>3
  <2>7. AT!HapusJadwal(d) /\ AT!Lepas(p) /\ bid' = AT!BidSampai(r)
    BY <2>1, <2>2 DEF Antar!HapusJadwal, AT!HapusJadwal, Antar!TanpaJadwal, AT!TanpaJadwal,
                      Antar!BidSampai, AT!BidSampai,
                      Antar!Lepas, AT!Lepas, Antar!ProsesBebas, AT!ProsesBebas
  <2> QED BY <2>1, <2>2, <2>6, <2>7 DEF AT!SampaiTulis
<1>5. ASSUME NEW p \in ProsesKurir, Antar!Langkah(p), ~ Antar!AmbilTulis(p), ~ Antar!SampaiTulis(p)
      PROVE  AT!Langkah(p) /\ UNCHANGED StatusOrder
  <2>1. UNCHANGED StatusOrder
    BY <1>5 DEF Antar!Langkah, Antar!AktifkanBidKurir, Antar!AktifTulis, Antar!LockSiapAntarBidKurir,
                Antar!KunciBaca, Antar!KunciTulis, Antar!PickedUp, Antar!KirimPengiriman,
                Antar!SampaiPengiriman, Antar!KirimTulis, Antar!SampaiHitung, Antar!SampaiBaca,
                Antar!Disbursment, Antar!SampaiCek, Antar!Putus
  <2> HIDE DEF StatusOrder
  <2> QED BY <1>2, <1>5, <2>1, AntarMulai, AntarTerus DEF Antar!Langkah, AT!Langkah
<1>6. ASSUME NEW d \in Transaksi, NEW n \in DOMAIN bid, Antar!JadwalkanOtomatis(d, n)
      PROVE  AT!JadwalkanOtomatis(d, n) /\ UNCHANGED StatusOrder
  <2>1. UNCHANGED StatusOrder
    BY <1>6 DEF Antar!JadwalkanOtomatis
  <2> HIDE DEF StatusOrder
  <2> QED BY <1>2, <1>6, <2>1 DEF Antar!JadwalkanOtomatis, AT!JadwalkanOtomatis,
                                  Antar!TanpaJadwal, AT!TanpaJadwal
<1>7. CASE \E p \in ProsesKurir : Antar!Langkah(p)
  <2>1. PICK p \in ProsesKurir : Antar!Langkah(p)
    BY <1>7
  <2>2. /\ AT!Langkah(p)
        /\ \A t \in Transaksi \ Diserahkan : StatusOrder'[t] = StatusOrder[t]
    BY <1>3, <1>4, <1>5, <2>1 DEF AT!Langkah
  <2> QED BY <2>2 DEF AT!Next
<1>8. CASE \E d \in Transaksi : \E n \in DOMAIN bid : Antar!JadwalkanOtomatis(d, n)
  BY <1>6, <1>8 DEF AT!Next
<1> QED BY <1>1, <1>7, <1>8 DEF Antar!Next

LEMMA DiserahkanType == ASSUME TypeInv PROVE Diserahkan \subseteq Transaksi
<1>1. pengiriman \in Seq(BarisPengiriman)
  BY DEF TypeInv, TypeOK
<1>2. \A n \in DOMAIN pengiriman : pengiriman[n] \in BarisPengiriman
  BY <1>1
<1> QED BY <1>2 DEF Diserahkan, BarisPengiriman

\* A seller's step hands over at most the order it writes, which seemed to wait before.
LEMMA TampakSeller ==
    ASSUME TertibInv, SatuKiriman, Next
    PROVE  SatuKiriman' /\ UNCHANGED StatusTampak /\ Diserahkan \subseteq Diserahkan'
<1> DEFINE Maksud == SatuKiriman' /\ UNCHANGED StatusTampak /\ Diserahkan \subseteq Diserahkan'
<1> SUFFICES Maksud
  OBVIOUS
<1>0. /\ transaksi \in [Transaksi -> BarisTransaksi] /\ pengiriman \in Seq(BarisPengiriman)
      /\ Diserahkan \subseteq Transaksi
      /\ \A t \in Transaksi : transaksi[t] \in BarisTransaksi
  BY DiserahkanType DEF TertibInv, TypeInv, TypeOK
<1>1. ASSUME NEW p \in Proses, KirimKomit(p) PROVE Maksud
  <2> DEFINE o == proses[p].transaksi
             b == [transaksi |-> o, status |-> "Waiting"]
             r == [transaksi[o] EXCEPT !.status = "Waiting"]
  <2>1. o \in Transaksi /\ transaksi[o].status = "Diproses"
    BY <1>1 DEF KirimKomit, TertibInv, TypeInv, AdaOrder, TahapStatus, StatusDari
  <2>2. transaksi' = [transaksi EXCEPT ![o] = r] /\ pengiriman' = Append(pengiriman, b)
    BY <1>1 DEF KirimKomit
  <2>3. r.status = "Waiting" /\ b.transaksi = o
    BY <1>0, <2>1 DEF BarisTransaksi
  <2>4. o \notin Diserahkan
    BY <2>1 DEF SatuKiriman
  <2> HIDE DEF o, b, r
  <2>5. /\ DOMAIN pengiriman' = (DOMAIN pengiriman) \cup {Len(pengiriman) + 1}
        /\ Len(pengiriman) + 1 \notin DOMAIN pengiriman
        /\ \A n \in DOMAIN pengiriman : pengiriman'[n] = pengiriman[n]
        /\ pengiriman'[Len(pengiriman) + 1] = b
    BY <1>0, <2>2
  <2>6. Diserahkan' = Diserahkan \cup {o}
    BY <2>3, <2>5 DEF Diserahkan
  <2>7. /\ transaksi'[o].status = "Waiting"
        /\ \A t \in Transaksi : t # o => transaksi'[t] = transaksi[t]
    BY <1>0, <2>1, <2>2, <2>3
  <2>8. \A m \in DOMAIN pengiriman : pengiriman[m].transaksi # o
    BY <2>4 DEF Diserahkan
  <2>9. SatuKiriman'
    <3>1. \A m, n \in DOMAIN pengiriman' :
             pengiriman'[m].transaksi = pengiriman'[n].transaksi => m = n
      BY <2>3, <2>5, <2>8 DEF SatuKiriman
    <3>2. \A t \in Transaksi :
             t \in Diserahkan' <=> transaksi'[t].status \in {"Waiting", "Dikirim", "Selesai"}
      BY <2>6, <2>7 DEF SatuKiriman
    <3> QED BY <3>1, <3>2 DEF SatuKiriman
  <2>10. UNCHANGED StatusTampak
    BY <2>4, <2>6, <2>7 DEF StatusTampak, StatusOrder
  <2> QED BY <2>6, <2>9, <2>10
<1>2. ASSUME NEW o \in Transaksi, transaksi[o].status = "Dibayar", NEW r,
             r.status \notin {"Waiting", "Dikirim", "Selesai"},
             transaksi' = [transaksi EXCEPT ![o] = r], UNCHANGED pengiriman
      PROVE  Maksud
  <2>1. Diserahkan' = Diserahkan /\ o \notin Diserahkan
    BY <1>2 DEF Diserahkan, SatuKiriman
  <2>2. transaksi'[o] = r /\ \A t \in Transaksi : t # o => transaksi'[t] = transaksi[t]
    BY <1>0, <1>2
  <2>3. SatuKiriman'
    BY <1>2, <2>1, <2>2 DEF SatuKiriman
  <2>4. UNCHANGED StatusTampak
    BY <2>1, <2>2 DEF StatusTampak, StatusOrder
  <2> QED BY <2>1, <2>3, <2>4
<1>3. ASSUME NEW p \in Proses, SetujuTulis(p) PROVE Maksud
  <2> DEFINE o == proses[p].transaksi
             r == [transaksi[o] EXCEPT !.status = "Diproses"]
  <2>1. o \in Transaksi /\ transaksi[o].status = "Dibayar"
    BY <1>3 DEF SetujuTulis, TertibInv, TypeInv, AdaOrder, TahapStatus, StatusDari
  <2>2. transaksi' = [transaksi EXCEPT ![o] = r] /\ UNCHANGED pengiriman
    BY <1>3 DEF SetujuTulis
  <2>3. r.status = "Diproses"
    BY <1>0, <2>1 DEF BarisTransaksi
  <2> HIDE DEF o, r, Maksud
  <2> QED BY <1>2, <2>1, <2>2, <2>3
<1>4. ASSUME NEW p \in Proses, TolakTulis(p) PROVE Maksud
  <2> DEFINE o == proses[p].transaksi
             r == [status |-> "Dibatalkan", dibatalkanOleh |-> "Seller"]
  <2>1. o \in Transaksi /\ transaksi[o].status = "Dibayar"
    BY <1>4 DEF TolakTulis, TertibInv, TypeInv, AdaOrder, TahapStatus, StatusDari
  <2>2. transaksi' = [transaksi EXCEPT ![o] = r] /\ UNCHANGED pengiriman /\ r.status = "Dibatalkan"
    BY <1>4 DEF TolakTulis
  <2> HIDE DEF o, r, Maksud
  <2> QED BY <1>2, <2>1, <2>2
<1>5. CASE UNCHANGED <<pengiriman, transaksi>>
  BY <1>5 DEF SatuKiriman, Diserahkan, StatusTampak, StatusOrder
<1> HIDE DEF Maksud
<1> QED BY <1>1, <1>3, <1>4, <1>5
    DEF Next, Langkah, ApproveOrderTransaksi, KirimOrderTransaksi, UnApproveOrderTransaksi,
        SetujuBacaAmbang, UpThreshold, UpThresholdBuat, KirimBacaAmbang, KirimTulis, Putus, LatarKirim

LEMMA GabungSeller ==
    ASSUME SellerTertib, GabungInv, Next, UNCHANGED varsKurir
    PROVE  GabungInv' /\ (Siklus!Next \/ UNCHANGED StatusOrder)
<1>1. TertibInv' /\ (Siklus!Next \/ UNCHANGED StatusOrder)
  BY TertibStep DEF GabungInv, StatusOrder
<1>2. AmbangMilik' /\ DiprosesInv'
  BY AmbangMilikLangkah, DiprosesStep DEF GabungInv, TertibInv
<1>3. SatuKiriman' /\ UNCHANGED StatusTampak /\ Diserahkan \subseteq Diserahkan'
  BY TampakSeller DEF GabungInv
<1>4. UNCHANGED AT!vars
  BY <1>3 DEF varsKurir, AT!vars
<1>5. AT!TypeInv' /\ AT!TertibInv'
  <2>1. AT!TypeInv'
    BY <1>4, KurirAsumsi, AT!TypeLangkah DEF GabungInv, KirimanKurir
  <2> QED BY <1>4, <2>1, KurirAsumsi, AT!TertibLangkah DEF GabungInv, KirimanKurir
<1>6. KirimanKurir'
  BY <1>3, <1>5 DEF GabungInv, KirimanKurir, varsKurir
<1> QED BY <1>1, <1>2, <1>3, <1>6 DEF GabungInv

LEMMA GabungKurir ==
    ASSUME SellerTertib, GabungInv, LangkahKurir
    PROVE  GabungInv' /\ (Siklus!Next \/ UNCHANGED StatusOrder)
<1>0. /\ TertibInv /\ SatuKiriman /\ KirimanKurir /\ TypeInv
      /\ transaksi \in [Transaksi -> BarisTransaksi] /\ Diserahkan \subseteq Transaksi
  BY DiserahkanType DEF GabungInv, TertibInv, TypeInv, TypeOK
<1>1. /\ AT!Next /\ UNCHANGED Diserahkan
      /\ \A t \in Transaksi \ Diserahkan : StatusOrder'[t] = StatusOrder[t]
      /\ UNCHANGED <<ambang, pengiriman, latar, terbitKirim, proses>>
  BY <1>0, LangkahAntar DEF LangkahKurir
<1>2. AT!TypeInv'
  BY <1>0, <1>1, KurirAsumsi, AT!TypeLangkah DEF KirimanKurir
<1>3. AT!TertibInv' /\ [AT!Siklus!Next]_StatusTampak
  BY <1>0, <1>1, <1>2, KurirAsumsi, AT!TertibLangkah DEF KirimanKurir
<1>4. KirimanKurir'
  <2>1. \A t \in Transaksi : jadwal'[t] # AT!TanpaJadwal => t \in Diserahkan
    BY DEF LangkahKurir, AT!TanpaJadwal, Antar!TanpaJadwal
  <2> QED BY <1>1, <1>2, <1>3, <2>1 DEF KirimanKurir
\* What becomes of the orders.
<1>5. /\ transaksi' \in [Transaksi -> BarisTransaksi]
      /\ \A t \in Transaksi : transaksi'[t].status \in StatusTransaksi
  <2>1. CASE UNCHANGED transaksi
    BY <1>0, <2>1 DEF BarisTransaksi
  <2>2. ASSUME NEW o \in Transaksi, NEW s \in StatusTransaksi \ {transaksi[o].status},
               transaksi' = [transaksi EXCEPT ![o].status = s]
        PROVE  transaksi' \in [Transaksi -> BarisTransaksi]
    <3>1. transaksi[o] \in BarisTransaksi
      BY <1>0
    <3>2. [transaksi[o] EXCEPT !.status = s] \in BarisTransaksi
      BY <3>1 DEF BarisTransaksi
    <3> QED BY <1>0, <2>2, <3>2
  <2>3. transaksi' \in [Transaksi -> BarisTransaksi]
    BY <2>1, <2>2 DEF LangkahKurir
  <2> QED BY <2>3 DEF BarisTransaksi
<1>6. /\ \A t \in Transaksi \ Diserahkan : transaksi'[t].status = transaksi[t].status
      /\ \A t \in Diserahkan : /\ transaksi[t].status \in {"Waiting", "Dikirim", "Selesai"}
                               /\ transaksi'[t].status \in {"Waiting", "Dikirim", "Selesai"}
  <2>1. ASSUME NEW t \in Transaksi \ Diserahkan PROVE transaksi'[t].status = transaksi[t].status
    BY <1>1 DEF StatusOrder
  <2>2. ASSUME NEW t \in Diserahkan PROVE transaksi'[t].status \in {"Waiting", "Dikirim", "Selesai"}
    <3>1. StatusTampak' \in [Transaksi -> {"Waiting", "Dikirim", "Selesai"}]
      BY <1>2 DEF AT!TypeInv, AT!TypeOK, AT!StatusTransaksi
    <3>2. StatusTampak'[t] = transaksi'[t].status
      BY <1>0, <1>1 DEF StatusTampak, StatusOrder
    <3> QED BY <1>0, <3>1, <3>2
  <2> QED BY <1>0, <2>1, <2>2 DEF SatuKiriman
<1>7. TertibInv'
  <2>1. TypeInv'
    BY <1>0, <1>1, <1>5 DEF TypeInv, TypeOK, AdaOrder
  <2>2. TahapStatus'
    <3> SUFFICES ASSUME NEW p \in Proses, proses[p].tahap # "bebas"
                 PROVE  transaksi'[proses[p].transaksi].status = StatusDari(proses[p].tahap)
      BY <1>1 DEF TahapStatus
    <3> DEFINE o == proses[p].transaksi
    <3>1. o \in Transaksi /\ transaksi[o].status = StatusDari(proses[p].tahap)
      BY <1>0 DEF TypeInv, AdaOrder, TertibInv, TahapStatus
    <3>2. o \notin Diserahkan
      BY <1>0, <3>1 DEF SatuKiriman, StatusDari
    <3> QED BY <1>6, <3>1, <3>2
  <2> QED BY <1>0, <1>1, <2>1, <2>2 DEF TertibInv, Eksklusif
<1>8. AmbangMilik'
  BY <1>1 DEF GabungInv, AmbangMilik
<1>9. DiprosesInv'
  <2>1. \A s : OrderDiproses(s)' = OrderDiproses(s)
    BY <1>6 DEF OrderDiproses
  <2>2. \A s \in Seller : DiprosesSeller(s)' = DiprosesSeller(s)
    BY <1>1 DEF DiprosesSeller
  <2> QED BY <2>1, <2>2 DEF GabungInv, DiprosesInv
<1>10. SatuKiriman'
  BY <1>0, <1>1, <1>6 DEF SatuKiriman
<1>11. Siklus!Next \/ UNCHANGED StatusOrder
  <2>1. CASE UNCHANGED StatusTampak
    <3>1. \A t \in Transaksi : transaksi'[t].status = transaksi[t].status
      BY <1>1, <1>6, <2>1, TampakNilai DEF StatusTampak, StatusOrder
    <3> QED BY <3>1 DEF StatusOrder
  <2>2. ASSUME NEW o \in Transaksi, NEW dari, NEW ke, dari # ke, AT!Siklus!Pindah(o, dari, ke)
        PROVE  Siklus!Pindah(o, dari, ke)
    <3>1. StatusTampak[o] = dari /\ StatusTampak' = [StatusTampak EXCEPT ![o] = ke]
      BY <2>2 DEF AT!Siklus!Pindah
    <3>2. o \in Diserahkan
      BY <1>1, <2>2, <3>1 DEF StatusTampak
    <3>3. \A t \in Transaksi : StatusOrder'[t] = IF t = o THEN ke ELSE StatusOrder[t]
      BY <1>1, <3>1, <3>2 DEF StatusTampak
    <3>4. StatusOrder[o] = dari
      BY <3>1, <3>2 DEF StatusTampak
    <3>5. StatusOrder' = [StatusOrder EXCEPT ![o] = ke]
      BY <3>3 DEF StatusOrder
    <3> QED BY <3>4, <3>5 DEF Siklus!Pindah, StatusOrder
  <2>3. CASE AT!Siklus!Next
    <3>1. PICK o \in Transaksi : \/ AT!Siklus!Disetujui(o) \/ AT!Siklus!Dibatalkan(o)
                                \/ AT!Siklus!Menunggu(o) \/ AT!Siklus!Dikirim(o) \/ AT!Siklus!Selesai(o)
      BY <2>3 DEF AT!Siklus!Next
    <3>2. Siklus!Disetujui(o) \/ Siklus!Dibatalkan(o) \/ Siklus!Menunggu(o)
             \/ Siklus!Dikirim(o) \/ Siklus!Selesai(o)
      BY <2>2, <3>1 DEF AT!Siklus!Disetujui, AT!Siklus!Dibatalkan, AT!Siklus!Menunggu,
          AT!Siklus!Dikirim, AT!Siklus!Selesai, Siklus!Disetujui, Siklus!Dibatalkan,
          Siklus!Menunggu, Siklus!Dikirim, Siklus!Selesai
    <3> QED BY <3>2 DEF Siklus!Next
  <2> QED BY <1>3, <2>1, <2>3
<1> QED BY <1>4, <1>7, <1>8, <1>9, <1>10, <1>11 DEF GabungInv

-----------------------------------------------------------------------------
(* The instance that TLC checks: its scenarios of orderly sellers and couriers. *)
(* The other one takes no step of theirs.                                     *)

GabungSkenario == skenario # "selang" => GabungInv

LEMMA SkenarioAwal == InitTiga => GabungSkenario
<1> SUFFICES ASSUME InitTiga PROVE GabungInv
  BY DEF GabungSkenario
<1>1. Init /\ InitKurir
  BY DEF InitTiga
<1>2. TertibInv
  <2>1. \A p \in Proses : proses[p].tahap = "bebas"
    BY <1>1 DEF Init, ProsesBebas
  <2> QED BY <1>1, <2>1, TypeInvInit DEF TertibInv, Eksklusif, TahapStatus
<1>3. AmbangMilik /\ DiprosesInv
  <2>1. \A p \in Proses : proses[p].tahap = "bebas"
    BY <1>1 DEF Init, ProsesBebas
  <2> QED BY <1>1, <2>1, DiprosesAwal DEF AmbangMilik
<1>4. Diserahkan = {} /\ \A t \in Transaksi : transaksi[t].status = "Dibayar"
  BY <1>1 DEF Init, Diserahkan
<1>5. SatuKiriman
  BY <1>1, <1>4 DEF SatuKiriman, Init
<1>6. AT!Init
  BY <1>1, <1>4 DEF InitKurir, AT!Init, StatusTampak, Antar!TanpaJadwal, AT!TanpaJadwal,
         Antar!Penerima, AT!Penerima, Antar!ProsesBebas, AT!ProsesBebas
<1>7. KirimanKurir
  <2>1. AT!TypeInv /\ AT!TertibInv
    BY <1>6, KurirAsumsi, AT!TypeInit, AT!TertibInit
  <2>2. \A t \in Transaksi : jadwal[t] = AT!TanpaJadwal
    BY <1>6 DEF AT!Init
  <2> QED BY <2>1, <2>2 DEF KirimanKurir
<1> QED BY <1>2, <1>3, <1>5, <1>7 DEF GabungInv

LEMMA GabungDiam == ASSUME SellerTertib, GabungInv, UNCHANGED varsPesanan PROVE GabungInv'
<1>1. UNCHANGED vars /\ UNCHANGED varsKurir
  BY DEF varsPesanan
<1>2. TertibInv' /\ AmbangMilik' /\ DiprosesInv'
  BY <1>1, TertibStep, AmbangMilikLangkah, DiprosesStep DEF GabungInv, TertibInv
<1>3. SatuKiriman' /\ UNCHANGED StatusTampak /\ UNCHANGED Diserahkan
  BY <1>1 DEF GabungInv, SatuKiriman, StatusTampak, StatusOrder, Diserahkan, vars
<1>4. UNCHANGED AT!vars
  BY <1>1, <1>3 DEF varsKurir, AT!vars
<1>5. AT!TypeInv'
  BY <1>4, KurirAsumsi, AT!TypeLangkah DEF GabungInv, KirimanKurir
<1>6. AT!TertibInv'
  BY <1>4, <1>5, KurirAsumsi, AT!TertibLangkah DEF GabungInv, KirimanKurir
<1>7. KirimanKurir'
  BY <1>1, <1>3, <1>5, <1>6 DEF GabungInv, KirimanKurir, varsKurir
<1> QED BY <1>2, <1>3, <1>7 DEF GabungInv

LEMMA SkenarioLangkah ==
    ASSUME SellerTertib, GabungSkenario, [NextTiga]_varsTiga
    PROVE  /\ GabungSkenario'
           /\ skenario # "selang" => [Siklus!Next]_StatusOrder
<1>1. CASE UNCHANGED varsTiga
  <2>1. UNCHANGED varsPesanan /\ UNCHANGED skenario
    BY <1>1 DEF varsTiga
  <2>2. UNCHANGED StatusOrder
    BY <2>1 DEF varsPesanan, vars, StatusOrder
  <2> QED BY <2>1, <2>2, GabungDiam DEF GabungSkenario
<1>2. CASE NextTiga /\ skenario = "selang"
  BY <1>2 DEF NextTiga, GabungSkenario
<1>3. CASE NextTiga /\ skenario # "selang"
  <2>1. (Next /\ UNCHANGED varsKurir) \/ LangkahKurir
    BY <1>3 DEF NextTiga, NextPesanan
  <2>2. GabungInv
    BY <1>3 DEF GabungSkenario
  <2>3. GabungInv' /\ (Siklus!Next \/ UNCHANGED StatusOrder)
    BY <2>1, <2>2, GabungSeller, GabungKurir
  <2> QED BY <2>3 DEF GabungSkenario
<1> QED BY <1>1, <1>2, <1>3

LEMMA SkenarioBenar == SellerTertib => (SpecTiga => []GabungSkenario)
<1> SUFFICES ASSUME SellerTertib PROVE SpecTiga => []GabungSkenario
  OBVIOUS
<1>1. GabungSkenario /\ [NextTiga]_varsTiga => GabungSkenario'
  BY SkenarioLangkah
<1> QED BY <1>1, SkenarioAwal, PTL DEF SpecTiga

\* In the run the rows of an orderly seller count the orders that wait to be handed over,
\* a courier at work or not.
THEOREM AmbangTertibBenar == SellerTertib => (SpecTiga => []AmbangTertib)
<1>1. GabungSkenario => AmbangTertib
  BY DiprosesSesuaiParts DEF GabungSkenario, GabungInv, AmbangTertib
<1> QED BY <1>1, SkenarioBenar, PTL

LEMMA CeritaDariInv == GabungInv => SatuKiriman /\ CeritaKiriman
<1> SUFFICES ASSUME GabungInv, NEW t \in Transaksi
             PROVE  IF t \in Diserahkan
                    THEN <<jadwal[t].status, kiriman[t], transaksi[t].status, jejak[t], tercatat[t]>>
                            \in Antar!Cerita(t)
                    ELSE jadwal[t] = Antar!TanpaJadwal /\ kiriman[t] = "Waiting" /\ tercatat[t] = 0
  BY DEF GabungInv, CeritaKiriman
<1>1. <<jadwal[t].status, kiriman[t], StatusTampak[t], jejak[t], tercatat[t]>> \in AT!Cerita(t)
  BY DEF GabungInv, KirimanKurir, AT!TertibInv, AT!JadwalSesuai
<1>2. StatusTampak[t] = IF t \in Diserahkan THEN transaksi[t].status ELSE "Waiting"
  BY TampakNilai
<1>3. CASE t \in Diserahkan
  BY <1>1, <1>2, <1>3 DEF AT!Cerita, Antar!Cerita
<1>4. CASE t \notin Diserahkan
  <2>1. jadwal[t] = AT!TanpaJadwal /\ jadwal[t].status = "tanpa"
    BY <1>4 DEF GabungInv, KirimanKurir, AT!TanpaJadwal
  <2>2. kiriman[t] = "Waiting" /\ tercatat[t] = 0
    BY <1>1, <1>2, <1>4, <2>1 DEF AT!Cerita
  <2> QED BY <1>4, <2>1, <2>2 DEF AT!TanpaJadwal, Antar!TanpaJadwal
<1> QED BY <1>3, <1>4

\* In the run an order has one delivery exactly from its hand over on, and seller, courier
\* and payouts tell one story about it.
THEOREM KirimanTertibBenar == SellerTertib => (SpecTiga => []KirimanTertib)
<1>1. GabungSkenario => KirimanTertib
  BY CeritaDariInv DEF GabungSkenario, KirimanTertib
<1> QED BY <1>1, SkenarioBenar, PTL

\* In the run an order moves from its payment to its arrival as the status enum promises,
\* whoever of seller and courier moves it.
THEOREM SiklusTertibBenar == SellerTertib => (SpecTiga => SiklusTertib)
<1> SUFFICES ASSUME SellerTertib PROVE SpecTiga => SiklusTertib
  OBVIOUS
<1>1. GabungSkenario /\ [NextTiga]_varsTiga
         => [skenario # "selang" => [Siklus!Next]_StatusOrder]_varsTiga
  BY SkenarioLangkah
<1> QED BY <1>1, SkenarioBenar, PTL DEF SpecTiga, SiklusTertib
=============================================================================
