----------------------------- MODULE MCReservasi -----------------------------
(* Small instances of Reservasi for TLC.  One run explores two of them, and *)
(* the variable skenario, which never changes, says which.                  *)
EXTENDS Reservasi, TLC

CONSTANTS u1, u2, k1, k2, v1, v2, v3, c1, c2, p1, p2

SatuKategori == [v \in {v1, v2} |-> k1]
TigaVarian   == (v1 :> k1) @@ (v2 :> k1) @@ (v3 :> k2)

SatuKeranjang == {<<u1, k1>>}

\* Requests, buyers and codes are interchangeable.
Simetri == Permutations(Proses) \cup Permutations(Pengguna) \cup Permutations(Kode)

VARIABLE skenario
varsDua == <<vars, skenario>>

\* "selang": two requests run at once, and any answer may be used again; checkouts of one
\* unit of the first category.  "tertib": an orderly client and one request at a time;
\* checkouts of two lines and two units, and all payment methods.
Selang == INSTANCE Reservasi WITH KlienTertib <- FALSE, MaxItem <- 1, MaxJumlah <- 1,
                                  MaxStok <- 2, Metode <- {"va"}

InitDua == Init /\ skenario \in {"selang", "tertib"}

NextSelang == Selang!Next /\ \A p \in Proses : KategoriItem(proses'[p].item) \subseteq {k1}
NextTertib ==
    \E p \in Proses : /\ \A q \in Proses \ {p} : proses[q].tahap = "bebas"
                      /\ \/ LangkahCheckout(p) \/ LangkahBatal(p) \/ LangkahSnap(p)
                         \/ LangkahBayar(p) \/ Putus(p)

NextDua == /\ UNCHANGED skenario
           /\ \/ skenario = "selang" /\ NextSelang
              \/ skenario = "tertib" /\ NextTertib

SpecDua == InitDua /\ [][NextDua]_varsDua

\* One instance alone, as its .cfg sizes it.
SpecSatu == /\ Init /\ skenario = "satu"
            /\ [][Next /\ UNCHANGED skenario]_varsDua

-----------------------------------------------------------------------------
(* What an orderly client may rely on.                                      *)

\* The counter of a category never hides a unit for sale, and says how many there are as
\* long as no bill has several lines (StokSesuai).
StokTertib == skenario = "tertib" => StokSesuai

\* A paid transaksi has exactly the units it was paid for (UnitTerpenuhi).
UnitTertib == skenario = "tertib" => UnitTerpenuhi

\* A sold unit stays sold to the same transaksi: no later checkout takes it over.
TerjualTetapTertib ==
    [][skenario = "tertib" =>
          \A v \in Varian : varian[v].status = "Terjual" => varian'[v] = varian[v]]_varsDua
=============================================================================
