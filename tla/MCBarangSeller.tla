--------------------------- MODULE MCBarangSeller ---------------------------
(* Small instances of BarangSeller for TLC.  One run explores three of      *)
(* them, and the variable skenario, which never changes, says which.        *)
EXTENDS BarangSeller, TLC

Simetri == Permutations(Proses) \cup Permutations(Pembeli)

VARIABLE skenario
varsTiga == <<vars, skenario>>

\* "tertib": an orderly seller, two products, stocks that are never set to 0, no checkouts.
\* "pembeli": an orderly seller of one product, who may set a stock to 0, beside slow
\* checkouts.
\* "selang": requests overlap, and goroutines of one overtake another.
Selang == INSTANCE BarangSeller WITH Pembeli <- {}, StokMasukan <- {}, StokAwal <- {1},
              MaxBarang <- 1, MaxKategori <- 2, MaxVarian <- 2, MaxAmbang <- 1,
              SellerTertib <- FALSE

NextTertib == /\ Next
              /\ UNCHANGED pilihan
              /\ \A p \in Proses : proses'[p].tahap = "stok" => proses'[p].jumlah # 0

NextPembeli == /\ Next
               /\ Len(barang') <= 1 /\ Len(kategori') <= 2
               /\ \A k \in DOMAIN kategori' : kategori'[k].stok <= 1
               /\ \A p \in Proses : proses'[p].jumlah <= IF proses'[p].tahap = "stok" THEN 0 ELSE 1

InitTiga == Init /\ skenario \in {"tertib", "selang", "pembeli"}

NextTiga == /\ UNCHANGED skenario
            /\ \/ skenario = "tertib" /\ NextTertib
               \/ skenario = "selang" /\ Selang!Next
               \/ skenario = "pembeli" /\ NextPembeli

SpecTiga == InitTiga /\ [][NextTiga]_varsTiga

-----------------------------------------------------------------------------
(* What a seller may rely on who waits for each answer.                     *)

\* No unit outlives its category or its product, with slow checkouts beside the seller too.
TanpaYatimTertib == skenario # "selang" => TanpaYatim

\* The stock column never promises more units than there are.
StokTertib == skenario = "tertib" => StokTidakLebih

\* Once the goroutines are done, the counters of a category say how many of its units are
\* Down and on sale, and those of a product count its categories and units.
AmbangTertib == skenario = "tertib" => AmbangSesuaiUnit /\ AmbangBarangSesuai
=============================================================================
