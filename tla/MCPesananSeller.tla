--------------------------- MODULE MCPesananSeller ---------------------------
(* Small instances of PesananSeller and SiklusPesanan for TLC.  One run       *)
(* explores three of them, and the variable skenario, which never changes,   *)
(* says which.                                                               *)
EXTENDS SiklusPesanan, TLC

CONSTANTS t1, t2, t3, s1, s2, p1, p2, k1, q1

TigaOrder == (t1 :> s1) @@ (t2 :> s1) @@ (t3 :> s2)

VARIABLE skenario
varsTiga == <<varsPesanan, skenario>>

\* Requests are interchangeable, and the two orders without an expedition.
Simetri == Permutations(Proses) \cup Permutations({t1, t2})

\* "selang": one seller, two orders, requests that overlap.  "tertib": two sellers, three
\* orders, one request per order at a time.  "gabung": such sellers with one order each, of
\* which an expedition takes one over, and the courier who brings them.
Selang == INSTANCE PesananSeller WITH SellerTertib <- FALSE, MaxTerbit <- 0

Tersentuh == {t \in Transaksi : \/ transaksi[t].status # "Dibayar"
                                \/ \E p \in Proses : proses[p].transaksi = t}
Kecil == CASE skenario = "selang" -> t3 \notin Tersentuh
           [] skenario = "tertib" -> TRUE
           [] skenario = "gabung" -> /\ Cardinality(Tersentuh \ {t3}) <= 1
                                     /\ \A t \in Transaksi : terbitKirim[t] = 0

InitTiga == Init /\ InitKurir /\ skenario \in {"selang", "tertib", "gabung"}

NextTiga ==
    /\ UNCHANGED skenario
    /\ \/ skenario = "selang" /\ Selang!Next /\ UNCHANGED varsKurir
       \/ skenario = "tertib" /\ Next /\ UNCHANGED varsKurir
       \/ skenario = "gabung" /\ NextPesanan
    /\ Kecil'

SpecTiga == InitTiga /\ [][NextTiga]_varsTiga

-----------------------------------------------------------------------------
(* What a seller who answers each order one request at a time may rely on.  *)

\* The rows of a seller count the orders that wait to be handed over.
AmbangTertib == skenario # "selang" => DiprosesSesuaiStatus

\* An order has a delivery exactly from its hand over on, and one only; seller, courier and
\* payouts tell one story about it.
KirimanTertib == skenario # "selang" => SatuKiriman /\ CeritaKiriman

\* From its payment to its arrival an order moves as the status enum promises, whoever
\* moves it.
SiklusTertib == [][skenario # "selang" => [Siklus!Next]_StatusOrder]_varsTiga
=============================================================================
