--------------------------- MODULE SiklusTransaksi ---------------------------
(* The life of an order as the status enum promises it: what the seller, the *)
(* courier and the buyer may do to transaksi.status, and from which status.   *)
CONSTANT Transaksi

VARIABLE status

StatusTransaksi == {"Dibayar", "Diproses", "Waiting", "Dikirim", "Selesai", "Dibatalkan"}

Init == status = [t \in Transaksi |-> "Dibayar"]

Pindah(t, dari, ke) == status[t] = dari /\ status' = [status EXCEPT ![t] = ke]

Disetujui(t)  == Pindah(t, "Dibayar", "Diproses")
Dibatalkan(t) == Pindah(t, "Dibayar", "Dibatalkan")
Menunggu(t)   == Pindah(t, "Diproses", "Waiting")
Dikirim(t)    == Pindah(t, "Waiting", "Dikirim")
Selesai(t)    == Pindah(t, "Dikirim", "Selesai")

Next == \E t \in Transaksi : \/ Disetujui(t)
                            \/ Dibatalkan(t)
                            \/ Menunggu(t)
                            \/ Dikirim(t)
                            \/ Selesai(t)

Spec == Init /\ [][Next]_status
=============================================================================
