---------------------------- MODULE RelasiKurir -----------------------------
(***************************************************************************)
(* The courier's part of Relasi: one address, one bank account, the data of *)
(* one vehicle and of the courier (src/app/service/kurir_services).         *)
(***************************************************************************)
EXTENDS Relasi

MasukanAlamatKurir(p) ==
    \E o \in Kurir :
        /\ Milik("alamat_kurir", o) = {}
        /\ BuatBaca(p, Baris("alamat_kurir", o, 0, << >>), {<<"kurir_alamat", o, 1>>})

HapusAlamatKurir(p) ==
    \E i \in BarisAda("alamat_kurir") :
        HapusBaca(p, i, {<<"kurir_alamat", baris[i].dari, -1>>}, {}, "")

MasukanRekeningKurir(p) ==
    \E o \in Kurir :
        /\ Milik("rekening_kurir", o) = {}
        /\ BuatBaca(p, Baris("rekening_kurir", o, 0, << >>), {<<"kurir_rekening", o, 1>>})

\* Only the id of the row is read, so the goroutine looks for the counters of courier 0.
HapusRekeningKurir(p) ==
    \E i \in BarisAda("rekening_kurir") : HapusBaca(p, i, {<<"kurir_rekening", 0, -1>>}, {}, "")

AjukanInformasiKendaraan(p) ==
    \E o \in Kurir :
        /\ Milik("informasi_kendaraan_kurir", o) = {}
        /\ BuatBaca(p, Baris("informasi_kendaraan_kurir", o, 0, << >>), {<<"kurir_kendaraan", o, 1>>})

AjukanInformasiKurir(p) ==
    \E o \in Kurir :
        /\ Milik("informasi_kurir", o) = {}
        /\ BuatBaca(p, Baris("informasi_kurir", o, 0, << >>), {<<"kurir_informasi", o, 1>>})

PermintaanKurir(p) ==
    \/ MasukanAlamatKurir(p) \/ HapusAlamatKurir(p)
    \/ MasukanRekeningKurir(p) \/ HapusRekeningKurir(p)
    \/ AjukanInformasiKendaraan(p) \/ AjukanInformasiKurir(p)
=============================================================================
