----------------------------- MODULE MediaKurir -----------------------------
(***************************************************************************)
(* The media of couriers: src/app/service/kurir_services/media_services.    *)
(* The owner is the courier, its vehicle, its identity papers or a delivery.*)
(* A document that is replaced leaves its old file in the bucket; a document*)
(* that is deleted takes its file with it.                                  *)
(***************************************************************************)
EXTENDS Media

DokumenKurir == {"kendaraan", "bpkb", "stnk", "ktp"}
Bukti == {"picked_up", "sampai", "ekspedisi_picked_up", "ekspedisi_sampai_agent"}
JenisKurir == {"profil_kurir"} \cup DokumenKurir \cup Bukti

-----------------------------------------------------------------------------
(* The handlers.                                                            *)

UbahKurirProfilFoto(p) == \E o \in Pemilik : GantiBaca(p, "profil_kurir", o)
HapusKurirProfilFoto(p) == \E i \in DOMAIN baris : HapusBaca(p, "profil_kurir", i)

TambahMediaInformasiKendaraanKurirKendaraanFoto(p) == \E o \in Pemilik : GantiBaca(p, "kendaraan", o)
HapusMediaInformasiKendaraanKurirKendaraanFoto(p) ==
    \E i \in DOMAIN baris : HapusBuangBaca(p, "kendaraan", i)

TambahInformasiKendaraanKurirBPKBFoto(p) == \E o \in Pemilik : GantiBaca(p, "bpkb", o)
HapusInformasiKendaraanKurirBPKBFoto(p) == \E i \in DOMAIN baris : HapusBuangBaca(p, "bpkb", i)

TambahInformasiKendaraanKurirSTNKFoto(p) == \E o \in Pemilik : GantiBaca(p, "stnk", o)
HapusInformasiKendaraanKurirSTNKFoto(p) == \E i \in DOMAIN baris : HapusBuangBaca(p, "stnk", i)

TambahMediaInformasiKurirKTPFoto(p) == \E o \in Pemilik : GantiBaca(p, "ktp", o)
HapusMediaInformasiKurirKTPFoto(p) == \E i \in DOMAIN baris : HapusBuangBaca(p, "ktp", i)

\* The proofs of a delivery are added once, and never deleted.
TambahMediaPengirimanPickedUpFoto(p) == \E o \in Pemilik : SekaliBaca(p, "picked_up", o, 1)
TambahMediaPengirimanSampaiFoto(p) == \E o \in Pemilik : SekaliBaca(p, "sampai", o, 1)
TambahMediaPengirimanEkspedisiPickedUpFoto(p) ==
    \E o \in Pemilik : SekaliBaca(p, "ekspedisi_picked_up", o, 1)
TambahMediaPengirimanEkspedisiSampaiAgentFoto(p) ==
    \E o \in Pemilik : SekaliBaca(p, "ekspedisi_sampai_agent", o, 1)

-----------------------------------------------------------------------------
PermintaanKurir(p) ==
    \/ UbahKurirProfilFoto(p) \/ HapusKurirProfilFoto(p)
    \/ TambahMediaInformasiKendaraanKurirKendaraanFoto(p) \/ HapusMediaInformasiKendaraanKurirKendaraanFoto(p)
    \/ TambahInformasiKendaraanKurirBPKBFoto(p) \/ HapusInformasiKendaraanKurirBPKBFoto(p)
    \/ TambahInformasiKendaraanKurirSTNKFoto(p) \/ HapusInformasiKendaraanKurirSTNKFoto(p)
    \/ TambahMediaInformasiKurirKTPFoto(p) \/ HapusMediaInformasiKurirKTPFoto(p)
    \/ TambahMediaPengirimanPickedUpFoto(p) \/ TambahMediaPengirimanSampaiFoto(p)
    \/ TambahMediaPengirimanEkspedisiPickedUpFoto(p) \/ TambahMediaPengirimanEkspedisiSampaiAgentFoto(p)
=============================================================================
