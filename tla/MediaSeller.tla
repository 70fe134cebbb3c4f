---------------------------- MODULE MediaSeller ----------------------------
(***************************************************************************)
(* The media of sellers: src/app/service/seller_services/media_services.    *)
(* Each handler is one of the forms of Media; a definition here says which  *)
(* one, for which table.  The owner is the seller, the showcase, the        *)
(* product, the category, the distributor or brand data, or the order.      *)
(***************************************************************************)
EXTENDS Media

\* The tables whose handlers remove the old file themselves.
Distributor == {"distributor_dokumen", "distributor_npwp", "distributor_nib", "distributor_surat"}
Brand == {"brand_perwakilan", "brand_sertifikat", "brand_nib", "brand_npwp", "brand_logo", "brand_surat"}
Dokumen == Distributor \cup Brand
Foto == {"profil", "banner", "etalase", "video_barang", "foto_kategori"}
Transaksi == {"approved_foto", "approved_video"}
Daftar == {"toko_fisik", "foto_barang"}
JenisSeller == Dokumen \cup Foto \cup Transaksi \cup Daftar

-----------------------------------------------------------------------------
(* One file per owner; the old file is left in the bucket.                  *)

UbahFotoProfilSeller(p) == \E o \in Pemilik : GantiBaca(p, "profil", o)
HapusFotoProfilSeller(p) == \E i \in DOMAIN baris : HapusBaca(p, "profil", i)

UbahFotoBannerSeller(p) == \E o \in Pemilik : GantiBaca(p, "banner", o)
HapusFotoBannerSeller(p) == \E i \in DOMAIN baris : HapusBaca(p, "banner", i)

UbahFotoEtalaseSeller(p) == \E o \in Pemilik : GantiBaca(p, "etalase", o)
HapusFotoEtalaseSeller(p) == \E i \in DOMAIN baris : HapusBaca(p, "etalase", i)

UbahBarangIndukVideo(p) == \E o \in Pemilik : GantiBaca(p, "video_barang", o)
HapusBarangIndukVideo(p) == \E i \in DOMAIN baris : HapusBaca(p, "video_barang", i)

UbahKategoriBarangFoto(p) == \E o \in Pemilik : GantiBaca(p, "foto_kategori", o)
HapusKategoriBarangFoto(p) == \E i \in DOMAIN baris : HapusBaca(p, "foto_kategori", i)

-----------------------------------------------------------------------------
(* Several files per owner: the photos of the shop, however many there are  *)
(* (twenty per request), and those of a product, Batas in all.  A list      *)
(* names rows of one owner, some of which may be gone.                      *)

TambahkanFotoTokoFisikSeller(p) ==
    \E o \in Pemilik, n \in 1 .. 2 : TambahBaca(p, "toko_fisik", o, n)
HapusFotoTokoFisikSeller(p) ==
    \E o \in Pemilik, S \in SUBSET (DOMAIN baris) : HapusBuangDaftarBaca(p, "toko_fisik", o, S)

TambahkanMediaBarangIndukFoto(p) ==
    \E o \in Pemilik, n \in 1 .. Batas : TambahSampaiBaca(p, "foto_barang", o, n, Batas)
HapusMediaBarangIndukFoto(p) ==
    \E o \in Pemilik, S \in SUBSET (DOMAIN baris) : HapusDaftarBaca(p, "foto_barang", o, S)

-----------------------------------------------------------------------------
(* The documents of a distributor and of a brand: the old file is removed.  *)

TambahDistributorDataDokumen(p) == \E o \in Pemilik : GantiBuangBaca(p, "distributor_dokumen", o)
HapusMediaDistributorDataDokumen(p) == \E i \in DOMAIN baris : HapusBuangBaca(p, "distributor_dokumen", i)

TambahMediaDistributorDataNPWPFoto(p) == \E o \in Pemilik : GantiBuangBaca(p, "distributor_npwp", o)
HapusMediaDistributorDataNPWPFoto(p) == \E i \in DOMAIN baris : HapusBuangBaca(p, "distributor_npwp", i)

TambahDistributorDataNIBFoto(p) == \E o \in Pemilik : GantiBuangBaca(p, "distributor_nib", o)
HapusDistributorDataNIBFoto(p) == \E i \in DOMAIN baris : HapusBuangBaca(p, "distributor_nib", i)

TambahDistributorDataSuratKerjasamaDokumen(p) ==
    \E o \in Pemilik : GantiBuangBaca(p, "distributor_surat", o)
HapusDistributorDataSuratKerjasamaDataDokumen(p) ==
    \E i \in DOMAIN baris : HapusBuangBaca(p, "distributor_surat", i)

TambahBrandDataPerwakilanDokumen(p) == \E o \in Pemilik : GantiBuangBaca(p, "brand_perwakilan", o)
HapusMediaBrandDataPerwakilanDokumen(p) == \E i \in DOMAIN baris : HapusBuangBaca(p, "brand_perwakilan", i)

TambahMediaBrandDataSertifikatFoto(p) == \E o \in Pemilik : GantiBuangBaca(p, "brand_sertifikat", o)
HapusMediaBrandDataSertifikatFoto(p) == \E i \in DOMAIN baris : HapusBuangBaca(p, "brand_sertifikat", i)

TambahMediaBrandDataNIBFoto(p) == \E o \in Pemilik : GantiBuangBaca(p, "brand_nib", o)
HapusMediaBrandDataNIBFoto(p) == \E i \in DOMAIN baris : HapusBuangBaca(p, "brand_nib", i)

TambahMediaBrandNPWPFoto(p) == \E o \in Pemilik : GantiBuangBaca(p, "brand_npwp", o)
HapusMediaBrandNPWPFoto(p) == \E i \in DOMAIN baris : HapusBuangBaca(p, "brand_npwp", i)

TambahMediaBrandDataLogoFoto(p) == \E o \in Pemilik : GantiBuangBaca(p, "brand_logo", o)
HapusMediaBrandDataLogo(p) == \E i \in DOMAIN baris : HapusBuangBaca(p, "brand_logo", i)

TambahBrandDataSuratKerjasamaDokumen(p) == \E o \in Pemilik : GantiBuangBaca(p, "brand_surat", o)
HapusBrandDataSuratKerjasamaDokumen(p) == \E i \in DOMAIN baris : HapusBuangBaca(p, "brand_surat", i)

-----------------------------------------------------------------------------
(* The proof of an approved order, added once.                              *)

TambahMediaTransaksiApprovedFoto(p) == \E o \in Pemilik : SekaliBaca(p, "approved_foto", o, 1)
TambahTransaksiApprovedVideo(p) == \E o \in Pemilik : SekaliBaca(p, "approved_video", o, 1)

-----------------------------------------------------------------------------
PermintaanSeller(p) ==
    \/ UbahFotoProfilSeller(p) \/ HapusFotoProfilSeller(p)
    \/ UbahFotoBannerSeller(p) \/ HapusFotoBannerSeller(p)
    \/ UbahFotoEtalaseSeller(p) \/ HapusFotoEtalaseSeller(p)
    \/ UbahBarangIndukVideo(p) \/ HapusBarangIndukVideo(p)
    \/ UbahKategoriBarangFoto(p) \/ HapusKategoriBarangFoto(p)
    \/ TambahkanFotoTokoFisikSeller(p) \/ HapusFotoTokoFisikSeller(p)
    \/ TambahkanMediaBarangIndukFoto(p) \/ HapusMediaBarangIndukFoto(p)
    \/ TambahDistributorDataDokumen(p) \/ HapusMediaDistributorDataDokumen(p)
    \/ TambahMediaDistributorDataNPWPFoto(p) \/ HapusMediaDistributorDataNPWPFoto(p)
    \/ TambahDistributorDataNIBFoto(p) \/ HapusDistributorDataNIBFoto(p)
    \/ TambahDistributorDataSuratKerjasamaDokumen(p) \/ HapusDistributorDataSuratKerjasamaDataDokumen(p)
    \/ TambahBrandDataPerwakilanDokumen(p) \/ HapusMediaBrandDataPerwakilanDokumen(p)
    \/ TambahMediaBrandDataSertifikatFoto(p) \/ HapusMediaBrandDataSertifikatFoto(p)
    \/ TambahMediaBrandDataNIBFoto(p) \/ HapusMediaBrandDataNIBFoto(p)
    \/ TambahMediaBrandNPWPFoto(p) \/ HapusMediaBrandNPWPFoto(p)
    \/ TambahMediaBrandDataLogoFoto(p) \/ HapusMediaBrandDataLogo(p)
    \/ TambahBrandDataSuratKerjasamaDokumen(p) \/ HapusBrandDataSuratKerjasamaDokumen(p)
    \/ TambahMediaTransaksiApprovedFoto(p) \/ TambahTransaksiApprovedVideo(p)
=============================================================================
