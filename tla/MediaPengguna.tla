--------------------------- MODULE MediaPengguna ---------------------------
(***************************************************************************)
(* The media of buyers: src/app/service/pengguna_service/media_services.    *)
(* The owner is the buyer or one of its reviews.                            *)
(***************************************************************************)
EXTENDS Media

JenisPengguna == {"profil_pengguna", "review_foto", "review_video"}

-----------------------------------------------------------------------------
(* The handlers.  The photos of a review come in one request, Batas of them *)
(* (five in the code) at the most.                                          *)

UbahFotoProfilPengguna(p) == \E o \in Pemilik : GantiBaca(p, "profil_pengguna", o)
HapusFotoProfilPengguna(p) == \E i \in DOMAIN baris : HapusBaca(p, "profil_pengguna", i)

TambahMediaReviewFoto(p) == \E o \in Pemilik, n \in 1 .. Batas : SekaliBaca(p, "review_foto", o, n)
TambahMediaReviewVideo(p) == \E o \in Pemilik : SekaliBaca(p, "review_video", o, 1)

-----------------------------------------------------------------------------
PermintaanPengguna(p) ==
    \/ UbahFotoProfilPengguna(p) \/ HapusFotoProfilPengguna(p)
    \/ TambahMediaReviewFoto(p) \/ TambahMediaReviewVideo(p)
=============================================================================
