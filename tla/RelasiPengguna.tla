--------------------------- MODULE RelasiPengguna ---------------------------
(***************************************************************************)
(* The buyer's part of Relasi: likes, comments, cart, reviews and followed  *)
(* sellers (src/app/service/pengguna_service/barang_services and            *)
(* social_media_services), addresses (alamat_services).                     *)
(***************************************************************************)
EXTENDS Relasi

-----------------------------------------------------------------------------
(* Likes.  The counter of the buyer is looked up by a field that was left   *)
(* empty (id 0), and the one lowered on the product is another.  Of the     *)
(* product only a foreign key is asked, here as for comments and the cart.  *)

LikesBarang(p) ==
    \E o \in Pengguna, b \in Pernah("barang_induk") :
        /\ Merujuk("barang_disukai", o, <<b>>) = {}
        /\ BuatBaca(p, Baris("barang_disukai", o, 0, <<b>>),
                    {<<"pengguna_disukai", 0, 1>>, <<"barang_disukai", b, 1>>})

UnlikeBarang(p) ==
    \E i \in BarisAda("barang_disukai") :
        HapusBaca(p, i, {<<"pengguna_disukai", baris[i].dari, -1>>,
                         <<"barang_di_diskon", baris[i].rujuk[1], -1>>}, {}, "")

-----------------------------------------------------------------------------
(* Comments.  An answer goes to any number, that of a deleted comment too.  *)

MasukanKomentarBarang(p) ==
    \E o \in Pengguna, b \in Pernah("barang_induk") :
        BuatBaca(p, Baris("komentar", o, 0, <<b>>), {<<"barang_komentar", b, 1>>})

HapusKomentarBarang(p) ==
    \E i \in BarisAda("komentar") :
        /\ baris[i].dari \in Pengguna
        /\ HapusBaca(p, i, {<<"barang_komentar", 0, -1>>}, {}, "")

Jawab(p, o, k) == BuatBaca(p, Baris("komentar_child", o, 0, <<k>>), {<<"komentar_child", k, 1>>})

MasukanChildKomentar(p) ==
    \E o \in Pengguna, k \in Pernah("komentar") : Jawab(p, o, k)

MentionChildKomentar(p) ==
    \E o \in Pengguna, k \in Pernah("komentar") : Jawab(p, o, k)

HapusChildKomentar(p) ==
    \E i \in BarisAda("komentar_child") :
        /\ baris[i].dari \in Pengguna
        /\ HapusBaca(p, i, {<<"komentar_child", 0, -1>>}, {}, "")

-----------------------------------------------------------------------------
(* The cart.  Its limit is checked on the counter of the threshold row that *)
(* has the buyer's id as its own: any buyer's, or none.                     *)

HitungKeranjang(o, b, k, n) ==
    {<<"pengguna_keranjang", o, n>>, <<"barang_keranjang", b, n>>, <<"kategori_keranjang", k, n>>}

TambahKeranjangBarang(p) ==
    \E o \in Pengguna, k \in Pernah("kategori_barang"), x \in Pengguna \cup {0} :
        LET b == baris[k].rujuk[1]
        IN  /\ Isi(<<"pengguna_keranjang", x>>) < Batas
            /\ Merujuk("keranjang", o, <<b, k>>) = {}
            /\ BuatBaca(p, Baris("keranjang", o, 0, <<b, k>>), HitungKeranjang(o, b, k, 1))

\* (Mutant) the buyer's counter is looked up by a field that was left empty.
HapusKeranjangTanpaPengguna(p) ==
    \E i \in BarisAda("keranjang") :
        HapusBaca(p, i, HitungKeranjang(0, baris[i].rujuk[1], baris[i].rujuk[2], -1), {}, "")

HapusKeranjangBarang(p) ==
    \E i \in BarisAda("keranjang") :
        HapusBaca(p, i, HitungKeranjang(baris[i].dari, baris[i].rujuk[1], baris[i].rujuk[2], -1), {}, "")

-----------------------------------------------------------------------------
(* Reviews, by a buyer with a finished order.  That the order was reviewed  *)
(* already is not seen: a false field is left out of the search.  A like    *)
(* raises the likes of review 0, which is none; taking it back raises the   *)
(* dislikes of the review that has the id of the like, another one or none. *)

BerikanReviewBarang(p) ==
    \E o \in Pengguna, b \in Pernah("barang_induk") :
        BuatBaca(p, Baris("review", o, 0, <<b>>), {<<"pengguna_review", o, 1>>, <<"barang_review", b, 1>>})

LikeReviewBarang(p) ==
    \E o \in Pengguna, r \in Pernah("review") :
        /\ Merujuk("review_like", o, <<r>>) = {}
        /\ BuatBaca(p, Baris("review_like", o, 0, <<r>>), {<<"review_like", 0, 1>>})

UnlikeReviewBarang(p) ==
    \E i \in BarisAda("review_like"), r \in {0} \cup Pernah("review") :
        HapusBaca(p, i, {<<"review_dislike", r, 1>>}, {}, "")

-----------------------------------------------------------------------------
(* Followed sellers.                                                        *)

FollowSeller(p) ==
    \E o \in Pengguna, s \in Seller :
        /\ Cocok("follower", o, s) = {}
        /\ BuatBaca(p, Baris("follower", o, s, << >>),
                    {<<"pengguna_following", o, 1>>, <<"seller_follower", s, 1>>})

UnfollowSeller(p) ==
    \E i \in BarisAda("follower") :
        HapusBaca(p, i, {<<"pengguna_following", baris[i].dari, -1>>,
                         <<"seller_follower", baris[i].ke, -1>>}, {}, "")

-----------------------------------------------------------------------------
(* Addresses.  One that an order uses stays as it is until the order has    *)
(* arrived.  The threshold row is deleted by no condition at all, which is  *)
(* refused.                                                                 *)

AlamatBebas(i) == \A j \in BarisAda("pesanan") : baris[j].rujuk[3] # i \/ baris[j].tanda

MasukanAlamatPengguna(p) ==
    \E o \in Pengguna, n \in Nama :
        /\ Cardinality(Milik("alamat_pengguna", o)) < Batas
        /\ Cocok("alamat_pengguna", o, n) = {}
        /\ BuatBaca(p, Baris("alamat_pengguna", o, n, << >>), {<<"pengguna_alamat", o, 1>>})

EditAlamatPengguna(p) ==
    \E i \in BarisAda("alamat_pengguna"), n \in Nama : AlamatBebas(i) /\ GantiBaca(p, i, n)

HapusAlamatPengguna(p) ==
    \E i \in BarisAda("alamat_pengguna") :
        /\ AlamatBebas(i)
        /\ HapusBaca(p, i, {<<"pengguna_alamat", baris[i].dari, -1>>}, {}, "")

-----------------------------------------------------------------------------
PermintaanPengguna(p) ==
    \/ LikesBarang(p) \/ UnlikeBarang(p)
    \/ MasukanKomentarBarang(p) \/ HapusKomentarBarang(p)
    \/ MasukanChildKomentar(p) \/ MentionChildKomentar(p) \/ HapusChildKomentar(p)
    \/ TambahKeranjangBarang(p) \/ HapusKeranjangBarang(p)
    \/ BerikanReviewBarang(p) \/ LikeReviewBarang(p) \/ UnlikeReviewBarang(p)
    \/ FollowSeller(p) \/ UnfollowSeller(p)
    \/ MasukanAlamatPengguna(p) \/ EditAlamatPengguna(p) \/ HapusAlamatPengguna(p)
=============================================================================
