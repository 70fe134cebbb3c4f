---------------------------- MODULE MediaLayanan ----------------------------
(***************************************************************************)
(* The media services of sellers, couriers and buyers together: their       *)
(* requests, the goroutines they leave behind, and the client who uploads.  *)
(***************************************************************************)
EXTENDS MediaSeller, MediaKurir, MediaPengguna

SemuaJenis == JenisSeller \cup JenisKurir \cup JenisPengguna

JenisAssumption == Jenis \subseteq SemuaJenis
ASSUME JenisAssumption

-----------------------------------------------------------------------------
(* The goroutines.  The one of UbahFotoEtalaseSeller looks for the row of   *)
(* the showcase whose number is that of the media row.  The one of          *)
(* HapusFotoProfilSeller announces the deleted row as updated.              *)

Ubah(i) ==
    LET diubah == latar[i].baris
    IN  \/ /\ \A b \in diubah : baris[b].jenis # "etalase"
           /\ LatarUbah(i, {b \in diubah : baris[b].ada})
        \/ /\ \A b \in diubah : baris[b].jenis = "etalase"
           /\ LET milik == UNION {BarisMilik("etalase", o) : o \in diubah}
              IN  \/ milik = {} /\ LatarUbah(i, {})
                  \/ \E b \in milik : LatarUbah(i, {b})

\* (Mutant) a deletion is not announced.
HapusTanpaKabar(i) == LatarHapus(i, {})

Hapus(i) == LatarHapus(i, {b \in latar[i].baris : baris[b].jenis # "profil"})

Next ==
    /\ UNCHANGED keadaan
    /\ \/ \E p \in Proses : \/ PermintaanSeller(p) \/ PermintaanKurir(p) \/ PermintaanPengguna(p)
                            \/ Langkah(p)
       \/ \E i \in DOMAIN latar : LatarBuat(i) \/ Ubah(i) \/ Hapus(i) \/ LatarGagal(i)
       \/ Klien

Spec == Init /\ [][Next]_vars

-----------------------------------------------------------------------------
(* Properties.                                                              *)

\* Rows, counters, upload addresses and what each request holds stay within the types of
\* the tables, and nothing names an id or a key that was never given out.
TypeOK == MediaTypeOK

\* Whatever requests run beside it, a row that was deleted never comes back: a request that
\* read it and gives it a new key finds no row.
TetapTerhapus == [][\A i \in DOMAIN baris : ~baris[i].ada => ~baris'[i].ada]_vars

\* What the events tell the read services about the rows is true once nothing runs.  Two
\* tables are left out: the event of UbahFotoEtalaseSeller is about the row of another
\* showcase, and that of HapusFotoProfilSeller says updated.
SalinanBenar == SalinanSesuai(SemuaJenis \ {"etalase", "profil"})

-----------------------------------------------------------------------------
(* What holds for an owner who waits for each answer (tertib), and what     *)
(* holds however requests overlap.                                          *)

\* While no step fails, the counters never say more than the rows and the goroutines to
\* come explain; and for an owner who waits they say, once nothing runs, how many rows
\* there are.
HitungBenar == ~gangguan => HitungTidakLebih /\ (tertib => HitungSesuai)

\* An owner who waits has one row per document, photo and proof, where steps fail as well.
SatuBerkas == PalingBanyak(Jenis \ (Daftar \cup {"review_foto"}), 1)

\* No product has more photos than the limit of TambahkanMediaBarangIndukFoto and no review
\* more than those of one request, however they are added, deleted and repeated.
BatasFoto == PalingBanyak({"foto_barang", "review_foto"}, Batas)

\* A file that a document or a photo of the shop no longer names has been removed from the
\* bucket, whatever was replaced, deleted or refused before.
TanpaYatimDokumen == TanpaYatim(Dokumen \cup {"toko_fisik"})

\* The rows and the files of an owner who waits.
BerkasTertib == tertib => /\ SatuBerkas /\ BatasFoto
                          /\ ~gangguan => TanpaYatimDokumen

\* The followers of the events know the rows of an owner who waits, once nothing runs.
SalinanTertib == tertib /\ ~gangguan => SalinanBenar

\* With requests in any order, and no step failing, no document row names a file that was
\* removed, but for the moment in which its own request is about to replace or delete it.
TidakMenggantungDokumen == TidakMenggantung(Dokumen)
TidakMenggantungSelang == ~gangguan => TidakMenggantungDokumen

=============================================================================
