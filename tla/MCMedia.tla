------------------------------ MODULE MCMedia ------------------------------
(* Small instances of MediaLayanan for TLC: one run explores three of them. *)
EXTENDS MediaLayanan, TLC

Simetri == Permutations(Proses)

JenisTerganggu == {"foto_barang", "toko_fisik", "review_foto"}
JenisSelang == {"distributor_dokumen", "foto_barang"}

\* Tables share no row, no counter and no file: it is enough to look at each on its own.
Tabel == {baris[i].jenis : i \in DOMAIN baris} \cup ({proses[p].jenis : p \in Proses} \ {""})
SatuTabel == Cardinality(Tabel) <= 1

\* An owner who waits for each answer: every table while no step fails, and the tables with
\* several files per owner where steps fail and goroutines are lost.  Two requests at once,
\* on a document or on a list: fewer rows and keys.
Kecil == /\ SatuTabel
         /\ gangguan => Tabel \subseteq JenisTerganggu
         /\ ~tertib => Len(baris) <= 2 /\ kunci <= 3 /\ Tabel \subseteq JenisSelang

InitTiga == Init /\ (gangguan => tertib)
NextTiga == Next /\ Kecil'
SpecTiga == InitTiga /\ [][NextTiga]_vars
=============================================================================
