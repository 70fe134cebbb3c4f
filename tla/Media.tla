------------------------------- MODULE Media -------------------------------
(***************************************************************************)
(* What the media handlers of sellers, couriers and buyers have in common:  *)
(* a row of a media_* table that names a file, the file in MinIO, a counter *)
(* of the owner's threshold row, and the event the search and read services *)
(* follow.  MediaSeller, MediaKurir and MediaPengguna say which handler does*)
(* what.                                                                    *)
(*                                                                          *)
(* A handler reads, may remove a file, writes the row, and leaves a         *)
(* goroutine that moves the counter and publishes the event; each of these  *)
(* is a step, and steps of other requests may come in between.  The client  *)
(* uploads the file itself, with the address it gets in the answer.         *)
(*                                                                          *)
(* Abstractions.  The owner (seller, product, order, document) is in the    *)
(* state its handler asks for.  A key is a number: keys are random and taken*)
(* to be different.  The three buckets are one.  The row of the threshold   *)
(* table exists.  The services that follow the events are outside this      *)
(* repository; "salinan" is what the events tell them.                      *)
(***************************************************************************)
EXTENDS Integers, Sequences, FiniteSets

CONSTANTS
    Jenis,      \* the media tables of the instance
    Pemilik,    \* the owners
    Proses,     \* requests that run at the same time
    Batas,      \* the number of files a product may have (10 in the code)
    MaxBaris,   \* bounds: rows and keys ever made, goroutines waiting
    MaxKunci,
    MaxLatar

ASSUME MediaAssumption ==
    /\ Pemilik \subseteq Nat
    /\ Batas \in Nat /\ MaxBaris \in Nat /\ MaxKunci \in Nat /\ MaxLatar \in Nat

VARIABLES
    baris,     \* rows; the index is the id
    kunci,     \* number of keys made so far
    url,       \* files <<table, key>> with an upload address that is still valid
    objek,     \* the files in the bucket
    dibuang,   \* the files a handler has removed
    hitung,    \* counter of each table and owner
    salinan,   \* <<id, key>> of the rows as the events tell them
    latar,     \* goroutines still to run
    proses,    \* local variables of each running request
    gangguan,  \* what the behaviour is like, chosen once.  TRUE: steps may fail, goroutines be lost
    tertib     \* TRUE: one request at a time, each with its goroutine and its upload

keadaan == <<gangguan, tertib>>
vars == <<baris, kunci, url, objek, dibuang, hitung, salinan, latar, proses, keadaan>>

ProsesBebas == [tahap |-> "bebas", jenis |-> "", pemilik |-> 0, id |-> 0, jumlah |-> 0,
                pilih |-> {}, lama |-> {}]
Tahap == {"bebas", "ganti", "buangGanti", "tambah", "buangHapus", "buangTolak", "hapus"}

Init ==
    /\ baris = << >>
    /\ kunci = 0
    /\ url = {}
    /\ objek = {}
    /\ dibuang = {}
    /\ hitung = [jo \in Jenis \X Pemilik |-> 0]
    /\ salinan = {}
    /\ latar = << >>
    /\ proses = [p \in Proses |-> ProsesBebas]
    /\ gangguan \in BOOLEAN
    /\ tertib \in BOOLEAN

BarisAda(i) == i \in DOMAIN baris /\ baris[i].ada
BarisMilik(j, o) == {i \in DOMAIN baris : baris[i].ada /\ baris[i].jenis = j /\ baris[i].pemilik = o}
Berkas(i) == <<baris[i].jenis, baris[i].kunci>>
Tenang == latar = << >> /\ \A p \in Proses : proses[p].tahap = "bebas"

Mulai(p, r) == /\ r.jenis \in Jenis
               /\ proses[p].tahap = "bebas"
               /\ tertib => Tenang /\ url = {}
               /\ proses' = [proses EXCEPT ![p] = r]
               /\ UNCHANGED <<baris, kunci, url, objek, dibuang, hitung, salinan, latar>>
Lepas(p) == proses' = [proses EXCEPT ![p] = ProsesBebas]
Jalankan(jenis, S) == /\ Len(latar) < MaxLatar
                      /\ latar' = Append(latar, [jenis |-> jenis, baris |-> S])

-----------------------------------------------------------------------------
(* The parts of the handlers.                                               *)

\* The row of the owner, if any, is read; it will be created or given a new key.
GantiBaca(p, j, o) ==
    \E i \in IF BarisMilik(j, o) = {} THEN {0} ELSE BarisMilik(j, o) :
        Mulai(p, [ProsesBebas EXCEPT !.tahap = "ganti", !.jenis = j, !.pemilik = o, !.id = i])

\* Likewise, but the old file is removed before the row gets its new key.
GantiBuangBaca(p, j, o) ==
    \E i \in IF BarisMilik(j, o) = {} THEN {0} ELSE BarisMilik(j, o) :
        Mulai(p, [ProsesBebas EXCEPT !.tahap = IF i = 0 THEN "ganti" ELSE "buangGanti",
                                     !.jenis = j, !.pemilik = o, !.id = i,
                                     !.lama = IF i = 0 THEN {} ELSE {Berkas(i)}])

\* n new rows,
TambahBaca(p, j, o, n) ==
    Mulai(p, [ProsesBebas EXCEPT !.tahap = "tambah", !.jenis = j, !.pemilik = o, !.jumlah = n])

\* (Mutant) the list is not cut to what the product may still have.
TambahSampaiBacaLebih(p, j, o, n, paling) ==
    Cardinality(BarisMilik(j, o)) < paling /\ TambahBaca(p, j, o, n)

\* or as many of them as the owner may still have,
TambahSampaiBaca(p, j, o, n, paling) ==
    LET sisa == paling - Cardinality(BarisMilik(j, o))
    IN  /\ sisa > 0
        /\ TambahBaca(p, j, o, IF n > sisa THEN sisa ELSE n)

\* or of an owner who has none.
SekaliBaca(p, j, o, n) == BarisMilik(j, o) = {} /\ TambahBaca(p, j, o, n)

\* The row with this id and this key is read; its file stays, or is removed first.
HapusBaca(p, j, i) ==
    /\ BarisAda(i)
    /\ baris[i].jenis = j
    /\ Mulai(p, [ProsesBebas EXCEPT !.tahap = "hapus", !.jenis = j, !.pilih = {i}])

HapusBuangBaca(p, j, i) ==
    /\ BarisAda(i)
    /\ baris[i].jenis = j
    /\ Mulai(p, [ProsesBebas EXCEPT !.tahap = "buangHapus", !.jenis = j, !.pilih = {i},
                                    !.lama = {Berkas(i)}])

\* A list of rows of one owner: those that are gone are passed over,
HapusDaftarBaca(p, j, o, S) ==
    LET ada == S \cap BarisMilik(j, o)
    IN  /\ ada # {}
        /\ Mulai(p, [ProsesBebas EXCEPT !.tahap = "hapus", !.jenis = j, !.pilih = ada])

\* or the request is refused for them, but not before the files of the others are removed.
HapusBuangDaftarBaca(p, j, o, S) ==
    LET ada == S \cap BarisMilik(j, o)
    IN  /\ ada # {}
        /\ Mulai(p, [ProsesBebas EXCEPT !.tahap = IF ada = S THEN "buangHapus" ELSE "buangTolak",
                                        !.jenis = j, !.pilih = ada, !.lama = {Berkas(i) : i \in ada}])

-----------------------------------------------------------------------------
(* The steps that follow a read.                                            *)

Buang(p) ==
    /\ proses[p].tahap \in {"buangGanti", "buangHapus", "buangTolak"}
    /\ objek' = objek \ proses[p].lama
    /\ dibuang' = dibuang \cup proses[p].lama
    /\ \/ proses[p].tahap = "buangGanti" /\ proses' = [proses EXCEPT ![p].tahap = "ganti"]
       \/ proses[p].tahap = "buangHapus" /\ proses' = [proses EXCEPT ![p].tahap = "hapus"]
       \/ proses[p].tahap = "buangTolak" /\ Lepas(p)
    /\ UNCHANGED <<baris, kunci, url, hitung, salinan, latar>>

BarisBaru(j, o, n) ==
    [i \in 1 .. n |-> [jenis |-> j, pemilik |-> o, kunci |-> kunci + i, ada |-> TRUE]]

\* (Mutant) the row keeps the key of the file that was removed.
GantiTulisTanpaKunci(p) ==
    LET r == proses[p]
    IN  /\ r.tahap = "ganti"
        /\ kunci < MaxKunci
        /\ kunci' = kunci + 1
        /\ url' = url \cup {<<r.jenis, kunci'>>}
        /\ \/ /\ r.id = 0
              /\ Len(baris) < MaxBaris
              /\ baris' = baris \o BarisBaru(r.jenis, r.pemilik, 1)
              /\ Jalankan("buat", {Len(baris')})
           \/ /\ r.id # 0
              /\ Jalankan("ubah", {r.id})
              /\ UNCHANGED baris
        /\ Lepas(p)
        /\ UNCHANGED <<objek, dibuang, hitung, salinan>>

\* (Mutant) the row is written whether or not it still exists.
GantiTulisTimpa(p) ==
    LET r == proses[p]
    IN  /\ r.tahap = "ganti"
        /\ kunci < MaxKunci
        /\ kunci' = kunci + 1
        /\ url' = url \cup {<<r.jenis, kunci'>>}
        /\ \/ /\ r.id = 0
              /\ Len(baris) < MaxBaris
              /\ baris' = baris \o BarisBaru(r.jenis, r.pemilik, 1)
              /\ Jalankan("buat", {Len(baris')})
           \/ /\ r.id # 0
              /\ baris' = [baris EXCEPT ![r.id].kunci = kunci', ![r.id].ada = TRUE]
              /\ Jalankan("ubah", {r.id})
        /\ Lepas(p)
        /\ UNCHANGED <<objek, dibuang, hitung, salinan>>

\* A row deleted meanwhile is not found; the address is in the answer all the same.
GantiTulis(p) ==
    LET r == proses[p]
    IN  /\ r.tahap = "ganti"
        /\ kunci < MaxKunci
        /\ kunci' = kunci + 1
        /\ url' = url \cup {<<r.jenis, kunci'>>}
        /\ \/ /\ r.id = 0
              /\ Len(baris) < MaxBaris
              /\ baris' = baris \o BarisBaru(r.jenis, r.pemilik, 1)
              /\ Jalankan("buat", {Len(baris')})
           \/ /\ r.id # 0
              /\ baris' = IF BarisAda(r.id) THEN [baris EXCEPT ![r.id].kunci = kunci'] ELSE baris
              /\ Jalankan("ubah", {r.id})
        /\ Lepas(p)
        /\ UNCHANGED <<objek, dibuang, hitung, salinan>>

\* (Mutant) the keys given out are not counted.
TambahTulisKunciSama(p) ==
    LET r == proses[p]
    IN  /\ r.tahap = "tambah"
        /\ Len(baris) + r.jumlah <= MaxBaris
        /\ kunci + r.jumlah <= MaxKunci
        /\ url' = url \cup {r.jenis} \X (kunci + 1 .. kunci + r.jumlah)
        /\ baris' = baris \o BarisBaru(r.jenis, r.pemilik, r.jumlah)
        /\ Jalankan("buat", Len(baris) + 1 .. Len(baris'))
        /\ Lepas(p)
        /\ UNCHANGED <<kunci, objek, dibuang, hitung, salinan>>

TambahTulis(p) ==
    LET r == proses[p]
    IN  /\ r.tahap = "tambah"
        /\ Len(baris) + r.jumlah <= MaxBaris
        /\ kunci + r.jumlah <= MaxKunci
        /\ kunci' = kunci + r.jumlah
        /\ url' = url \cup {r.jenis} \X (kunci + 1 .. kunci')
        /\ baris' = baris \o BarisBaru(r.jenis, r.pemilik, r.jumlah)
        /\ Jalankan("buat", Len(baris) + 1 .. Len(baris'))
        /\ Lepas(p)
        /\ UNCHANGED <<objek, dibuang, hitung, salinan>>

\* The rows are deleted by their ids; the goroutine is about those that were read.
HapusTulis(p) ==
    /\ proses[p].tahap = "hapus"
    /\ baris' = [i \in DOMAIN baris |-> IF i \in proses[p].pilih
                                        THEN [baris[i] EXCEPT !.ada = FALSE] ELSE baris[i]]
    /\ Jalankan("hapus", proses[p].pilih)
    /\ Lepas(p)
    /\ UNCHANGED <<kunci, url, objek, dibuang, hitung, salinan>>

Putus(p) ==
    /\ gangguan
    /\ proses[p].tahap # "bebas"
    /\ Lepas(p)
    /\ UNCHANGED <<baris, kunci, url, objek, dibuang, hitung, salinan, latar>>

Langkah(p) == Buang(p) \/ GantiTulis(p) \/ TambahTulis(p) \/ HapusTulis(p) \/ Putus(p)

-----------------------------------------------------------------------------
(* The goroutines.  The event of a change carries the row as it is then;    *)
(* that of a creation or a deletion carries the row as the request had it.  *)

Sisa(i) == SubSeq(latar, 1, i - 1) \o SubSeq(latar, i + 1, Len(latar))
Ambil(i, jenis) == latar[i].jenis = jenis /\ latar' = Sisa(i)

Hitungan(S, n) ==
    [jo \in DOMAIN hitung |->
        hitung[jo] + n * Cardinality({i \in S : <<baris[i].jenis, baris[i].pemilik>> = jo})]

LatarBuat(i) ==
    /\ Ambil(i, "buat")
    /\ hitung' = Hitungan(latar[i].baris, 1)
    /\ salinan' = {s \in salinan : s[1] \notin latar[i].baris}
                      \cup {<<b, baris[b].kunci>> : b \in latar[i].baris}
    /\ UNCHANGED <<baris, kunci, url, objek, dibuang, proses>>

LatarUbah(i, terbaca) ==
    /\ Ambil(i, "ubah")
    /\ salinan' = {s \in salinan : s[1] \notin terbaca} \cup {<<b, baris[b].kunci>> : b \in terbaca}
    /\ UNCHANGED <<baris, kunci, url, objek, dibuang, hitung, proses>>

\* (Mutant) the counter is lowered by one for a list of rows.
LatarHapusSatu(i, kabar) ==
    /\ Ambil(i, "hapus")
    /\ hitung' = Hitungan({CHOOSE b \in latar[i].baris : TRUE}, -1)
    /\ salinan' = {s \in salinan : s[1] \notin kabar}
    /\ UNCHANGED <<baris, kunci, url, objek, dibuang, proses>>

\* kabar: the rows of a deletion that are announced as deleted.
LatarHapus(i, kabar) ==
    /\ Ambil(i, "hapus")
    /\ hitung' = Hitungan(latar[i].baris, -1)
    /\ salinan' = {s \in salinan : s[1] \notin kabar}
    /\ UNCHANGED <<baris, kunci, url, objek, dibuang, proses>>

LatarGagal(i) ==
    /\ gangguan
    /\ latar' = Sisa(i)
    /\ UNCHANGED <<baris, kunci, url, objek, dibuang, hitung, salinan, proses>>

-----------------------------------------------------------------------------
(* The client uploads, or the address expires.                              *)

Unggah(k) ==
    /\ k \in url
    /\ objek' = objek \cup {k}
    /\ url' = url \ {k}
    /\ UNCHANGED <<baris, kunci, dibuang, hitung, salinan, latar, proses>>

Kedaluwarsa(k) ==
    /\ k \in url
    /\ url' = url \ {k}
    /\ UNCHANGED <<baris, kunci, objek, dibuang, hitung, salinan, latar, proses>>

Klien == \E k \in url : Unggah(k) \/ Kedaluwarsa(k)

-----------------------------------------------------------------------------
(* Properties.                                                              *)

\* Rows, counters, addresses and local variables have the types of their columns, and no
\* id or key is one that was never given out.
MediaTypeOK ==
    /\ baris \in Seq([jenis : Jenis, pemilik : Pemilik, kunci : 1 .. kunci, ada : BOOLEAN])
    /\ kunci \in Nat
    /\ url \cup objek \cup dibuang \subseteq Jenis \X (1 .. kunci)
    /\ hitung \in [Jenis \X Pemilik -> Int]
    /\ salinan \subseteq (DOMAIN baris) \X (1 .. kunci)
    /\ \A i \in DOMAIN latar : /\ latar[i].jenis \in {"buat", "ubah", "hapus"}
                               /\ latar[i].baris \subseteq DOMAIN baris
    /\ \A p \in Proses : /\ proses[p].tahap \in Tahap
                         /\ proses[p].id \in 0 .. Len(baris)
                         /\ proses[p].pilih \subseteq DOMAIN baris
                         /\ proses[p].lama \subseteq Jenis \X (1 .. kunci)

\* Once nothing runs, the counter of an owner says how many files it has.
HitungSesuai ==
    Tenang => \A j \in Jenis, o \in Pemilik : hitung[j, o] = Cardinality(BarisMilik(j, o))

\* The counter never says more than there is, and never more than the goroutines still to
\* come can explain, even where two requests delete the same row.
Menunggu(jenis, j, o) ==
    Cardinality({w \in (DOMAIN latar) \X (DOMAIN baris) :
        /\ latar[w[1]].jenis = jenis /\ w[2] \in latar[w[1]].baris
        /\ baris[w[2]].jenis = j /\ baris[w[2]].pemilik = o})
HitungTidakLebih ==
    \A j \in Jenis, o \in Pemilik :
        hitung[j, o] + Menunggu("buat", j, o)
            <= Cardinality(BarisMilik(j, o)) + Menunggu("hapus", j, o)

\* A row whose file was removed is about to be deleted or to get a new key: as long as no
\* step fails, no row is left without its file.
TidakMenggantung(J) ==
    \A i \in DOMAIN baris :
        (baris[i].ada /\ baris[i].jenis \in J /\ Berkas(i) \in dibuang) =>
            \E p \in Proses : \/ proses[p].tahap = "ganti" /\ proses[p].id = i
                              \/ proses[p].tahap = "hapus" /\ i \in proses[p].pilih

\* Of the tables in J an owner has at most n rows.
PalingBanyak(J, n) == \A j \in J \cap Jenis, o \in Pemilik : Cardinality(BarisMilik(j, o)) <= n

\* Once nothing runs, no file of the tables in J is left without its row.
TanpaYatim(J) ==
    Tenang => \A b \in objek : b[1] \in J => \E i \in DOMAIN baris : baris[i].ada /\ Berkas(i) = b

\* Once nothing runs, the followers of the events know the rows of the tables in J, with
\* their keys, and no others.
SalinanSesuai(J) ==
    Tenang => {s \in salinan : baris[s[1]].jenis \in J} =
                  {<<i, baris[i].kunci>> : i \in {b \in DOMAIN baris : baris[b].ada /\ baris[b].jenis \in J}}

=============================================================================
