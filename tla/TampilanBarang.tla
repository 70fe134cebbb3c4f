--------------------------- MODULE TampilanBarang ---------------------------
(***************************************************************************)
(* The view counter of goods, BatchViewUpdate of                            *)
(* pengguna_service/barang_services/engagement_barang.go: the requests      *)
(* ViewBarang count views in a map under a mutex, a full map or a tick of   *)
(* the watcher hands it over to a channel, and one worker writes it to the  *)
(* column barang_induk.viewed.                                              *)
(*                                                                          *)
(* A critical section of the mutex is a step; sending to the channel, which *)
(* is done outside of it and blocks while the channel is full, is another.  *)
(*                                                                          *)
(* Abstractions.  The ticker fires at any time: ResetInterval, which only   *)
(* puts the next tick off, is left out.  ViewBarang refuses a request       *)
(* without a valid buyer; the other ones are IncrUpdateViewColumn.  The     *)
(* event the worker sends for a write that failed changes no table.         *)
(***************************************************************************)
EXTENDS Naturals, Sequences, FiniteSets, Functions

CONSTANTS
    Barang,          \* the goods
    Proses,          \* the requests the server runs at the same time
    Batas,           \* the 2000 views after which a map is handed over
    Kapasitas,       \* the 100 maps the channel holds
    MaxTampil,       \* bound on the views
    PekerjaJalan     \* TRUE: UpdateToDB was started

ASSUME TampilanAssumption ==
    /\ IsFiniteSet(Barang)
    /\ IsFiniteSet(Proses)
    /\ Batas \in Nat \ {0}
    /\ Kapasitas \in Nat \ {0}
    /\ MaxTampil \in Nat
    /\ PekerjaJalan \in BOOLEAN

VARIABLES
    target,          \* UpdateTarget: the views counted for each of the goods
    limit,           \* Limit
    kanal,           \* UpdateExecution
    proses,          \* the map a request has taken and not yet sent
    pantau,          \* the map the watcher has taken and not yet sent
    pekerja,         \* what is left of the map the worker is writing
    konteksHabis,    \* the context the worker made when it started has expired
    viewed,          \* the column viewed
    hilang,          \* the views whose write failed
    dilihat          \* the views that requests have counted

vars == <<target, limit, kanal, proses, pantau, pekerja, konteksHabis, viewed, hilang, dilihat>>

-----------------------------------------------------------------------------
Peta   == [Barang -> Nat]
Kosong == [b \in Barang |-> 0]

\* The map with one more view of b; with the n views of b taken out.
Tambah(peta, b, n) == [peta EXCEPT ![b] = @ + n]
Tanpa(peta, b)     == [peta EXCEPT ![b] = 0]

Init ==
    /\ target = Kosong
    /\ limit = 0
    /\ kanal = << >>
    /\ proses = [p \in Proses |-> Kosong]
    /\ pantau = Kosong
    /\ pekerja = Kosong
    /\ konteksHabis = FALSE
    /\ viewed = Kosong
    /\ hilang = Kosong
    /\ dilihat = Kosong

\* (Mutant) a channel without a bound.
KirimTanpaBatas(peta) ==
    /\ peta # Kosong
    /\ kanal' = Append(kanal, peta)

\* UpdateExecution <- peta: waits for room.
Kirim(peta) ==
    /\ peta # Kosong
    /\ Len(kanal) < Kapasitas
    /\ kanal' = Append(kanal, peta)

-----------------------------------------------------------------------------
(* The requests.                                                            *)

\* (Mutant) the full map is handed over and Limit is not reset.
IncrUpdateViewColumnTanpaReset(p, b) ==
    /\ proses[p] = Kosong
    /\ SumFunction(dilihat) < MaxTampil
    /\ dilihat' = Tambah(dilihat, b, 1)
    /\ limit' = limit + 1
    /\ \/ /\ limit + 1 < Batas
          /\ target' = Tambah(target, b, 1)
          /\ UNCHANGED proses
       \/ /\ limit + 1 >= Batas
          /\ proses' = [proses EXCEPT ![p] = Tambah(target, b, 1)]
          /\ target' = Kosong
    /\ UNCHANGED <<kanal, pantau, pekerja, konteksHabis, viewed, hilang>>

IncrUpdateViewColumn(p, b) ==
    /\ proses[p] = Kosong
    /\ SumFunction(dilihat) < MaxTampil
    /\ dilihat' = Tambah(dilihat, b, 1)
    /\ \/ /\ limit + 1 < Batas
          /\ target' = Tambah(target, b, 1)
          /\ limit' = limit + 1
          /\ UNCHANGED proses
       \/ /\ limit + 1 >= Batas
          /\ proses' = [proses EXCEPT ![p] = Tambah(target, b, 1)]
          /\ target' = Kosong
          /\ limit' = 0
    /\ UNCHANGED <<kanal, pantau, pekerja, konteksHabis, viewed, hilang>>

\* A request that took a full map sends it and answers.
KirimPermintaan(p) ==
    /\ Kirim(proses[p])
    /\ proses' = [proses EXCEPT ![p] = Kosong]
    /\ UNCHANGED <<target, limit, pantau, pekerja, konteksHabis, viewed, hilang, dilihat>>

-----------------------------------------------------------------------------
(* The watcher.                                                             *)

\* (Mutant) the map is sent and goes on being used.
WatchIntervalTanpaKosong ==
    /\ pantau = Kosong
    /\ target # Kosong
    /\ pantau' = target
    /\ UNCHANGED <<target, limit, kanal, proses, pekerja, konteksHabis, viewed, hilang, dilihat>>

\* (Mutant) the watcher waits for a full map as well.
WatchIntervalHanyaPenuh ==
    /\ pantau = Kosong
    /\ limit >= Batas
    /\ pantau' = target
    /\ target' = Kosong
    /\ UNCHANGED <<limit, kanal, proses, pekerja, konteksHabis, viewed, hilang, dilihat>>

\* A tick takes the map, if there is a view in it.  Limit stays as it is.
WatchInterval ==
    /\ pantau = Kosong
    /\ target # Kosong
    /\ pantau' = target
    /\ target' = Kosong
    /\ UNCHANGED <<limit, kanal, proses, pekerja, konteksHabis, viewed, hilang, dilihat>>

KirimPantau ==
    /\ Kirim(pantau)
    /\ pantau' = Kosong
    /\ UNCHANGED <<target, limit, proses, pekerja, konteksHabis, viewed, hilang, dilihat>>

-----------------------------------------------------------------------------
(* The worker.                                                              *)

\* (Mutant) the loop ends with its context.
UpdateToDBBerhenti ==
    /\ PekerjaJalan
    /\ ~konteksHabis
    /\ pekerja = Kosong
    /\ kanal # << >>
    /\ pekerja' = Head(kanal)
    /\ kanal' = Tail(kanal)
    /\ UNCHANGED <<target, limit, proses, pantau, konteksHabis, viewed, hilang, dilihat>>

UpdateToDB ==
    /\ PekerjaJalan
    /\ pekerja = Kosong
    /\ kanal # << >>
    /\ pekerja' = Head(kanal)
    /\ kanal' = Tail(kanal)
    /\ UNCHANGED <<target, limit, proses, pantau, konteksHabis, viewed, hilang, dilihat>>

\* One entry of the map is written; or its write fails, as every write does once the
\* one context of the worker has expired, and the loop goes on.
TulisViewed(b) ==
    /\ pekerja[b] > 0
    /\ \/ /\ ~konteksHabis
          /\ viewed' = Tambah(viewed, b, pekerja[b])
          /\ UNCHANGED hilang
       \/ /\ hilang' = Tambah(hilang, b, pekerja[b])
          /\ UNCHANGED viewed
    /\ pekerja' = Tanpa(pekerja, b)
    /\ UNCHANGED <<target, limit, kanal, proses, pantau, konteksHabis, dilihat>>

\* TimeoutDatabaseQuery after the worker was started.
KonteksHabis ==
    /\ PekerjaJalan
    /\ ~konteksHabis
    /\ konteksHabis' = TRUE
    /\ UNCHANGED <<target, limit, kanal, proses, pantau, pekerja, viewed, hilang, dilihat>>

-----------------------------------------------------------------------------
Next == \/ \E p \in Proses : \/ \E b \in Barang : IncrUpdateViewColumn(p, b)
                            \/ KirimPermintaan(p)
        \/ WatchInterval
        \/ KirimPantau
        \/ UpdateToDB
        \/ \E b \in Barang : TulisViewed(b)
        \/ KonteksHabis

\* The runtime runs every goroutine that can go on, and the ticker fires again.  Nobody
\* has to view anything, and no write has to succeed.
Fairness ==
    /\ \A p \in Proses : WF_vars(KirimPermintaan(p))
    /\ WF_vars(WatchInterval)
    /\ WF_vars(KirimPantau)
    /\ WF_vars(UpdateToDB)
    /\ WF_vars(\E b \in Barang : TulisViewed(b))

Spec == Init /\ [][Next]_vars /\ Fairness

-----------------------------------------------------------------------------
(* Properties.                                                              *)

\* Every variable has values of its type, and the channel holds what it has room for.
TypeOK ==
    /\ target \in Peta
    /\ limit \in Nat
    /\ kanal \in Seq(Peta)
    /\ Len(kanal) <= Kapasitas
    /\ proses \in [Proses -> Peta]
    /\ pantau \in Peta
    /\ pekerja \in Peta
    /\ konteksHabis \in BOOLEAN
    /\ viewed \in Peta
    /\ hilang \in Peta
    /\ dilihat \in Peta

\* The views of b that wait: counted, in the hands of a goroutine or in the channel.
Tertunda(b) ==
    target[b] + pantau[b] + pekerja[b]
        + SumFunction([p \in Proses |-> proses[p][b]])
        + SumFunction([n \in DOMAIN kanal |-> kanal[n][b]])

\* No interleaving of requests, ticks and the worker counts a view twice or drops it
\* before the worker tried to write it.
TampilanKekal ==
    \A b \in Barang : dilihat[b] = Tertunda(b) + viewed[b] + hilang[b]

\* A map never outgrows the limit: Limit, which a tick does not reset, is at least the
\* number of views in the map and below the limit between two requests.
BatasBatch ==
    /\ SumFunction(target) <= limit
    /\ limit < Batas
    /\ \A n \in DOMAIN kanal : SumFunction(kanal[n]) <= Batas

\* A request that found the map full gets to its answer: it does not wait for the
\* database (engagement_barang.go:154, sent "secara non-blocking").
PermintaanSelesai ==
    \A p \in Proses : (proses[p] # Kosong) ~> (proses[p] = Kosong)

\* Once nobody views anything any more the worker has tried to write every view.
TampilanSampai == <>[](\A b \in Barang : viewed[b] + hilang[b] = dilihat[b])
=============================================================================
