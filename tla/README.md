# Burung Logical Business API: specifications

TLA+ models of the state-changing services of this backend, TLC configurations that check
them on small instances, and TLAPS proofs of the most important invariants for every
instance. Paths below are relative to `src/`; a bare line number belongs to the file of the
section it stands in. Modules, variables and actions keep the names of the code where they can.

## 1. The system

An HTTP server (`app/initialize.go`, `app/routes/`) dispatches each request to one service
function. A service function

1. validates its input and the caller's session (Redis, or the database if there is none),
2. reads what it needs with `db.Read`, one statement at a time,
3. writes in one transaction with `db.Write`, mostly by id and without repeating the condition
   under which it read,
4. starts a goroutine that raises or lowers threshold counters and publishes a
   create / update / delete event to RabbitMQ,
5. answers.

Requests run concurrently; nothing but the database and one mutex (the view counter)
synchronises them. There are no row locks (`FOR UPDATE`), no optimistic versions, hardly a
unique index, and no tests in the repository. So the hard behaviour is: what another request
did between step 2 and step 3, answers and requests that are sent again, transactions that roll
back after something outside them has happened (an event, a payment, a removed file), and
goroutines that outlive their request, overtake each other, or are lost.

| Component | State | Operations | Module |
|---|---|---|---|
| Buyer transactions (`pengguna_service/transaction_services`) | `varian_barang`, `kategori_barang.stok`, `keranjang`, `pembayaran`, `transaksi`, `transaksi_failed` | Checkout, BatalCheckout, Snap, BatalTransaksi, LockTransaksi and PaidFailedTransaksi for va / wallet / gerai | `Reservasi` |
| Seller orders (`seller_services/transaksi_services`) | `transaksi.status`, `threshold_order_seller`, `pengiriman`, `pengiriman_ekspedisi` | ApproveOrder, KirimOrder, UnApproveOrder, UpThreshold | `PesananSeller` |
| Couriers (`kurir_services/pengiriman_services`) | `kurir.status_bid`, `bid_kurir_data`, the two scheduler tables, deliveries and their trail, payouts | AktifkanBid, LockSiapAntar, PickedUp, Kirim, Sampai (NonEks and Eks) | `KurirPengiriman` |
| An order from payment to arrival | `transaksi.status`, shared by the two above | both | `SiklusPesanan` |
| Status enum (`sot_database/enums/UpEnums.go:250-256`) | `transaksi.status` | the promised moves | `SiklusTransaksi` |
| Goods of a seller (`seller_services/barang_services`) | `barang_induk`, `kategori_barang`, `varian_barang`, two threshold tables | create and delete products and categories, original category, stock, on and off sale | `BarangSeller` |
| Media (three `media_services`) | 29 `media_*` tables, MinIO objects, upload addresses, counters, events | replace, add, delete, and their lists | `Media`, `MediaSeller`, `MediaKurir`, `MediaPengguna`, `MediaLayanan` |
| Small services of buyers, sellers and couriers | 30 tables of likes, comments, carts, reviews, follows, showcases, discounts, accounts, addresses, seller kinds, courier data, the products and categories they refer to; their counters | create, rename, delete, default account, move into a showcase or a discount, move a category to another warehouse or account | `Relasi`, `RelasiPengguna`, `RelasiSeller`, `RelasiKurir`, `RelasiLayanan` |
| View counter (`pengguna_service/barang_services`, `BatchViewUpdate`) | a map under a mutex, a channel, `barang_induk.viewed` | IncrUpdateViewColumn, WatchInterval, UpdateToDB | `TampilanBarang` |
| Everything else | see `PROJECT.json`, `components` | | section 8 |

How they interact. A paid bill of `Reservasi` is the order with status `Dibayar` that
`PesananSeller` starts from; its hand over creates the delivery row that a bid of
`KurirPengiriman` may take. `SiklusPesanan` composes these two over `transaksi.status`.
`BarangSeller` and `Reservasi` share the units: the seller creates, withdraws and deletes them,
a checkout holds them; `BarangSeller` has the checkout's read and write as a second actor.
Categories and open orders refer to warehouses, accounts and addresses; `Relasi` has their
change and deletion beside the bill, the order and the arrival that need them, and the names,
references and category counters of the products whose units `BarangSeller` has. Outside the program: Midtrans (accepts
a bill and takes the payment), Flip (pays sellers, couriers and the system), MinIO, the clients,
and the automatic scheduler that puts deliveries on bids.

What makes each part correct:

* Buyer: a unit is free or held or sold, never two of these; a sold unit belongs to a paid
  order of its holder; a bill is booked once, as paid or as failed; counters match units;
  an event tells the truth.
* Seller: an order is approved, then handed over, once; counters match orders; an order is
  cancelled only before approval; every handed over order has one delivery.
* Courier: slots are conserved; scheduler row, delivery, order and payout agree; a saved
  payout stands for a payment; no delivery is lost.
* Goods: no unit outlives its category, no category its product; the original category of a
  product is one of its own; the stock column never promises more than there is.
* Media: a document has one row, a row has a file, a removed row stays removed, and the counter
  and the events tell of the rows there are.
* Small services: nothing is there twice, limits hold, counters equal rows, and nothing that
  a category or an open order refers to is deleted or changed under it.
* View counter: no view is lost or counted twice before it is written, requests do not hang.

## 2. Modules

**`Reservasi`** One action per statement that decides something: `CheckoutBarangUser` (input
and cart read), `CheckoutBacaVarian` (one turn of the loop over the lines), `CheckoutTulis`
(the transaction), `CheckoutGagal` (its rollback), `LatarKeranjang` (the goroutine), and in
the same way for cancelling, Snap and payment. `proses[p]` holds the local variables of a
running request. `Limit(S, n)` is what `LIMIT n` without an order may return. `Putus` ends a
request anywhere before its write: an error return, a rollback, an expired context, a stopped
process. Amounts and names are abstracted, a cart row is `<<pengguna, kategori>>`, and
`hold_by` with `holder_entity` is the one field `pemegang`. The client is part of the model
because the server trusts the answers it gets back: it may send every answer again, or, with
`KlienTertib`, use each once.

**`SiklusTransaksi`** The abstract life of an order: Dibayar, then Diproses, Waiting, Dikirim,
Selesai, or Dibatalkan from Dibayar.

**`PesananSeller`** Reads and transactions as above. `KirimOrderTransaksi` starts its goroutine
inside its transaction, hence two steps `KirimTulis` and `KirimKomit` with the goroutine
`LatarKirim` free to run between them: the create event of a delivery may precede its commit.
`ambang` is the sequence of rows of `threshold_order_seller`; there may be several for one
seller. `Giliran` with `SellerTertib` says that a seller sends no second request about an order
before the answer to the first, and is offered only paid orders to approve.

**`KurirPengiriman`** The NonEks and the Eks handler of an operation differ in their tables and
in whom they pay, not in their control, and are one action with the constant `Ekspedisi`
choosing. `Disbursment` is one call of Flip with each of its outcomes. `final` is the variable
of that name, set by the goroutine that counts the rows left. `JadwalkanOtomatis` is external:
the two AmbilPengiriman handlers compare the capitalised kind of delivery with lower case
names and refuse every request, so deliveries come onto a bid only through the scheduler.

**`SiklusPesanan`** `PesananSeller` with the variables of `KurirPengiriman` beside its own. A
step is a step of one of the two; both see `transaksi.status`. What the composition adds is that
only a delivery whose row is committed comes onto a bid. `SatuKiriman` and `CeritaKiriman` say
what order, delivery row, trail and payouts may say together.

**`BarangSeller`** A handler is a read step, a transaction and a goroutine that moves counters;
`latar` holds the goroutines still to run, in no order. A deleted unit keeps its place in the
sequence because ids are not used again. A checkout is `PembeliBaca` and `PembeliTahan`.

**`Media`** has what all media handlers share, in nine forms that differ in what they read and
when the file goes: `GantiBaca`, `GantiBuangBaca` (replace; the latter removes the old file
first), `TambahBaca`, `TambahSampaiBaca` (add, up to a limit), `SekaliBaca` (only once),
`HapusBaca`, `HapusBuangBaca` and the two `HapusDaftar` forms (delete one or a list, with and
without the file). `MediaSeller`, `MediaKurir` and `MediaPengguna` have one line per handler: its
table, its form and its limit; `MediaLayanan` joins them and states the properties. `url` are
the upload addresses that are still valid: the client uploads the file, perhaps never. `salinan`
is what the events tell their followers. Two variables that are chosen at the start and never
change say what a behaviour is like: in one with `gangguan` steps fail and goroutines are lost, in
one that is `tertib` an owner waits for each answer, its goroutine and its upload.

**`Relasi`** has what the small services share: a row found by a search without a unique index,
written in a step of its own, and goroutines that move counters (`hitung`) of threshold rows
(`ambang`), whose update of a row that is not there changes nothing. `RelasiPengguna`,
`RelasiSeller`, `RelasiKurir` have one definition per handler with its search, its row and its
counters. `RelasiLayanan` joins them and adds the actors that need their rows: a bill
(`SnapTransaksi`), the order its payment makes (`LockTransaksi`) and its arrival (`Sampai`).
`gangguan` and `tertib` are those of `Media`. A row has `dari` (whose it is), `ke` (its name, or
the seller it is about) and `rujuk`, the ids it refers to: a category `<<product, warehouse,
account>>`, a line of a cart `<<product, category>>`, a member of a showcase `<<showcase, product>>`,
of a discount `<<discount, product, category>>`, an order `<<category, warehouse, address, bill>>`.
A change of a name is a handler (`GantiBaca`, `GantiTulis`), because the searches for duplicates
read it. Where the code asks for a threshold row by a wrong id the model tries every row that may
be hit: `AmbangMana` (the threshold rows of deleted accounts and comments), the counters that limit
the cart, `HapusBarangInduk` and `UnlikeReviewBarang`.

**`TampilanBarang`** A critical section of the mutex is a step, a send to the channel another.
`PekerjaJalan` says whether `UpdateToDB` was started.

**`MC*.tla`** size the modules for TLC. Except for `MCTampilanBarang`, each explores several
instances in one run: the variable `skenario` (for `Media` the pair `gangguan`, `tertib`, for
`Relasi` these and `kelompok`) is chosen at the start and never changes, and an instance is an `INSTANCE ... WITH` other constants or, where theorems are proved about it, the
module's own `Next` with conjuncts that narrow it. A property holds either in all scenarios or
is stated for the scenarios it is true of, by name: the orderly ones (`tertib`, `teratur`,
`gabung`), those in which steps fail (`gangguan`, `terganggu`), those in which
requests overlap (`selang`), and, for the goods, an orderly seller beside checkouts (`pembeli`).

**`ReservasiProofs`, `PesananSellerProofs`, `KurirPengirimanProofs`, `MediaProofs`,
`RelasiProofs`, `BarangSellerProofs`, `TampilanBarangProofs`** hold the proofs (section 6), **`JumlahProofs`** the
lemmas about sums that several of them cite.

Definitions marked `(Mutant)` are never part of a specification: each is a plausible bug that
takes the place of the definition after it to show that a property notices it.

## 3. Runs

| Run | Question | Result |
|---|---|---|
| `Reservasi_dua` | Two buyers. Requests that overlap and answers repeated at will: are holders, sold units, bills and events consistent? An orderly client, up to two lines and two units: do counters, fulfilment and sold units survive long sequences of calls? | holds |
| `Reservasi_terbit_hapus` | Is a cart row's delete event sent only when it is gone? | violated |
| `PesananSeller_tiga` | Overlapping requests: are the counters in balance? One request per order: do counters, deliveries and statuses agree, and is `SiklusTransaksi` implemented? The same with a courier, from payment to arrival | holds |
| `PesananSeller_batal` | Is an order cancelled only while Dibayar? | violated |
| `KurirPengiriman_dua` | Overlapping requests, every outcome of Flip: are payouts payments, is a delivery never lost? Couriers who wait for each answer: do all tables tell one story? | holds |
| `KurirPengiriman_selesai` | Does a finished order stay finished? | violated |
| `BarangSeller_tiga` | An orderly seller, one whose requests and goroutines overtake each other, an orderly one beside two checkouts: units, categories, stock, counters | holds |
| `BarangSeller_hapus_dipesan` | Is a unit in an order never deleted with its product? | violated |
| `Media_tiga` | All 29 tables for an owner who waits; with failing steps and lost goroutines; with overlapping requests: rows, counters, files and events | holds |
| `Relasi_empat` | All tables for owners who wait; with failures; with overlaps; with products, categories, bills and orders that refer to them | holds |
| `TampilanBarang_pekerja` | With the worker running: are views conserved, do requests and views get through? | holds |
| `TampilanBarang_tanpa_pekerja` | As the program starts it: do requests get through? | violated |

The properties named in `PROJECT.json` stand in the modules; those that are claimed for some
scenarios only, with names in `Tertib`, `Benar` or `Selang`, in the MC modules, `MediaLayanan` and
`RelasiLayanan`.

Each violated run is a finding of `PROJECT.json` with the line of code and the sentence of the
repository it contradicts:

* `CheckoutBarangUser` publishes the deletion of cart rows before it looks at the error of the
  transaction that deletes them (README.md:46).
* `UnApproveOrderTransaksi` cancels by id an order another request has approved meanwhile
  (`UpEnums.go:256`).
* `PickedUpPengirimanNonEks`, sent twice, can take an order back from Selesai to Dikirim
  (`UpEnums.go:254`).
* `HapusBarangInduk` looks for units in an order and deletes all units later: a checkout in
  between is deleted with the product (`engagement_barang.go:528`).
* Nothing receives from the channel of the view counter: `UpdateToDB` is started nowhere. When
  it is full, the watcher and every request that fills the map wait for ever, though the send
  is said to be non-blocking (`engagement_barang.go:154`).

### Limits of the code the models show

The orderly properties fail when requests overlap freely, and several do not hold even for an
orderly caller. These are limits of the code rather than contradictions of what it says of
itself; each is the reason why a property is stated no more widely than it is.

Buyer, seller, courier:

* Two overlapping checkouts hold the same units; the later one takes them over, even sold ones.
* A cancellation sent twice, or after a checkout whose counter update matched no row, raises
  `stok` above the units.
* `BatalTransaksi` for a bill of several lines frees only the units of the last line and raises
  every counter; this happens for an orderly client too, so `StokSesuai` claims equality only as
  long as no bill has several lines, and an inequality always.
* Cancelled or failed bills and checkouts that are given up have no timeout: their units stay
  held.
* `ApproveOrderTransaksi` accepts an order in any status, also one that was cancelled or handed
  over; the money of a refused order is not returned.
* An arrival whose answer from Flip is lost, or that fails after the calls, pays again when it is
  repeated: each call has an idempotency key of its own. Only the direction "a saved payout is a
  payment" holds (`TercatatTerbayar`).
* The seller's payout names the bank of the courier's account (`BankCode:
  dataRekeningKurir.NamaBank`, `engagement_pengiriman.go:1646`); amounts and banks are not modelled.
* A courier can not end a bid: `NonaktifkanBidKurir` waits for a status no bid has. Rating
  handlers and the AmbilPengiriman handlers refuse every request.

Goods of a seller:

* GORM leaves zero values out of an update: a stock set to 0 keeps the column, and `IsOriginal:
  false` clears nothing.
* Counters are addressed by an id the goroutine guesses: a rolled back creation, or goroutines
  that overtake each other, move the counter of another row. `DownStokBarangInduk` limits by the
  id of the product, `HapusBarangInduk` trusts `GetKolomCount`, and `DownKategoriBarang` with the
  amount 0 is limited by a counter that lags.
* A checkout between the read and the write of `EditStokKategoriBarang` is overwritten.

Media:

* Deleting a single photo, or the photos of a product, leaves the files in the bucket, contrary
  to the comment at `table_media.go:4`; a refused `TokoFisik` leaves rows without files, and an empty
  list panics its goroutine. The showcase goroutine reads by a wrong id, and the deletion of a
  profile picture is announced as an update: these two are left out of `SalinanBenar`.

Small services:

* Some counters are asymmetric and left out of `KolomBenar`: likes are lowered in another column
  than they are raised, comments and the accounts of couriers for the id 0. A like of a review
  raises the counter of review 0, and taking it back raises the dislikes of the review that has the
  id of the like (`engagement_barang.go:1474`, `:1559`), so both are left out.
* `HapusBarangInduk` deletes all categories of a product but lowers the counters of the seller, the
  warehouses and the accounts only for the categories it read, and it reads at most as many as
  the counter of any product says (`engagement_barang.go:537`): these counters end too high for an
  orderly seller without any failure. `EditRekeningBarangInduk` takes all categories to have had
  one account. The counters of categories per seller, warehouse and account are therefore in the
  model and not in `KolomBenar`; those of products, carts and categories per product are.
* The counters of threshold rows run ahead when requests overlap: a goroutine that lowers one before
  its row is made changes nothing, and the one that raises it may come after. `HitungTidakLebih`
  therefore speaks of people.
* The limit of the cart is read from the threshold row whose own id is that of the buyer
  (`engagement_barang.go:956`), which is another buyer's or none, so no limit on carts is claimed.
  Nothing twice holds only for owners who wait. Two `SetDefault` at once leave two default
  accounts.
* The edits of a showcase, a discount, an account, a product, a warehouse and an address of a buyer
  look for no duplicate (`engagement_etalase.go:158`, `engagement_diskon.go:251`,
  `engagement_rekening.go:239`, `engagement_barang.go:430`, `engagement_alamat.go:262` and `:283`),
  so an orderly owner can give two rows one name: `TanpaGanda` leaves names out.
* `MasukanBarangInduk` takes the warehouse and the account as the client names them
  (`engagement_barang.go:56`); a foreign key accepts a deleted one or another seller's. So that a
  category always has a warehouse of its seller is not claimed, only that no step takes it away or
  moves the category to what is not its seller's (`RujukanTertib`, an action property).
* Deletion and change of a warehouse or an address look at orders, not at bills: an order can be
  made with a warehouse or address that was deleted after its bill, which is why `RujukanTertib`
  is about steps. `HapusRekeningSeller` does not look at categories, and the arrival of their
  orders is refused afterwards. Cancelled orders block deletion for ever.
* A discount is activated by a sleeping goroutine (`engagement_diskon.go`) and stays Draft after a
  restart. Goods can be added to a deleted showcase. A review can be written again because
  `Reviewed: false` is no condition for GORM.
* `TambahWishlist` refuses everything; `AjukanInformasiKurir` stores the literal `YYYY-MM-DD`.

View counter: its worker makes its context once; five seconds after its start every write fails.
`TampilanSampai` says that a write is tried, not that it succeeds.

## 4. Bounds

`MaxItem`, `MaxJumlah`: lines of a checkout and units of a line. `MaxStok`, `MaxAmbang`,
`MaxTerbit`, `MaxLatar`, `MaxBid`, `MaxBayar`, `MaxJejak`, `MaxTampil`, `MaxBarang`, `MaxKategori`,
`MaxVarian`, `MaxBaris`, `MaxKunci` cap what would otherwise grow for ever, each in the guard of
the action that raises it. The instances have at least two of everything that can compete:

* `Reservasi_dua`: two buyers for two units, two requests, two codes. `selang` has one unit per
  checkout and one method (all races on a unit need two requests and one unit); `tertib` has two
  categories, two lines, two units and all methods. For overlapping requests with several lines
  there are the proofs.
* `PesananSeller_tiga`: two orders of one seller overlapping; three orders of two sellers; two
  orders, one of them for an expedition, with a courier.
* `KurirPengiriman_dua`: one courier and one delivery of each kind with two requests that
  overlap; two couriers, two slots, three deliveries. `BatasKunci` stands for the 8 of
  `LockSiapAntarBidKurir`; with 2 the limited read does occur.
* `BarangSeller_tiga`: two products, three categories, three units; one product with two
  requests that overlap; one with two checkouts.
* `Media_tiga`, `Relasi_empat`: rows of two tables that share no row, counter or file can not
  disturb each other, so one table (one group of tables, `kelompok`) at a time is looked at; three
  rows for owners who wait, two where steps fail or overlap. One owner suffices where every search
  has the owner as a condition. `Batas` (1 or 2) stands for the limits of the code: 5 addresses,
  10 or 20 files, and those of carts and discounts. Groups with a category start from `InitToko`,
  the state that a seller with two warehouses, an account and a product, and a buyer with an
  address leave behind, and add at most three rows. Groups in which products, categories, bills
  and orders come and go are looked at without failing steps, and most of them for owners who wait
  only: their goroutines can move counters that nothing is claimed of without end. The theorems
  about `Spec` have none of these restrictions.
* `TampilanBarang`: two goods, maps of two views, a channel for one map; `Kapasitas = 1` and `Batas
  = 2` stand for 100 and 2000: six views fill the hands of the worker, the channel and both
  requests.

Symmetry is used for requests, buyers, codes, orders of one seller, couriers and deliveries of one
kind, and only in runs without liveness. `CHECK_DEADLOCK FALSE` is set throughout: when the bounds
are reached, and when all orders are finished, nothing has to happen.

## 5. Fairness

Safety models have none: a request may end at any point and nobody has to send one, and no code
retries what was dropped. `TampilanBarang` has weak fairness for the goroutines that can go on
(the Go runtime runs them), and for the watcher, whose ticker fires again as long as requests do
not keep resetting it; the number of views is finite in the model, and in the code a steady
stream of views hands maps over by the limit instead. No request has to come and no write has to
succeed, nor does the context of the worker have to expire.

## 6. Proofs

For every number of buyers, sellers, couriers, orders, units, codes, requests, lines, goods,
media tables and files:

| Module | Theorems, for any requests | Theorems, for clients who wait for each answer |
|---|---|---|
| `ReservasiProofs` | `TypeOK`, `PemegangKonsisten`, `TerjualMilikPembeli`, `LunasAtauGagal`, `BayarSekali`, `TerbitSetelahKomit` | `StokTertib`, `UnitTertib`, `TerjualTetapTertib` |
| `PesananSellerProofs` | `TypeOK`, `AmbangSeimbang` | `SiklusSpec` (the seller implements `SiklusTransaksi`), `AmbangTertib`; `KirimanTertib` and `SiklusTertib`, also for sellers and couriers together |
| `KurirPengirimanProofs` | `TypeOK`, `TercatatTerbayar`, `TidakHilang` | `JadwalSesuai`; `StatusBidSesuai`, `MengumpulkanTanpaBawaan` and `SlotKekal`; every step is a step of `SiklusTransaksi` or leaves the orders alone; the same as `JadwalTertib`, `BidTertib`, `SiklusTertib` of the run |
| `BarangSellerProofs` | `TypeOK`, `AsalTerdaftar` | `TanpaYatimTertib`, `StokTertib`, `AmbangTertib` |
| `MediaProofs` | `TypeOK`, `TetapTerhapus`; `TidakMenggantungSelang` and the first part of `HitungBenar`, while no step fails | `BerkasTertib`, where steps fail as well; `HitungBenar`, `SalinanTertib` |
| `RelasiProofs` | `TypeOK`; the first part of `HitungTertib`, while no step fails | `TanpaGandaTertib` and `RujukanTertib`, where steps fail as well; `HitungTertib` |
| `TampilanBarangProofs` | `TypeOK`, `TampilanKekal`, `BatasBatch` | |

The names that end in `Tertib` are those the runs check. For buyers, sellers, couriers and goods they
are theorems about the specifications of the MC modules, for every value of the constants, whose
hypothesis (`SellerTertib`, `KurirTertib`, `KlienTertib`) is the value the run gives that constant.
For `Media` and `Relasi` they are theorems about `Spec` itself, without the narrowing of the MC
modules (one table or one group of tables at a time, few rows), so they do not rest on it; only the
shop that `InitToko` starts from is a state that `Spec` reaches by requests instead.

They rest on the named assumptions about the constants (`ReservasiAssumption`,
`PesananAssumption`, `SiklusAssumption`, `KurirAssumption`, `MediaAssumption`,
`BarangSellerAssumption`, `RelasiAssumption`, `TampilanAssumption`: naturals, finitely many requests, the kinds of the
sets) and on nothing else. TLC evaluates the assumptions on every run.

The arguments, each an inductive invariant that was found by asking which local variables of a
request may be trusted at its write:

* `PemegangKonsisten` needs of a running checkout or payment only that it acts for a buyer, not for
  `TanpaPengguna`; every write changes status and holder together.
* `TerjualMilikPembeli` is inductive with `TypeOK`: the units that a payment sells are held by the
  buyer of the bill, and rows of `transaksi` are only appended. A later checkout that takes a sold
  unit over makes it `Dipesan` again, so the property survives what `TerjualTetap` does not.
* `BayarSekali` and `LunasAtauGagal` need that `pembayaran` contains the code of every row of both
  tables, and that bills have distinct codes: the UNIQUE column then separates the two actions.
* `TerbitSetelahKomit` needs that the ids a goroutine still has to announce are rows.
* The orderly client of `Reservasi`: every open answer, bill, and running cancellation or Snap
  owns the units its order names, and no unit has two owners (`Pemilik`). So what a checkout held
  is still held when its bill is cancelled or paid; the counter of a category moves with its units.
  Units sold for a line are counted through `Cardinality` of the owned sets, line by line.
* `AmbangSeimbang` needs the existence of the row a request has chosen (the last conjunct of
  `TypeOK`). It compares sums over the rows of a seller, as `AmbangTertib` does: `JumlahProofs`
  shows by induction through a least counterexample how a sum over a finite set or a sequence
  moves when one value changes, one is added, or the set is split.
* The refinement of `PesananSeller` needs that an order a request is about is in the status it
  was read in, which holds as there is at most one request per order.
* The composition `SiklusPesanan`: the couriers' theorems hold of `KurirPengiriman` whose orders are
  seen through `StatusTampak`, the status of an order once its delivery row is committed, for a
  step of the seller is then a stutter or the birth of a delivery. `PesananSellerProofs` instantiates
  them and adds only what relates the two sides.
* `TercatatTerbayar`: an arrival is about one delivery and writes only when all its recipients are
  in `sah`, the calls Flip accepted in this very request (`ProsesJelas`). A running arrival so holds
  a payment back that it may still save (`Dipegang`), and saved payouts together with held payments
  are no more than the payments (`Bayaran`). Every step keeps this: a call raises both sides, the
  save moves one from held to saved, an abort only lowers. Counting the holders needs finitely
  many requests.
* `TidakHilang`: what is under way, counting requests that are about to say so, is scheduled or
  paid out (`Terbawa`); only the save deletes a scheduler row.
* The orderly courier (`TertibInv`): a courier has one request at a time (`Eksklusif`) and one bid,
  so nobody else changes what a request has read on its bid (`ProsesTertib`, with `Dibaca` for the
  rows and `SatuBerjalan` for `final`): when the rows were counted to be one, every other row that
  comes onto the bid is still `Wait` when the arrival puts the bid back to `Mengumpulkan`. Other
  couriers' writes touch other bids (`AlurTulis`). The stories then follow one by one, and with
  them that each write finds the order in the status the enum asks for.
* `MediaProofs`: each of the 54 handlers begins with a request of the same shape (`Awal`), so that
  the steps are proved once per form. `TidakMenggantungDokumen` needs that no two rows ever had one
  key (`KunciUnik`) and that a file a request is about to remove is the file of the row it holds,
  or of no row any more (`Pegang`): a row that was given a new key meanwhile has left the old file
  behind. The list that is refused after its files are gone (`buangTolak`) is no document, which
  is why the theorem is about documents.
* The owner of `Media` who waits: while a request runs there is no goroutine and no upload
  (`Sendiri`), so what it has read is true of the rows until it writes (`Segar`): the row it
  replaces is there, the owner has none where one is to be made, and room for those it adds
  (`BatasInv`). A file in the bucket or still to be uploaded has its row (`YatimInv`), because a
  row gives its key up only after its file was removed (`Terbuang`).
* `HitungBenar`: for each owner and table the counter together with the rows that goroutines will
  still add (`Kiri`) is at most the rows together with those that goroutines will still subtract
  (`Kanan`), and equal for an owner who waits. Both sides count pairs of a goroutine and a row
  (`Pasangan`); a write moves them by the cardinality of the rows written, a goroutine by that of the
  rows it is about. Two overlapping deletions of one row raise only the right side, which is why the
  counter may fall behind but never runs ahead.
* `SalinanTertib`: there is one goroutine at most and what it will tell is true; of all other rows
  what was told is true (`SalinanSegar`).
* `AsalTerdaftar` needs that a request that is about to change the original of a product still
  names a category of that product when it writes (`Terbaca`). Rows keep their product for ever
  and ids are not used again, so no step in between can spoil what was read (`Menetap`). The flag
  is never taken away from the old original, which is also why two such requests cannot leave the
  product with an unflagged one.
* The orderly seller of `BarangSeller`: at most one request or goroutine is under way (`Tunggal`),
  so the product, category and units a request has read are as it read them when it writes
  (`YatimInv`, `UnitTerbaca`). Checkouts are not bound by this, and need not be: they never bring
  a deleted unit or category back. `StokTidakLebih` compares the stock with the cardinality of the
  units read, deleted or appended.
* `AmbangTertib`: between a write and its goroutine the counters are behind, so the invariant
  (`AmbangInv`) speaks of the tables that the goroutine will make (`Hasil`); each write is shown to
  leave a goroutine that makes the right ones. A product's row has the product's own id as its
  place, which is what makes `BarangIndukThreshold` hit the right row.
* `TampilanKekal` adds views over maps, channel, goroutines and columns; every step moves them from
  one place to the next, and the sums over places move by the same amount. `BatasBatch` needs that
  a map has no more views than its `Limit`, which a tick leaves behind when it empties the map.
* `RelasiProofs` reduces every handler, the bill and the order to one shape: a request that holds
  a row to make, to delete or to rename, accounts to flag or categories to add, move or delete
  (`Awal`, `Minta`), and a goroutine whose changes match it (`Hitungan`). The counter of a
  threshold row that is not there is zero (`AmbangInv`), and nothing refers to a row that was
  not made. What a search found is still true at the write if its owner waits (`Segar`,
  `Sendiri`), so nothing is there twice and the limits hold (`TertibInv`).
* `HitungTertib` of people: a counter and what goroutines will add to it are together at most the
  rows, and exactly the rows for owners who wait (`OrangInv`). A write that makes a row moves
  both sides by one; a second deletion of one row lowers only the counter.
* `HitungTertib` of products, showcases and discounts, which are in arrears when their threshold
  row is not there: for owners who wait the one goroutine there may be settles every counter
  (`Melunasi` in `RujukInv`), also that of a new product whose threshold row it makes itself, and
  that of a product whose categories all go at once.
* `RujukanTertib` follows from `Segar`: a warehouse about to be deleted or changed is in no open
  order and, if deleted, in no category; the warehouse or account that categories are about to
  be moved to is there and their seller's; the steps are then taken one by one (`Terjaga`). What
  others do with the same rows is excluded by `Sendiri` only.

Every safety invariant and every action property that a passing run checks is proved. Only
model-checked: liveness (`PermintaanSelesai`, `TampilanSampai`), which is beyond the prover, and
the five disagreements, each by its counterexample.

## 7. What is left

1. Login, registration and passwords: codes in Redis with an expiry. They need a clock; the
   hazard is listed.
2. `HargaTransaksi`: the amounts of `SnapTransaksi` as operators, compared with what
   `LockTransaksi` and the payouts use.

## 8. Not modelled

Every part is listed in `PROJECT.json` under `components` with the reason. In short:

* Login, registration, passwords, PIN and sessions: codes and rows of one person that no other
  handler decides on, with an expiry that a model would have to carry through every state. Of
  sessions only the stale answer enters a model (`AktifkanBidKurir`).
* Wishlist: `TambahWishlist` refuses every request (`Take` is an error when there is no row), so the
  service never leaves its initial state.
* Profiles, social media and the edits of prices, dates, comments, names of categories and other
  texts: one row, read by no decision of another handler. Edits of names that a search for
  duplicates reads are modelled (`GantiBaca`).
* The payout callback: it writes one status column that nobody reads.
* Amounts: they pass through the handlers without a decision that depends on them.
* Routes, process start, migrations, helpers and payload types have no behaviour of their own; the
  rate limiter and the request filter are commented out in `initialize.go`.
* Message consumers, the search side, Midtrans, Flip, MinIO, the route and shipping services and
  the automatic scheduler are outside the repository and appear only as the actions named above.
