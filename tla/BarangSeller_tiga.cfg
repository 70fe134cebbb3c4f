SPECIFICATION SpecTiga
CONSTANTS
  Proses = {p1, p2}
  Pembeli = {q1, q2}
  StokMasukan = {0, 1, 2}
  StokAwal = {1, 2}
  MaxBarang = 2
  MaxKategori = 3
  MaxVarian = 3
  MaxLatar = 1
  MaxAmbang = 2
  SellerTertib = TRUE
SYMMETRY Simetri
INVARIANTS TypeOK AsalTerdaftar TanpaYatimTertib StokTertib AmbangTertib
CHECK_DEADLOCK FALSE
