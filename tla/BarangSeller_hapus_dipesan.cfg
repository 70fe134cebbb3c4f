SPECIFICATION Spec
CONSTANTS
  Proses = {p1}
  Pembeli = {q1}
  StokMasukan = {1}
  StokAwal = {1}
  MaxBarang = 1
  MaxKategori = 1
  MaxVarian = 2
  MaxLatar = 1
  MaxAmbang = 2
  SellerTertib = TRUE
PROPERTIES HapusTanpaTransaksi
CHECK_DEADLOCK FALSE
