SPECIFICATION SpecTiga
CONSTANTS
  t1 = t1
  t2 = t2
  t3 = t3
  s1 = s1
  s2 = s2
  p1 = p1
  p2 = p2
  k1 = k1
  q1 = q1
  Transaksi = {t1, t2, t3}
  Seller = {s1, s2}
  SellerDari <- TigaOrder
  Proses = {p1, p2}
  MaxAmbang = 2
  MaxLatar = 1
  MaxTerbit = 1
  SellerTertib = TRUE
  Ekspedisi = {t3}
  Kurir = {k1}
  ProsesKurir = {q1}
  MaxSlot = 1
  BatasKunci = 8
  MaxBid = 1
  MaxBayar = 1
  MaxJejak = 2
PROPERTIES BatalHanyaDibayar
CHECK_DEADLOCK FALSE
