SPECIFICATION Spec
CONSTANTS
  Pengiriman = {d1}
  Ekspedisi = {}
  Kurir = {k1}
  Proses = {p1, p2}
  MaxSlot = 1
  BatasKunci = 8
  MaxBid = 1
  MaxBayar = 2
  MaxJejak = 2
  KurirTertib = FALSE
PROPERTIES SelesaiTetap
CHECK_DEADLOCK FALSE
