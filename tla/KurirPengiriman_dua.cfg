SPECIFICATION SpecDua
CONSTANTS
  d1 = d1
  d2 = d2
  d3 = d3
  k1 = k1
  k2 = k2
  p1 = p1
  p2 = p2
  Pengiriman = {d1, d2, d3}
  Ekspedisi = {d3}
  Kurir = {k1, k2}
  Proses = {p1, p2}
  MaxSlot = 2
  BatasKunci = 2
  MaxBid = 2
  MaxBayar = 1
  MaxJejak = 2
  KurirTertib = TRUE
SYMMETRY Simetri
INVARIANTS TypeOK TercatatTerbayar TidakHilang JadwalTertib BidTertib
PROPERTIES SiklusTertib
CHECK_DEADLOCK FALSE
