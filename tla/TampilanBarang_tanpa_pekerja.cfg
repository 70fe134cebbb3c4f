SPECIFICATION Spec
CONSTANTS
  b1 = b1
  b2 = b2
  p1 = p1
  p2 = p2
  Barang = {b1, b2}
  Proses = {p1, p2}
  Batas = 2
  Kapasitas = 1
  MaxTampil = 5
  PekerjaJalan = FALSE
PROPERTIES PermintaanSelesai
CHECK_DEADLOCK FALSE
