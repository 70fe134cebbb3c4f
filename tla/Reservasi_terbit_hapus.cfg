SPECIFICATION SpecSatu
CONSTANTS
  u1 = u1
  u2 = u2
  k1 = k1
  k2 = k2
  v1 = v1
  v2 = v2
  v3 = v3
  c1 = c1
  c2 = c2
  p1 = p1
  p2 = p2
  Pengguna = {u1}
  Kategori = {k1}
  Varian = {v1, v2}
  KategoriDari <- SatuKategori
  Kode = {c1, c2}
  Proses = {p1}
  Metode = {"va"}
  KeranjangAwal <- SatuKeranjang
  MaxItem = 1
  MaxJumlah = 1
  MaxStok = 2
  MaxTerbit = 1
  TanpaPengguna = TanpaPengguna
  KlienTertib = FALSE
INVARIANTS HapusSetelahSelesai
CHECK_DEADLOCK FALSE
