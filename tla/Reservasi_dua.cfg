SPECIFICATION SpecDua
CONSTANTS
  u1 = u1
  u2 = u2
  k1 = k1
  k2 = k2
  v1 = v1
  v2 = v2
  v3 = v3
  c1 = c1
  c2 = c2
  p1 = p1
  p2 = p2
  Pengguna = {u1, u2}
  Kategori = {k1, k2}
  Varian = {v1, v2, v3}
  KategoriDari <- TigaVarian
  Kode = {c1, c2}
  Proses = {p1, p2}
  Metode = {"va", "wallet", "gerai"}
  KeranjangAwal = {}
  MaxItem = 2
  MaxJumlah = 2
  MaxStok = 4
  MaxTerbit = 0
  TanpaPengguna = TanpaPengguna
  KlienTertib = TRUE
SYMMETRY Simetri
INVARIANTS TypeOK PemegangKonsisten TerjualMilikPembeli BayarSekali LunasAtauGagal TerbitSetelahKomit StokTertib UnitTertib
PROPERTIES TerjualTetapTertib
CHECK_DEADLOCK FALSE
