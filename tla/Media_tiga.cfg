SPECIFICATION SpecTiga
CONSTANTS
  Jenis <- SemuaJenis
  Pemilik = {1}
  Proses = {p1, p2}
  Batas = 2
  MaxBaris = 3
  MaxKunci = 4
  MaxLatar = 2
SYMMETRY Simetri
INVARIANTS TypeOK HitungBenar BerkasTertib SalinanTertib TidakMenggantungSelang
PROPERTIES TetapTerhapus
CHECK_DEADLOCK FALSE
