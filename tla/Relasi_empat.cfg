SPECIFICATION SpecEmpat
CONSTANTS
  Pengguna = {1}
  Seller = {11}
  Kurir = {21}
  Nama = {1, 2}
  Proses = {p1, p2}
  Batas = 1
  MaxBaris = 9
  MaxLatar = 2
SYMMETRY Simetri
INVARIANTS TypeOK  
PROPERTIES RujukanTertib
CHECK_DEADLOCK FALSE
