SPECIFICATION Spec
CONSTANTS
  Fase = "entrada"
  MaxEsperas = 1
  MaxFalhas = 1
  MaxQuedas = 1
  MaxPerdas = 1
  Nada = Nada
PROPERTIES
  SegueODialogo
  SegueAConducao
  RespostaRetomada
  PrazoRetomado
CHECK_DEADLOCK FALSE
