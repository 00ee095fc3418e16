SPECIFICATION Spec
CONSTANTS
  Fase = "saida"
  MaxEsperas = 1
  MaxFalhas = 2
  MaxQuedas = 1
  MaxPerdas = 0
  Nada = Nada
INVARIANT NaoRepeteEnvio
PROPERTIES ChatLiberado InicioRecuperado
CHECK_DEADLOCK FALSE
