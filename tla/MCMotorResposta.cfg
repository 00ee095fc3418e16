SPECIFICATION Spec
CONSTANTS
  Fase = "entrada"
  MaxEsperas = 1
  MaxFalhas = 0
  MaxQuedas = 0
  MaxPerdas = 0
  Nada = Nada
INVARIANT PrazoNaoUltrapassaResposta
CHECK_DEADLOCK FALSE
