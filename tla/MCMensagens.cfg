SPECIFICATION Spec
CONSTANTS
  ana = ana
  bia = bia
  Autores <- MCAutores
  Relatos <- MCRelatos
  FalhasEnvio = 0
  FalhasWebhook = 1
  Nada = Nada
PROPERTIES PosicaoFixa EcoNaoRedecide EditadaNaoApagada ReacoesDosOutros TravaDeQuemPegou
  Registrada
CHECK_DEADLOCK FALSE

