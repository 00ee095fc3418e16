SPECIFICATION SpecInatividade
CONSTANTS Atendimentos = {1}
  Passadas = {k1}
  ResolverEm = 3
  AvisarAntes = 1
  MaxAgora = 10
  MaxDemora = 3
  MaxDesvio = 1
CHECK_DEADLOCK FALSE
PROPERTIES AvisoPrevio
