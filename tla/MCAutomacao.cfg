SPECIFICATION MCSpec
CONSTANTS
  ana = ana
  vendas = vendas
  suporte = suporte
  r1 = r1
  r2 = r2
  c1 = c1
  Conversas <- MCConversas
  Atendentes <- MCAtendentes
  Masters <- MCMasters
  Setores <- MCSetores
  SetoresDe <- MCSetoresDe
  VeOutros <- MCVeOutros
  SetorPadrao = vendas
  Requisicoes <- MCRequisicoes
  Chaves <- MCChaves
  FluxoEntrada = TRUE
  FluxoSaida = TRUE
  Ninguem = Ninguem
  Livre = Livre
  Atendimentos = {1}
  Passadas = {k1, k2}
  ResolverEm = 4
  AvisarAntes = 2
  MaxAgora = 16
  MaxDemora = 3
  MaxDesvio = 1
SYMMETRY Simetria
CHECK_DEADLOCK FALSE
INVARIANTS UmAvisoPorSilencio
PROPERTIES HumanoPrevalece SegueAConducao FechaSoDepoisDoAviso
