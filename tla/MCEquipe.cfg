SPECIFICATION MCSpec
CONSTANTS
  ana = ana
  bia = bia
  vendas = vendas
  suporte = suporte
  r1 = r1
  r2 = r2
  c1 = c1
  Conversas <- MCConversas
  Atendentes <- MCAtendentes
  Masters <- MCMasters
  Setores <- MCSetores
  SetoresDe <- MCSetoresDe
  VeOutros <- MCVeOutros
  SetorPadrao = vendas
  Requisicoes <- MCRequisicoes
  Chaves <- MCChaves
  FluxoEntrada = FALSE
  FluxoSaida = FALSE
  Ninguem = Ninguem
  Livre = Livre
  Operadores = {o1, o2}
  Telefones = {t1, t2}
  Inicios = 3
  Pedidos = 3
  Quedas = 1
  Perdas = 1
  Nenhum = Nenhum
SYMMETRY Simetria
CHECK_DEADLOCK FALSE
INVARIANTS QuietoEstaCerto InstanciaSoDoCanal
PROPERTIES EntregaSoPorTransferencia AssumeNoSetorConferido
