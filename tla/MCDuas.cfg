SPECIFICATION Spec
CONSTANTS
  ana = ana
  vendas = vendas
  r1 = r1
  c2 = c2
  c1 = c1
  Conversas <- MCConversas
  Atendentes <- MCAtendentes
  Masters <- MCMasters
  Setores <- MCSetores
  SetoresDe <- MCSetoresDe
  VeOutros <- MCVeOutros
  SetorPadrao = vendas
  Requisicoes <- MCRequisicoes
  Chaves <- MCChaves
  FluxoEntrada = TRUE
  FluxoSaida = TRUE
  Ninguem = Ninguem
  Livre = Livre
INVARIANTS BancoConsistente
PROPERTIES SegueOCicloDeVida
