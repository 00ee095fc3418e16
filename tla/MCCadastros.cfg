SPECIFICATION Spec
CONSTANTS Pedidos = {r1, r2}
  MaxSenha = 2
  MaxSessao = 2
  MaxSegundo = 2
  Solicitantes = {r1, r2}
  MaxLink = 3
  MaxUso = 2
  Canais = {c1}
  Bots = {b1, b2, b3}
  Setores = {s1, s2}
  BotsDeSaida = {b3}
  Requisicoes = {r1, r2}
  MaxRequisicoes = 2
  SemValor = SemValor
  Compromissos = {a1, a2}
  Donos = {s1, s2}
  Solicitacoes = {r1, r2}
  Rodadas = {r1, r2}
  Antecedencia = 2
  MaxMinuto = 3
  MaxSolicitacao = 2
  MaxFalha = 1
  Lados = {u1, u2}
  Envios = {r1, r2}
  MaxMensagem = 3
  MaxQueda = 1
  Pessoas = {s1, s2}
  Sockets = {r1, r2}
  MaxConexao = 4
SYMMETRY Simetria
CHECK_DEADLOCK FALSE
INVARIANTS SessaoVelhaSoPorCorrida TrocadoSoServeDuplicado SetorForaSoPorDescuido CanalCoerente
  AgendaConfere ConversaConfere PresencaConfere
PROPERTIES LinkGastoSoPorCorrida PonteiroSoPorPublicacao
