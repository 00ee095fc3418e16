SPECIFICATION Spec
CONSTANTS Origens = {"nova", "primeira_agenda"}
  Contas = {u1}
  Grupos = {g1, g2}
  Permissoes = {p1}
  Guardas = {q1}
  Editores = {e1, e2}
  Validade = 2
  MaxEdicao = 3
  Chamadas = {c1, c2, c3}
  MaxConexoes = 3
  Formularios = {f1, f2}
  MaxChave = 4
  MaxFormulario = 2
  MaxEnvio = 3
  TamanhoLote = 2
  MaxFalha = 1
CHECK_DEADLOCK FALSE
INVARIANTS EsquemaDoNivel ReversaoSoParaNaAgenda AplicacaoServida CacheAtrasaAValidade FaltamSoAsDeUsuarios
  AnexoSomeSoPorEdicao
PROPERTIES TodaChamadaAcaba VencidaExpira
