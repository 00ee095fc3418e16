SPECIFICATION SpecConexoes
CONSTANTS Chamadas = {c1, c2}
  MaxConexoes = 3
INVARIANT SondaAchaConexao
