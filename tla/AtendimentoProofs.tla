--------------------------- MODULE AtendimentoProofs ---------------------------
(* Type correctness and safety of Atendimento for every set of protocols,         *)
(* attendants, departments and requests in flight, whatever flows exist and       *)
(* whatever switches are flipped.                                                 *)
EXTENDS Atendimento, TLAPS

\* The conditions of the WHERE clauses are plain abbreviations.
USE DEF EsperaNoSetor, AindaDoDono, StatusDe, NinguemAssumiu, ComOBot, EmAndamento

USE ConstantesDoAtendimento

--------------------------------------------------------------------------------
(* Rows and executions: what each UPDATE writes is again a row *)

LEMMA LinhasTipadas ==
  /\ LinhaAusente \in Linha
  /\ \A s \in Setores : LinhaNova(s) \in Linha
  /\ \A l \in Linha, u \in Atendentes : Assume(l, u) \in Linha
  /\ \A l \in Linha, st \in Status : Encerra(l, st) \in Linha
  /\ \A l \in Linha, st \in Status : EncerraNaoAssumido(l, st) \in Linha
<1>1. LinhaAusente \in Linha /\ \A s \in Setores : LinhaNova(s) \in Linha
  <2>1. LinhaAusente \in Linha
    BY DEF LinhaAusente, Linha, Status, Donos
  <2>2. ASSUME NEW s \in Setores PROVE LinhaNova(s) \in Linha
    BY <2>1 DEF LinhaNova, Linha, Status, NaoAssumidos
  <2> QED
    BY <2>1, <2>2
<1>2. \A l \in Linha, u \in Atendentes : Assume(l, u) \in Linha
  BY DEF Linha, Assume, Status, Donos
<1>3. \A l \in Linha, st \in Status : Encerra(l, st) \in Linha
  BY DEF Linha, Encerra, Finais
<1>4. \A l \in Linha, st \in Status : EncerraNaoAssumido(l, st) \in Linha
  BY <1>3 DEF Linha, EncerraNaoAssumido, Encerra, NaoAssumidos, Finais
<1> QED
  BY <1>1, <1>2, <1>3, <1>4

LEMMA LinhasEditadas ==
  ASSUME NEW l \in Linha
  PROVE  /\ \A b \in BOOLEAN : [l EXCEPT !.pausada = b] \in Linha
         /\ \A b \in BOOLEAN : [l EXCEPT !.pos = b] \in Linha
         /\ \A st \in Status : [l EXCEPT !.status = st] \in Linha
         /\ \A s \in Setores : [l EXCEPT !.setor = s] \in Linha
BY DEF Linha

\* The row Transferir writes, and the one EncaminharPorChatbot writes.
LEMMA LinhasPassadas ==
  ASSUME NEW l \in Linha, NEW u \in Donos, NEW s \in Setores
  PROVE  /\ [l EXCEPT !.dono = u, !.setor = s, !.pausada = FALSE, !.esperando = (u = Ninguem),
                      !.status = StatusDe(u)] \in Linha
         /\ [l EXCEPT !.setor = s, !.dono = u,
                      !.status = StatusDe(u),
                      !.esperando = (u = Ninguem),
                      !.respondida = @ \/ u # Ninguem] \in Linha
BY DEF Linha, Status, NaoAssumidos

LEMMA StatusUsados ==
  /\ "AGUARDANDO" \in Status /\ "EM_FILA" \in Status
  /\ "FINALIZADO_SEM_RESPOSTA" \in Status /\ "FINALIZADO" \in Status
  /\ "FINALIZADO_POR_INATIVIDADE" \in Status /\ "FINALIZADO_PELO_CHATBOT" \in Status
BY DEF Status, NaoAssumidos, Finais

LEMMA ExecucoesTipadas ==
  ASSUME NEW x \in [Fases -> EstadosExecucao]
  PROVE  /\ Abortadas(x) \in [Fases -> EstadosExecucao]
         /\ ComSaidaIniciada(x) \in [Fases -> EstadosExecucao]
BY DEF Abortadas, ComSaidaIniciada, Fases, EstadosExecucao, Vivas

LEMMA TabelasTipadas ==
  ASSUME TypeOK, NEW c \in Conversas
  PROVE  conversa[c] \in Linha /\ execucao[c] \in [Fases -> EstadosExecucao]
BY DEF TypeOK

\* Writing one row and, possibly, its executions.
LEMMA GravacaoTipada ==
  ASSUME TypeOK, NEW c \in Conversas,
         conversa' = conversa \/ \E l \in Linha : Grava(c, l),
         \/ execucao' = execucao
         \/ \E x \in [Fases -> EstadosExecucao] : execucao' = [execucao EXCEPT ![c] = x]
  PROVE  /\ conversa' \in [Conversas -> Linha]
         /\ execucao' \in [Conversas -> [Fases -> EstadosExecucao]]
BY DEF TypeOK, Grava

--------------------------------------------------------------------------------
(* Type correctness *)

LEMMA TipoInicial == Init => TypeOK
BY LinhasTipadas DEF Init, TypeOK, Fases, EstadosExecucao

\* A reading only adds the request it makes.
LEMMA LeituraChega ==
  ASSUME TypeOK, Leitura
  PROVE  \E r \in Requisicoes, p \in Pedido : Chega(r, p)
<1>1. PICK r \in Requisicoes, u \in Atendentes :
        \/ LeCriar(r, u)
        \/ \E c \in Conversas :
             \/ ValidarAcesso(r, u, c) \/ LePausar(r, u, c) \/ LeRetomar(r, u, c)
             \/ LeFinalizar(r, u, c) \/ LeTransferir(r, u, c)
  BY DEF Leitura
<1>2. \A c \in Conversas, op \in Operacoes : NovoPedido(op, u, c) \in Pedido
  BY DEF TypeOK, NovoPedido, Pedido, Linha, Donos
<1>3. CASE LeCriar(r, u)
  BY <1>2, <1>3 DEF LeCriar, Pedido, Operacoes
<1>4. CASE \E c \in Conversas : LeTransferir(r, u, c)
  <2>1. PICK c \in Conversas, destino \in Donos, setor \in Setores :
          Chega(r, [NovoPedido("transferir", u, c) EXCEPT !.destino = destino, !.setor = setor])
    BY <1>4 DEF LeTransferir
  <2>2. NovoPedido("transferir", u, c) \in Pedido
    BY <1>2 DEF Operacoes
  <2>3. \A p \in Pedido : [p EXCEPT !.destino = destino, !.setor = setor] \in Pedido
    BY DEF Pedido
  <2> QED
    BY <2>1, <2>2, <2>3
<1>5. CASE \E c \in Conversas :
             \/ ValidarAcesso(r, u, c) \/ LePausar(r, u, c) \/ LeRetomar(r, u, c)
             \/ LeFinalizar(r, u, c)
  BY <1>2, <1>5 DEF ValidarAcesso, LePausar, LeRetomar, LeFinalizar, Operacoes
<1> QED
  BY <1>1, <1>3, <1>4, <1>5

LEMMA TipoNaLeitura == TypeOK /\ Leitura => TypeOK'
<1> SUFFICES ASSUME TypeOK, Leitura PROVE TypeOK'
  OBVIOUS
<1>1. PICK r \in Requisicoes, p \in Pedido : Chega(r, p)
  BY LeituraChega
<1> QED
  BY <1>1 DEF Chega, TypeOK, TabelasIguais, SoOPedido

\* The handler's own reading moves one request on, or ends it, and touches no table.
LEMMA ReleituraSegue ==
  ASSUME TypeOK, Releitura
  PROVE  /\ TabelasIguais /\ SoOPedido
         /\ \E r \in Requisicoes :
              /\ pedido[r] # Livre /\ pedido[r].op = "validado"
              /\ \E p \in Pedido \cup {Livre} :
                   /\ p # Livre => /\ p.op \in {"iniciar", "descartar"}
                                  /\ p.quem = pedido[r].quem /\ p.dono = pedido[r].dono
                                  /\ p.visto = pedido[r].visto
                   /\ pedido' = [pedido EXCEPT ![r] = p]
<1>1. PICK r \in Requisicoes, op \in {"iniciar", "descartar"} : LeNaoAssumido(r, op)
  BY DEF Releitura, LeIniciar, LeDescartar
<1> DEFINE q == pedido[r]
           l == conversa[q.conversa]
           p == IF l.status \in NaoAssumidos THEN [q EXCEPT !.op = op, !.setor = l.setor] ELSE Livre
<1>2. q \in Pedido /\ q # Livre /\ q.op = "validado"
  BY <1>1 DEF LeNaoAssumido, TypeOK
<1>3. l.setor \in Setores
  BY <1>2, TabelasTipadas DEF Pedido, Linha
<1>4. p \in Pedido \cup {Livre}
  BY <1>2, <1>3 DEF Pedido, Operacoes
<1>5. p # Livre => /\ p.op \in {"iniciar", "descartar"}
                  /\ p.quem = q.quem /\ p.dono = q.dono /\ p.visto = q.visto
  BY <1>2 DEF Pedido
<1>6. TabelasIguais /\ SoOPedido /\ pedido' = [pedido EXCEPT ![r] = p]
  BY <1>1 DEF LeNaoAssumido
<1> QED
  BY <1>2, <1>4, <1>5, <1>6

LEMMA TipoNaReleitura == TypeOK /\ Releitura => TypeOK'
BY ReleituraSegue DEF TypeOK, TabelasIguais, SoOPedido

\* What a request holds when it comes to write.
LEMMA PedidoEmMaos ==
  ASSUME TypeOK, NEW r \in Requisicoes, NEW op, Executa(r, op)
  PROVE  LET p == pedido[r]
         IN /\ p \in Pedido /\ p.conversa \in Conversas /\ p.quem \in Atendentes
            /\ p.setor \in Setores /\ p.destino \in Donos
BY DEF TypeOK, Executa, Pedido

LEMMA TipoNaGravacao == TypeOK /\ Gravacao => TypeOK'
<1> SUFFICES ASSUME TypeOK, NEW r \in Requisicoes,
                    \/ Assumir(r) \/ Pausar(r) \/ Retomar(r) \/ Finalizar(r) \/ AutorizarSaida(r)
                    \/ FinalizarComFluxoSaida(r) \/ Transferir(r)
                    \/ FinalizarSemAtendimento(r) \/ CriarNova(r)
             PROVE  TypeOK'
  BY DEF Gravacao
<1> DEFINE p == pedido[r]
           l == conversa[p.conversa]
           x == execucao[p.conversa]
           Tabelas == /\ conversa' \in [Conversas -> Linha]
                      /\ execucao' \in [Conversas -> [Fases -> EstadosExecucao]]
<1>a. ASSUME NEW op, Executa(r, op)
      PROVE  /\ p.conversa \in Conversas /\ p.quem \in Atendentes
             /\ p.setor \in Setores /\ p.destino \in Donos
             /\ l \in Linha /\ x \in [Fases -> EstadosExecucao]
             /\ Abortadas(x) \in [Fases -> EstadosExecucao]
             /\ ComSaidaIniciada(x) \in [Fases -> EstadosExecucao]
  BY <1>a, PedidoEmMaos, TabelasTipadas, ExecucoesTipadas
<1>b. ASSUME Responde(r), Tabelas PROVE TypeOK'
  BY <1>b DEF TypeOK, Responde, SoOPedido
<1>1. CASE Assumir(r)
  <2>1. Assume(l, p.quem) \in Linha
    BY <1>1, <1>a, LinhasTipadas DEF Assumir
  <2>2. Tabelas
    BY <1>1, <1>a, <2>1, GravacaoTipada DEF Assumir, TabelasIguais
  <2> QED
    BY <1>1, <1>b, <2>2 DEF Assumir
<1>2. CASE Pausar(r)
  <2>1. [l EXCEPT !.pausada = TRUE] \in Linha
    BY <1>2, <1>a, LinhasEditadas DEF Pausar
  <2>2. Tabelas
    BY <1>2, <1>a, <2>1, GravacaoTipada DEF Pausar
  <2> QED
    BY <1>2, <1>b, <2>2 DEF Pausar
<1>3. CASE Retomar(r)
  <2>1. [l EXCEPT !.pausada = FALSE] \in Linha
    BY <1>3, <1>a, LinhasEditadas DEF Retomar
  <2>2. Tabelas
    BY <1>3, <1>a, <2>1, GravacaoTipada DEF Retomar
  <2> QED
    BY <1>3, <1>b, <2>2 DEF Retomar
<1>4. CASE Finalizar(r)
  <2>1. Encerra(l, "FINALIZADO") \in Linha
    BY <1>4, <1>a, LinhasTipadas, StatusUsados DEF Finalizar
  <2>2. Tabelas
    BY <1>4, <1>a, <2>1, GravacaoTipada DEF Finalizar
  <2> QED
    BY <1>4, <1>b, <2>2 DEF Finalizar
<1>5. CASE AutorizarSaida(r)
  <2>1. \A q \in Pedido : [q EXCEPT !.op = "saidaAutorizada"] \in Pedido
    BY DEF Pedido, Operacoes
  <2>2. p \in Pedido
    BY <1>5, PedidoEmMaos DEF AutorizarSaida
  <2> QED
    BY <1>5, <2>1, <2>2 DEF AutorizarSaida, TypeOK, TabelasIguais, SoOPedido
<1>6. CASE FinalizarComFluxoSaida(r)
  <2>1. [Encerra(l, "FINALIZADO") EXCEPT !.pos = TRUE] \in Linha
    BY <1>6, <1>a, LinhasTipadas, LinhasEditadas, StatusUsados DEF FinalizarComFluxoSaida
  <2>2. Tabelas
    BY <1>6, <1>a, <2>1, GravacaoTipada DEF FinalizarComFluxoSaida, TabelasIguais
  <2> QED
    BY <1>6, <1>b, <2>2 DEF FinalizarComFluxoSaida
<1>7. CASE Transferir(r)
  <2> DEFINE nova == [l EXCEPT !.dono = p.destino, !.setor = p.setor, !.pausada = FALSE,
                         !.esperando = (p.destino = Ninguem),
                         !.status = StatusDe(p.destino)]
  <2>1. nova \in Linha
    BY <1>7, <1>a, LinhasPassadas DEF Transferir
  <2>2. conversa' = conversa \/ Grava(p.conversa, nova)
    BY <1>7 DEF Transferir
  <2> HIDE DEF nova
  <2>3. Tabelas
    BY <1>7, <1>a, <2>1, <2>2, GravacaoTipada DEF Transferir
  <2> QED
    BY <1>7, <1>b, <2>3 DEF Transferir
<1>8. CASE FinalizarSemAtendimento(r)
  <2>1. EncerraNaoAssumido(l, "FINALIZADO_SEM_RESPOSTA") \in Linha
    BY <1>8, <1>a, LinhasTipadas, StatusUsados DEF FinalizarSemAtendimento
  <2>2. Tabelas
    BY <1>8, <1>a, <2>1, GravacaoTipada DEF FinalizarSemAtendimento, TabelasIguais
  <2> QED
    BY <1>8, <1>b, <2>2 DEF FinalizarSemAtendimento
<1>9. CASE CriarNova(r)
  <2>1. Assume(LinhaNova(p.setor), p.quem) \in Linha
    BY <1>9, <1>a, LinhasTipadas DEF CriarNova
  <2>2. Tabelas
    BY <1>9, <2>1, GravacaoTipada DEF CriarNova
  <2> QED
    BY <1>9, <1>b, <2>2 DEF CriarNova
<1> QED
  BY <1>1, <1>2, <1>3, <1>4, <1>5, <1>6, <1>7, <1>8, <1>9

LEMMA TipoNoWebhook ==
  TypeOK /\ (ReceberMensagem \/ DecidirAcaoDoChatbot \/ AbrirConversa) => TypeOK'
<1> SUFFICES ASSUME TypeOK, ReceberMensagem \/ DecidirAcaoDoChatbot \/ AbrirConversa
             PROVE  TypeOK'
  OBVIOUS
<1>1. CASE ReceberMensagem
  BY <1>1 DEF ReceberMensagem, TypeOK, TabelasIguais, AberturaPendente
<1>2. CASE DecidirAcaoDoChatbot
  <2>1. \A w \in AberturaPendente, b \in BOOLEAN :
          [w EXCEPT !.decidida = TRUE, !.comFluxo = b] \in AberturaPendente
    BY DEF AberturaPendente
  <2>2. webhook \in AberturaPendente
    BY <1>2 DEF DecidirAcaoDoChatbot, TypeOK
  <2>3. webhook' \in AberturaPendente
    BY <1>2, <2>1, <2>2 DEF DecidirAcaoDoChatbot
  <2> QED
    BY <1>2, <2>3 DEF DecidirAcaoDoChatbot, TypeOK, TabelasIguais
<1>3. CASE AbrirConversa
  <2>1. PICK c \in Conversas :
          /\ Grava(c, [LinhaNova(SetorPadrao) EXCEPT
                         !.status = IF webhook.comFluxo THEN "EM_FILA" ELSE "AGUARDANDO"])
          /\ execucao' = [execucao EXCEPT ![c]["entrada"] =
                             IF webhook.comFluxo THEN "running" ELSE @]
    BY <1>3 DEF AbrirConversa
  <2>2. conversa' \in [Conversas -> Linha]
    BY <2>1, LinhasTipadas, LinhasEditadas, StatusUsados, ConstantesDoAtendimento DEF TypeOK, Grava
  <2>3. execucao' \in [Conversas -> [Fases -> EstadosExecucao]]
    BY <2>1 DEF TypeOK, EstadosExecucao, Vivas, Fases
  <2> QED
    BY <1>3, <2>2, <2>3 DEF AbrirConversa, TypeOK
<1> QED
  BY <1>1, <1>2, <1>3

LEMMA TarefasTipadas ==
  ASSUME NEW c \in Conversas, NEW f \in Fases
  PROVE  /\ \A etapa \in Etapas : Tarefa(c, f, etapa) \in TarefaDoBot
         /\ \A etapa \in Etapas, saida \in BOOLEAN :
              [Tarefa(c, f, etapa) EXCEPT !.saida = saida] \in TarefaDoBot
         /\ \A etapa \in Etapas, s \in Setores, u \in Donos :
              [Tarefa(c, f, etapa) EXCEPT !.setor = s, !.destino = u] \in TarefaDoBot
BY DEF Tarefa, TarefaDoBot, Donos

\* Whatever the loop comes to, it leaves a status and a task that says what is left.
LEMMA LoopTipado ==
  ASSUME TypeOK, NEW c \in Conversas, NEW f \in Fases, RunLoop(c, f)
  PROVE  \E estado \in {"suspended", "completed", "failed"}, resta \in TarefaDoBot \cup {Livre} :
           /\ Termina(c, f, estado, resta)
           /\ resta # Livre => estado # "suspended" /\ resta.conversa = c
<1>1. \A etapa \in {"liberar", "encerrar", "encaminhar"} : etapa \in Etapas
  BY DEF Etapas
<1>2. CASE Termina(c, f, "suspended", Livre)
  BY <1>2
<1>3. CASE \E estado \in {"completed", "failed"} : Termina(c, f, estado, Tarefa(c, f, "liberar"))
  <2>1. PICK estado \in {"completed", "failed"} : Termina(c, f, estado, Tarefa(c, f, "liberar"))
    BY <1>3
  <2>2. Tarefa(c, f, "liberar") \in TarefaDoBot /\ Tarefa(c, f, "liberar").conversa = c
    BY <1>1, TarefasTipadas DEF Tarefa
  <2> QED
    BY <2>1, <2>2
<1>4. ASSUME NEW saida \in BOOLEAN,
             Termina(c, f, "completed", [Tarefa(c, f, "encerrar") EXCEPT !.saida = saida])
      PROVE  \E resta \in TarefaDoBot : Termina(c, f, "completed", resta) /\ resta.conversa = c
  BY <1>1, <1>4, TarefasTipadas DEF Tarefa
<1>5. ASSUME NEW setor \in Setores, NEW destino \in Donos,
             Termina(c, f, "completed",
                     [Tarefa(c, f, "encaminhar") EXCEPT !.setor = setor, !.destino = destino])
      PROVE  \E resta \in TarefaDoBot : Termina(c, f, "completed", resta) /\ resta.conversa = c
  <2> DEFINE resta == [Tarefa(c, f, "encaminhar") EXCEPT !.setor = setor, !.destino = destino]
  <2>1. resta \in TarefaDoBot
    BY <1>1, TarefasTipadas
  <2>2. resta.conversa = c
    BY DEF Tarefa
  <2> QED
    BY <1>5, <2>1, <2>2
<1> QED
  BY <1>2, <1>3, <1>4, <1>5 DEF RunLoop

LEMMA TipoNoPasso ==
  ASSUME TypeOK, NEW c \in Conversas, NEW f \in Fases, PassoDoBot(c, f)
  PROVE  TypeOK'
<1>1. CASE PermitidoAoBot(c, f)
  <2>1. PICK estado \in {"suspended", "completed", "failed"}, resta \in TarefaDoBot \cup {Livre} :
          Termina(c, f, estado, resta)
    BY <1>1, LoopTipado DEF PassoDoBot
  <2>2. conversa' \in [Conversas -> Linha]
    BY <1>1, LinhasEditadas DEF PassoDoBot, TypeOK, Grava
  <2>3. execucao' \in [Conversas -> [Fases -> EstadosExecucao]] /\ bot' \in TarefaDoBot \cup {Livre}
    BY <2>1 DEF Termina, TypeOK, EstadosExecucao, Vivas
  <2> QED
    BY <2>2, <2>3 DEF PassoDoBot, TypeOK
<1>2. CASE ~PermitidoAoBot(c, f)
  <2>1. bot' \in TarefaDoBot
    <3>1. bot' = Tarefa(c, f, "devolver")
      BY <1>2 DEF PassoDoBot
    <3> QED
      BY <3>1, TarefasTipadas DEF Etapas
  <2>2. execucao' \in [Conversas -> [Fases -> EstadosExecucao]]
    BY <1>2, ExecucoesTipadas, TabelasTipadas DEF PassoDoBot, TypeOK
  <2> QED
    BY <1>2, <2>1, <2>2 DEF PassoDoBot, TypeOK
<1> QED
  BY <1>1, <1>2

LEMMA TipoAposOCommit == TypeOK /\ AposOCommit => TypeOK'
<1> SUFFICES ASSUME TypeOK, AposOCommit PROVE TypeOK'
  OBVIOUS
<1> DEFINE c == bot.conversa
           l == conversa[c]
           x == execucao[c]
           Tabelas == /\ conversa' \in [Conversas -> Linha]
                      /\ execucao' \in [Conversas -> [Fases -> EstadosExecucao]]
<1>a. /\ c \in Conversas /\ bot.setor \in Setores /\ bot.destino \in Donos
      /\ bot \in TarefaDoBot /\ l \in Linha /\ x \in [Fases -> EstadosExecucao]
      /\ Abortadas(x) \in [Fases -> EstadosExecucao]
      /\ ComSaidaIniciada(x) \in [Fases -> EstadosExecucao]
  <2>1. bot \in TarefaDoBot
    BY DEF TypeOK, AposOCommit, NaEtapa, EncaminharPorChatbot, LeEncerrarPorChatbot,
           EncerrarComFluxoSaidaPorChatbot, FinalizarPorChatbot, LiberarProtocolo,
           DevolverInterrompida, ConcluirInterrompida
  <2>2. c \in Conversas /\ bot.setor \in Setores /\ bot.destino \in Donos
    BY <2>1 DEF TarefaDoBot
  <2> QED
    BY <2>1, <2>2, TabelasTipadas, ExecucoesTipadas
<1>b. ASSUME SoOBot, bot' \in TarefaDoBot \cup {Livre}, Tabelas PROVE TypeOK'
  BY <1>b DEF TypeOK, SoOBot
<1>c. ASSUME NEW etapa \in Etapas, bot' = [bot EXCEPT !.etapa = etapa]
      PROVE  bot' \in TarefaDoBot
  BY <1>a, <1>c DEF TarefaDoBot
<1>d. \A etapa \in {"liberar", "encerrarComSaida", "despedir", "concluir"} : etapa \in Etapas
  BY DEF Etapas
<1>e. ASSUME DevolveParaEspera(c), execucao' = execucao PROVE Tabelas
  BY <1>a, <1>e, GravacaoTipada, LinhasEditadas, StatusUsados DEF DevolveParaEspera
<1>f. ASSUME ConcluiPos(c), execucao' = execucao PROVE Tabelas
  BY <1>a, <1>f, GravacaoTipada, LinhasEditadas DEF ConcluiPos
<1>g. ASSUME TabelasIguais PROVE Tabelas
  BY <1>g DEF TypeOK, TabelasIguais
<1>1. CASE EncaminharPorChatbot
  <2> DEFINE nova == [l EXCEPT !.setor = bot.setor, !.dono = bot.destino,
                         !.status = StatusDe(bot.destino),
                         !.esperando = (bot.destino = Ninguem),
                         !.respondida = @ \/ bot.destino # Ninguem]
  <2>1. nova \in Linha
    BY <1>a, LinhasPassadas
  <2>2. \/ Grava(c, nova) /\ execucao' = [execucao EXCEPT ![c] = Abortadas(x)]
        \/ TabelasIguais
    BY <1>1 DEF EncaminharPorChatbot
  <2> HIDE DEF nova
  <2>3. Tabelas
    BY <1>a, <1>g, <2>1, <2>2, GravacaoTipada
  <2> QED
    BY <1>1, <1>b, <1>c, <1>d, <2>3 DEF EncaminharPorChatbot, Segue
<1>2. CASE LeEncerrarPorChatbot
  BY <1>2, <1>b, <1>c, <1>d, <1>g DEF LeEncerrarPorChatbot, Segue
<1>3. CASE EncerrarComFluxoSaidaPorChatbot
  <2> DEFINE nova == [EncerraNaoAssumido(l, "FINALIZADO_PELO_CHATBOT") EXCEPT !.pos = TRUE]
  <2>1. nova \in Linha
    BY <1>a, LinhasTipadas, LinhasEditadas, StatusUsados
  <2>2. /\ \/ Grava(c, nova) /\ execucao' = [execucao EXCEPT ![c] = ComSaidaIniciada(x)]
           \/ TabelasIguais
        /\ Segue("liberar") \/ Segue("despedir")
    BY <1>3 DEF EncerrarComFluxoSaidaPorChatbot
  <2> HIDE DEF nova
  <2>3. Tabelas
    BY <1>a, <1>g, <2>1, <2>2, GravacaoTipada
  <2> QED
    BY <1>b, <1>c, <1>d, <2>2, <2>3 DEF Segue
<1>4. CASE FinalizarPorChatbot
  <2>1. Tabelas
    BY <1>4, <1>a, GravacaoTipada, LinhasTipadas, StatusUsados DEF FinalizarPorChatbot
  <2> QED
    BY <1>4, <1>b, <1>c, <1>d, <2>1 DEF FinalizarPorChatbot, Segue
<1>5. CASE LiberarProtocolo
  BY <1>5, <1>b, <1>e, <1>f DEF LiberarProtocolo
<1>6. CASE DevolverInterrompida
  BY <1>6, <1>b, <1>c, <1>d, <1>e DEF DevolverInterrompida, Segue
<1>7. CASE ConcluirInterrompida
  BY <1>7, <1>b, <1>f DEF ConcluirInterrompida
<1> QED
  BY <1>1, <1>2, <1>3, <1>4, <1>5, <1>6, <1>7 DEF AposOCommit

LEMMA TipoNaReserva ==
  ASSUME TypeOK, NEW c \in Conversas, RetomarReserva(c)
  PROVE  TypeOK'
BY TarefasTipadas DEF RetomarReserva, TypeOK, SoOBot, TabelasIguais, Fases, Etapas

LEMMA TipoNoCron ==
  ASSUME TypeOK, NEW c \in Conversas, LeInativa(c) \/ FinalizarPorInatividade(c)
  PROVE  TypeOK'
<1>1. CASE LeInativa(c)
  BY <1>1 DEF LeInativa, TypeOK, TabelasIguais
<1>2. CASE FinalizarPorInatividade(c)
  <2>1. EncerraNaoAssumido(conversa[c], "FINALIZADO_POR_INATIVIDADE") \in Linha
    BY TabelasTipadas, LinhasTipadas, StatusUsados
  <2> QED
    BY <1>2, <2>1, GravacaoTipada DEF FinalizarPorInatividade, TypeOK
<1> QED
  BY <1>1, <1>2

LEMMA TipoNaAdministracao ==
  ASSUME TypeOK,
         Queda \/ \E k \in Chaves : Desligar(k) \/ Ligar(k)
  PROVE  TypeOK'
<1>1. CASE Queda
  BY <1>1 DEF TypeOK, Queda, TabelasIguais
<1>2. ASSUME NEW k \in Chaves, Desligar(k)
      PROVE  TypeOK'
  <2> DEFINE nova(c) == [conversa[c] EXCEPT !.pos = FALSE,
               !.status = IF @ = "EM_FILA" /\ conversa[c].dono = Ninguem THEN "AGUARDANDO" ELSE @]
  <2>1. \A c \in Conversas : nova(c) \in Linha
    BY StatusUsados DEF TypeOK, Linha
  <2>2. conversa' = [c \in Conversas |-> nova(c)]
    BY <1>2 DEF Desligar
  <2> HIDE DEF nova
  <2>3. conversa' \in [Conversas -> Linha]
    BY <2>1, <2>2
  <2> QED
    BY <1>2, <2>3, ExecucoesTipadas DEF TypeOK, Desligar
<1>3. ASSUME NEW k \in Chaves, Ligar(k)
      PROVE  TypeOK'
  BY <1>3, ConstantesDoAtendimento DEF TypeOK, Ligar, TabelasIguais
<1> QED
  BY <1>1, <1>2, <1>3

LEMMA TipoPreservado == TypeOK /\ [Next]_vars => TypeOK'
<1>1. TypeOK /\ UNCHANGED vars => TypeOK'
  BY DEF TypeOK, vars
<1>2. TypeOK /\ Next => TypeOK'
  BY TipoNaLeitura, TipoNaReleitura, TipoNaGravacao, TipoNoWebhook, TipoNoPasso, TipoAposOCommit,
     TipoNaReserva, TipoNoCron, TipoNaAdministracao
     DEF Next
<1> QED
  BY <1>1, <1>2

\* Every column, execution, request and worker task keeps to the values it may have.
THEOREM TipoCorreto == Spec => []TypeOK
BY TipoInicial, TipoPreservado, PTL DEF Spec

--------------------------------------------------------------------------------
(* The part of BancoConsistente that speaks of one row and its executions *)

Coerente(l, x) ==
  /\ l.status \in NaoAssumidos => l.dono = Ninguem /\ l.esperando
  /\ l.status = "EM_ANDAMENTO" => l.dono # Ninguem /\ l.respondida /\ ~l.esperando
  /\ l.status \in Finais => ~l.esperando
  /\ l.pos => l.status \in Encerraveis
  /\ x["entrada"] \in Vivas => l.status = "EM_FILA"
  /\ x["saida"] \in Vivas => l.status \in Encerraveis
  /\ l.status = "NAO_ABERTA" => l.dono = Ninguem
  /\ x["saida"] # "inexistente" => l.status \in Encerraveis

LEMMA PorLinha ==
  BancoConsistente <=> /\ TypeOK
                       /\ \A c \in Conversas : Coerente(conversa[c], execucao[c])
                       /\ TarefaSemEntradaViva
BY DEF BancoConsistente, Coerente, DonoConformeStatus, ReservaSoEmEncerrada, SemBotNoAtendimento,
       SemDonoAntesDeAbrir, SaidaSoDeEncerrada

LEMMA PorLinhaDepois ==
  BancoConsistente' <=> /\ TypeOK'
                        /\ \A c \in Conversas : Coerente(conversa'[c], execucao'[c])
                        /\ TarefaSemEntradaViva'
BY DEF BancoConsistente, Coerente, DonoConformeStatus, ReservaSoEmEncerrada, SemBotNoAtendimento,
       SemDonoAntesDeAbrir, SaidaSoDeEncerrada

\* Aborting kills what is alive and starts nothing.
LEMMA AbortadasMortas ==
  ASSUME NEW x \in [Fases -> EstadosExecucao]
  PROVE  /\ \A f \in Fases : Abortadas(x)[f] \notin Vivas
         /\ \A f \in Fases : Abortadas(x)[f] = "inexistente" <=> x[f] = "inexistente"
         /\ ComSaidaIniciada(x)["entrada"] \notin Vivas
BY DEF Abortadas, ComSaidaIniciada, Fases, EstadosExecucao, Vivas

LEMMA LinhaQueSeAssume ==
  ASSUME NEW l \in Linha, NEW x \in [Fases -> EstadosExecucao], Coerente(l, x),
         l.status \in NaoAssumidos, NEW u \in Atendentes
  PROVE  Coerente(Assume(l, u), Abortadas(x))
<1> DEFINE n == Assume(l, u)
           y == Abortadas(x)
<1>1. /\ n.status = "EM_ANDAMENTO" /\ n.dono = u /\ ~n.esperando /\ n.respondida /\ n.pos = l.pos
  BY DEF Assume, Linha
<1>2. ~l.pos /\ x["saida"] = "inexistente"
  BY DEF Coerente, NaoAssumidos, Encerraveis
<1>3. y["entrada"] \notin Vivas /\ y["saida"] \notin Vivas /\ y["saida"] = "inexistente"
  BY <1>2, AbortadasMortas DEF Fases
<1> HIDE DEF n, y
<1>4. Coerente(n, y)
  BY <1>1, <1>2, <1>3, ConstantesDoAtendimento DEF Coerente, NaoAssumidos, Finais
<1> QED
  BY <1>4 DEF n, y

LEMMA LinhaQueSeCria ==
  ASSUME NEW x \in [Fases -> EstadosExecucao], NEW l \in Linha, Coerente(l, x),
         l.status = "NAO_ABERTA", NEW u \in Atendentes, NEW s \in Setores
  PROVE  Coerente(Assume(LinhaNova(s), u), x)
<1> DEFINE n == Assume(LinhaNova(s), u)
<1>1. /\ n.status = "EM_ANDAMENTO" /\ n.dono = u /\ ~n.esperando
      /\ n.respondida /\ ~n.pos
  BY DEF Assume, LinhaNova, LinhaAusente
<1>2. x["entrada"] \notin Vivas /\ x["saida"] \notin Vivas /\ x["saida"] = "inexistente"
  BY DEF Coerente, Encerraveis, Vivas
<1> HIDE DEF n
<1>3. Coerente(n, x)
  BY <1>1, <1>2, ConstantesDoAtendimento DEF Coerente, NaoAssumidos, Finais
<1> QED
  BY <1>3 DEF n

LEMMA LinhaQueSePausa ==
  ASSUME NEW l \in Linha, NEW x \in [Fases -> EstadosExecucao], Coerente(l, x), NEW b \in BOOLEAN
  PROVE  Coerente([l EXCEPT !.pausada = b], x)
<1> DEFINE n == [l EXCEPT !.pausada = b]
<1>1. /\ n.status = l.status /\ n.dono = l.dono /\ n.esperando = l.esperando
      /\ n.respondida = l.respondida /\ n.pos = l.pos
  BY DEF Linha
<1> HIDE DEF n
<1>2. Coerente(n, x)
  BY <1>1 DEF Coerente
<1> QED
  BY <1>2 DEF n

LEMMA LinhaQueSeEncerra ==
  ASSUME NEW l \in Linha, NEW x \in [Fases -> EstadosExecucao], Coerente(l, x),
         l.status = "EM_ANDAMENTO"
  PROVE  /\ Coerente(Encerra(l, "FINALIZADO"), x)
         /\ Coerente([Encerra(l, "FINALIZADO") EXCEPT !.pos = TRUE], ComSaidaIniciada(x))
         /\ Coerente(EncerraNaoAssumido(l, "FINALIZADO_POR_INATIVIDADE"), x)
BY AbortadasMortas DEF Coerente, Encerra, EncerraNaoAssumido, Linha, NaoAssumidos, Finais, Encerraveis, Vivas

LEMMA LinhaQueSeDescarta ==
  ASSUME NEW l \in Linha, NEW x \in [Fases -> EstadosExecucao], Coerente(l, x),
         l.status \in NaoAssumidos
  PROVE  /\ Coerente(EncerraNaoAssumido(l, "FINALIZADO_SEM_RESPOSTA"), Abortadas(x))
         /\ Coerente([EncerraNaoAssumido(l, "FINALIZADO_PELO_CHATBOT") EXCEPT !.pos = TRUE],
                     ComSaidaIniciada(x))
         /\ x["entrada"] \notin Vivas =>
              Coerente(EncerraNaoAssumido(l, "FINALIZADO_PELO_CHATBOT"), x)
BY AbortadasMortas
   DEF Coerente, EncerraNaoAssumido, Linha, NaoAssumidos, Finais, Encerraveis, Fases

LEMMA LinhaQueSeTransfere ==
  ASSUME NEW l \in Linha, NEW x \in [Fases -> EstadosExecucao], Coerente(l, x),
         l.status = "EM_ANDAMENTO", NEW u \in Donos, NEW s \in Setores
  PROVE  Coerente([l EXCEPT !.dono = u, !.setor = s, !.pausada = FALSE, !.esperando = (u = Ninguem),
                            !.status = StatusDe(u)], x)
BY DEF Coerente, Linha, NaoAssumidos, Finais, Encerraveis

LEMMA LinhaQueSeEncaminha ==
  ASSUME NEW l \in Linha, NEW x \in [Fases -> EstadosExecucao], Coerente(l, x),
         l.status = "EM_FILA", NEW u \in Donos, NEW s \in Setores
  PROVE  Coerente([l EXCEPT !.setor = s, !.dono = u,
                      !.status = StatusDe(u),
                      !.esperando = (u = Ninguem),
                      !.respondida = @ \/ u # Ninguem], Abortadas(x))
BY AbortadasMortas DEF Coerente, Linha, NaoAssumidos, Finais, Encerraveis, Fases

LEMMA LinhaQueVolta ==
  ASSUME NEW l \in Linha, NEW x \in [Fases -> EstadosExecucao], Coerente(l, x),
         l.status = "EM_FILA", x["entrada"] \notin Vivas
  PROVE  Coerente([l EXCEPT !.status = "AGUARDANDO"], x)
BY DEF Coerente, Linha, NaoAssumidos, Finais, Encerraveis

LEMMA LinhaQueSeLibera ==
  ASSUME NEW l \in Linha, NEW x \in [Fases -> EstadosExecucao], Coerente(l, x)
  PROVE  /\ Coerente([l EXCEPT !.pos = FALSE], x)
         /\ Coerente(l, Abortadas(x))
         /\ \A s \in Setores : Coerente([l EXCEPT !.setor = s], x)
BY AbortadasMortas DEF Coerente, Linha, Fases

LEMMA LinhaQueSeAbre ==
  ASSUME NEW l \in Linha, NEW x \in [Fases -> EstadosExecucao], Coerente(l, x),
         l.status = "NAO_ABERTA", NEW comFluxo \in BOOLEAN
  PROVE  Coerente([LinhaNova(SetorPadrao) EXCEPT
                     !.status = IF comFluxo THEN "EM_FILA" ELSE "AGUARDANDO"],
                  [x EXCEPT !["entrada"] = IF comFluxo THEN "running" ELSE @])
<1> DEFINE n == [LinhaNova(SetorPadrao) EXCEPT !.status = IF comFluxo THEN "EM_FILA" ELSE "AGUARDANDO"]
           y == [x EXCEPT !["entrada"] = IF comFluxo THEN "running" ELSE @]
<1>1. /\ n.status = (IF comFluxo THEN "EM_FILA" ELSE "AGUARDANDO")
      /\ n.dono = Ninguem /\ n.esperando /\ ~n.pos
  BY DEF LinhaNova, LinhaAusente
<1>2. x["entrada"] \notin Vivas /\ x["saida"] \notin Vivas /\ x["saida"] = "inexistente"
  BY DEF Coerente, Encerraveis, Vivas
<1>3. y["saida"] = "inexistente" /\ (y["entrada"] \in Vivas => comFluxo)
  BY <1>2 DEF Fases
<1> HIDE DEF n, y
<1>4. Coerente(n, y)
  BY <1>1, <1>3 DEF Coerente, NaoAssumidos, Finais, Vivas
<1> QED
  BY <1>4 DEF n, y

\* A step moves a live execution of a chat the bot may act on.
LEMMA LinhaDoPasso ==
  ASSUME NEW l \in Linha, NEW x \in [Fases -> EstadosExecucao], Coerente(l, x),
         NEW f \in Fases, x[f] \in Vivas, NEW estado \in {"suspended", "completed", "failed"},
         f = "entrada" => l.status = "EM_FILA"
  PROVE  Coerente(l, [x EXCEPT ![f] = estado])
BY DEF Coerente, Fases, Vivas

\* Turning the automation off.
LEMMA LinhaDesligada ==
  ASSUME NEW l \in Linha, NEW x \in [Fases -> EstadosExecucao], Coerente(l, x)
  PROVE  Coerente([l EXCEPT !.pos = FALSE,
                     !.status = IF @ = "EM_FILA" /\ l.dono = Ninguem THEN "AGUARDANDO" ELSE @],
                  Abortadas(x))
<1> DEFINE n == [l EXCEPT !.pos = FALSE,
                   !.status = IF @ = "EM_FILA" /\ l.dono = Ninguem THEN "AGUARDANDO" ELSE @]
<1>1. /\ n.dono = l.dono /\ n.esperando = l.esperando /\ n.respondida = l.respondida
      /\ n.pos = FALSE
      /\ n.status = IF l.status = "EM_FILA" /\ l.dono = Ninguem THEN "AGUARDANDO" ELSE l.status
  BY DEF Linha
<1> HIDE DEF n
<1>2. Coerente(n, Abortadas(x))
  BY <1>1, AbortadasMortas DEF Coerente, NaoAssumidos, Finais, Encerraveis, Fases
<1> QED
  BY <1>2 DEF n

--------------------------------------------------------------------------------
(* Every step keeps the database consistent *)

\* It is enough to look at the one chat a step writes, and at the worker's task.
LEMMA UmaLinhaMuda ==
  ASSUME BancoConsistente, TypeOK', NEW c \in Conversas,
         \A d \in Conversas \ {c} : conversa'[d] = conversa[d] /\ execucao'[d] = execucao[d],
         Coerente(conversa'[c], execucao'[c]),
         conversa[c].status # "NAO_ABERTA" => conversa'[c].status # "NAO_ABERTA",
         execucao'[c]["entrada"] \in Vivas =>
           execucao[c]["entrada"] \in Vivas \/ conversa[c].status = "NAO_ABERTA",
         \/ bot' = bot
         \/ bot' = Livre
         \/ bot # Livre /\ bot'.conversa = bot.conversa
         \/ /\ bot'.conversa = c /\ conversa'[c].status # "NAO_ABERTA"
            /\ execucao'[c]["entrada"] \notin Vivas
  PROVE  BancoConsistente'
<1>1. \A d \in Conversas : Coerente(conversa'[d], execucao'[d])
  BY PorLinha
<1>2. TarefaSemEntradaViva'
  <2>1. ASSUME bot # Livre, bot'.conversa = bot.conversa
        PROVE  TarefaSemEntradaViva'
    <3>1. bot.conversa \in Conversas
      BY <2>1, PorLinha DEF TypeOK, TarefaDoBot
    <3>2. /\ conversa[bot.conversa].status # "NAO_ABERTA"
          /\ execucao[bot.conversa]["entrada"] \notin Vivas
      BY <2>1, PorLinha DEF TarefaSemEntradaViva
    <3>3. CASE bot.conversa = c
      BY <2>1, <3>2, <3>3 DEF TarefaSemEntradaViva
    <3>4. CASE bot.conversa # c
      BY <2>1, <3>1, <3>2, <3>4 DEF TarefaSemEntradaViva
    <3> QED
      BY <3>3, <3>4
  <2>2. CASE bot' = Livre
    BY <2>2 DEF TarefaSemEntradaViva
  <2>3. CASE /\ bot'.conversa = c /\ conversa'[c].status # "NAO_ABERTA"
             /\ execucao'[c]["entrada"] \notin Vivas
    BY <2>3 DEF TarefaSemEntradaViva
  <2> QED
    BY <2>1, <2>2, <2>3
<1> QED
  BY <1>1, <1>2, PorLinhaDepois

LEMMA TabelasIguaisConsistente ==
  ASSUME BancoConsistente, TypeOK', TabelasIguais,
         bot' = bot \/ bot' = Livre \/ (bot # Livre /\ bot'.conversa = bot.conversa)
  PROVE  BancoConsistente'
<1>1. \A d \in Conversas : Coerente(conversa'[d], execucao'[d])
  BY PorLinha DEF TabelasIguais
<1>2. TarefaSemEntradaViva'
  BY PorLinha DEF TabelasIguais, TarefaSemEntradaViva
<1> QED
  BY <1>1, <1>2, PorLinhaDepois

LEMMA ConsistenteNoInicio == Init => BancoConsistente
<1> SUFFICES ASSUME Init PROVE BancoConsistente
  OBVIOUS
<1>1. \A c \in Conversas : Coerente(conversa[c], execucao[c])
  BY DEF Init, Coerente, LinhaAusente, NaoAssumidos, Finais, Vivas, Fases
<1> QED
  BY <1>1, TipoInicial, PorLinha DEF Init, TarefaSemEntradaViva

LEMMA ConsistenteNaLeitura ==
  ASSUME BancoConsistente, TypeOK', Leitura
  PROVE  BancoConsistente'
<1>1. TabelasIguais /\ SoOPedido
  BY PorLinha, LeituraChega DEF Chega
<1> QED
  BY <1>1, TabelasIguaisConsistente DEF SoOPedido

LEMMA ConsistenteNaReleitura ==
  ASSUME BancoConsistente, TypeOK', Releitura
  PROVE  BancoConsistente'
<1>1. TabelasIguais /\ SoOPedido
  BY PorLinha, ReleituraSegue
<1> QED
  BY <1>1, TabelasIguaisConsistente DEF SoOPedido

LEMMA ConsistenteNaGravacao ==
  ASSUME BancoConsistente, TypeOK', Gravacao
  PROVE  BancoConsistente'
<1> SUFFICES ASSUME NEW r \in Requisicoes,
                    \/ Assumir(r) \/ Pausar(r) \/ Retomar(r) \/ Finalizar(r) \/ AutorizarSaida(r)
                    \/ FinalizarComFluxoSaida(r) \/ Transferir(r)
                    \/ FinalizarSemAtendimento(r) \/ CriarNova(r)
             PROVE  BancoConsistente'
  BY DEF Gravacao
<1> DEFINE p == pedido[r]
           c == p.conversa
           l == conversa[c]
           x == execucao[c]
<1>0. TypeOK
  BY PorLinha
<1>a. ASSUME NEW op, Executa(r, op)
      PROVE  /\ c \in Conversas /\ p.quem \in Atendentes
             /\ p.setor \in Setores /\ p.destino \in Donos
             /\ l \in Linha /\ x \in [Fases -> EstadosExecucao] /\ Coerente(l, x)
  BY <1>0, <1>a, PedidoEmMaos, TabelasTipadas, PorLinha
\* A request that changes one chat and leaves its executions alone, or stops them.
<1>b. ASSUME NEW d \in Conversas, NEW n, NEW y, Grava(d, n), execucao' = [execucao EXCEPT ![d] = y],
             Coerente(n, y), n.status # "NAO_ABERTA", bot' = bot,
             y["entrada"] \in Vivas => y = execucao[d]
      PROVE  BancoConsistente'
  <2>1. conversa'[d] = n /\ execucao'[d] = y
    BY <1>0, <1>b DEF TypeOK, Grava
  <2>2. \A e \in Conversas \ {d} : conversa'[e] = conversa[e] /\ execucao'[e] = execucao[e]
    BY <1>0, <1>b DEF TypeOK, Grava
  <2> QED
    BY <1>b, <2>1, <2>2, UmaLinhaMuda
<1>c. ASSUME NEW d \in Conversas, NEW n, Grava(d, n), execucao' = execucao,
             Coerente(n, execucao[d]), n.status # "NAO_ABERTA", bot' = bot
      PROVE  BancoConsistente'
  <2>1. execucao' = [execucao EXCEPT ![d] = execucao[d]]
    BY <1>0, <1>c DEF TypeOK
  <2> QED
    BY <1>b, <1>c, <2>1
<1>d. ASSUME TabelasIguais, SoOPedido PROVE BancoConsistente'
  BY <1>d, TabelasIguaisConsistente DEF SoOPedido
<1>1. CASE Assumir(r)
  <2>1. CASE TabelasIguais
    BY <1>1, <1>d, <2>1 DEF Assumir, Responde
  <2>2. CASE /\ l.status \in NaoAssumidos
             /\ Grava(c, Assume(l, p.quem)) /\ execucao' = [execucao EXCEPT ![c] = Abortadas(x)]
    <3>1. Executa(r, "iniciar") /\ bot' = bot
      BY <1>1 DEF Assumir, Responde, SoOPedido
    <3>2. Assume(l, p.quem).status # "NAO_ABERTA"
      BY <1>a, <3>1 DEF Assume, Linha
    <3>3. Coerente(Assume(l, p.quem), Abortadas(x))
      BY <1>a, <2>2, <3>1, LinhaQueSeAssume
    <3>4. Abortadas(x)["entrada"] \notin Vivas
      BY <1>a, <3>1, AbortadasMortas DEF Fases
    <3> QED
      BY <1>a, <1>b, <2>2, <3>1, <3>2, <3>3, <3>4
  <2> QED
    BY <1>1, <2>1, <2>2 DEF Assumir
<1>2. CASE Pausar(r)
  <2>0. Executa(r, "pausar") /\ bot' = bot /\ execucao' = execucao
    BY <1>2 DEF Pausar, Responde, SoOPedido
  <2>1. CASE conversa' = conversa
    BY <1>2, <1>d, <2>1 DEF Pausar, Responde, TabelasIguais
  <2>2. CASE l.status = "EM_ANDAMENTO" /\ Grava(c, [l EXCEPT !.pausada = TRUE])
    <3>1. [l EXCEPT !.pausada = TRUE].status # "NAO_ABERTA"
      BY <1>a, <2>0, <2>2 DEF Linha
    <3> QED
      BY <1>a, <1>c, <2>0, <2>2, <3>1, LinhaQueSePausa
  <2> QED
    BY <1>2, <2>1, <2>2 DEF Pausar
<1>3. CASE Retomar(r)
  <2>0. Executa(r, "retomar") /\ bot' = bot /\ execucao' = execucao
    BY <1>3 DEF Retomar, Responde, SoOPedido
  <2>1. CASE conversa' = conversa
    BY <1>3, <1>d, <2>1 DEF Retomar, Responde, TabelasIguais
  <2>2. CASE l.status = "EM_ANDAMENTO" /\ Grava(c, [l EXCEPT !.pausada = FALSE])
    <3>1. [l EXCEPT !.pausada = FALSE].status # "NAO_ABERTA"
      BY <1>a, <2>0, <2>2 DEF Linha
    <3> QED
      BY <1>a, <1>c, <2>0, <2>2, <3>1, LinhaQueSePausa
  <2> QED
    BY <1>3, <2>1, <2>2 DEF Retomar
<1>4. CASE Finalizar(r)
  <2>0. Executa(r, "finalizar") /\ bot' = bot /\ execucao' = execucao
    BY <1>4 DEF Finalizar, Responde, SoOPedido
  <2>1. CASE conversa' = conversa
    BY <1>4, <1>d, <2>1 DEF Finalizar, Responde, TabelasIguais
  <2>2. CASE l.status = "EM_ANDAMENTO" /\ Grava(c, Encerra(l, "FINALIZADO"))
    <3>1. Encerra(l, "FINALIZADO").status # "NAO_ABERTA"
      BY <1>a, <2>0 DEF Linha, Encerra
    <3> QED
      BY <1>a, <1>c, <2>0, <2>2, <3>1, LinhaQueSeEncerra
  <2> QED
    BY <1>4, <2>1, <2>2 DEF Finalizar
<1>5. CASE AutorizarSaida(r)
  BY <1>5, <1>d DEF AutorizarSaida
<1>6. CASE FinalizarComFluxoSaida(r)
  <2> DEFINE n == [Encerra(l, "FINALIZADO") EXCEPT !.pos = TRUE]
  <2>0. Executa(r, "saidaAutorizada") /\ bot' = bot
    BY <1>6 DEF FinalizarComFluxoSaida, Responde, SoOPedido
  <2>1. CASE TabelasIguais
    BY <1>6, <1>d, <2>1 DEF FinalizarComFluxoSaida, Responde
  <2>2. CASE /\ l.status = "EM_ANDAMENTO" /\ Grava(c, n)
             /\ execucao' = [execucao EXCEPT ![c] = ComSaidaIniciada(x)]
    <3>1. n.status # "NAO_ABERTA"
      BY <1>a, <2>0 DEF Linha, Encerra
    <3>2. Coerente(n, ComSaidaIniciada(x)) /\ ComSaidaIniciada(x)["entrada"] \notin Vivas
      BY <1>a, <2>0, <2>2, LinhaQueSeEncerra, AbortadasMortas
    <3> HIDE DEF n
    <3> QED
      BY <1>a, <1>b, <2>0, <2>2, <3>1, <3>2
  <2> QED
    BY <1>6, <2>1, <2>2 DEF FinalizarComFluxoSaida
<1>7. CASE Transferir(r)
  <2> DEFINE n == [l EXCEPT !.dono = p.destino, !.setor = p.setor, !.pausada = FALSE,
                         !.esperando = (p.destino = Ninguem),
                         !.status = StatusDe(p.destino)]
  <2>0. Executa(r, "transferir") /\ bot' = bot /\ execucao' = execucao
    BY <1>7 DEF Transferir, Responde, SoOPedido
  <2>1. CASE conversa' = conversa
    BY <1>7, <1>d, <2>1 DEF Transferir, Responde, TabelasIguais
  <2>2. CASE l.status = "EM_ANDAMENTO" /\ Grava(c, n)
    <3>1. n.status # "NAO_ABERTA"
      BY <1>a, <2>0 DEF Linha
    <3>2. Coerente(n, x)
      BY <1>a, <2>0, <2>2, LinhaQueSeTransfere
    <3> HIDE DEF n
    <3> QED
      BY <1>a, <1>c, <2>0, <2>2, <3>1, <3>2
  <2> QED
    BY <1>7, <2>1, <2>2 DEF Transferir
<1>8. CASE FinalizarSemAtendimento(r)
  <2> DEFINE n == EncerraNaoAssumido(l, "FINALIZADO_SEM_RESPOSTA")
  <2>0. Executa(r, "descartar") /\ bot' = bot
    BY <1>8 DEF FinalizarSemAtendimento, Responde, SoOPedido
  <2>1. CASE TabelasIguais
    BY <1>8, <1>d, <2>1 DEF FinalizarSemAtendimento, Responde
  <2>2. CASE /\ l.status \in NaoAssumidos /\ Grava(c, n)
             /\ execucao' = [execucao EXCEPT ![c] = Abortadas(x)]
    <3>1. n.status # "NAO_ABERTA"
      BY <1>a, <2>0 DEF Linha, EncerraNaoAssumido
    <3>2. Coerente(n, Abortadas(x)) /\ Abortadas(x)["entrada"] \notin Vivas
      BY <1>a, <2>0, <2>2, LinhaQueSeDescarta, AbortadasMortas DEF Fases
    <3> HIDE DEF n
    <3> QED
      BY <1>a, <1>b, <2>0, <2>2, <3>1, <3>2
  <2> QED
    BY <1>8, <2>1, <2>2 DEF FinalizarSemAtendimento
<1>9. CASE CriarNova(r)
  <2> DEFINE n == Assume(LinhaNova(p.setor), p.quem)
  <2>0. Executa(r, "criar") /\ bot' = bot /\ execucao' = execucao
    BY <1>9 DEF CriarNova, Responde, SoOPedido
  <2>1. PICK d \in Conversas : conversa[d].status = "NAO_ABERTA" /\ Grava(d, n)
    BY <1>9 DEF CriarNova
  <2>2. n.status # "NAO_ABERTA"
    BY DEF Assume, LinhaNova, LinhaAusente
  <2>3. Coerente(n, execucao[d])
    BY <1>0, <1>a, <2>0, <2>1, TabelasTipadas, PorLinha, LinhaQueSeCria
  <2> HIDE DEF n
  <2> QED
    BY <1>c, <2>0, <2>1, <2>2, <2>3
<1> QED
  BY <1>1, <1>2, <1>3, <1>4, <1>5, <1>6, <1>7, <1>8, <1>9

LEMMA ConsistenteNoWebhook ==
  ASSUME BancoConsistente, TypeOK', ReceberMensagem \/ DecidirAcaoDoChatbot \/ AbrirConversa
  PROVE  BancoConsistente'
<1>1. CASE ReceberMensagem
  BY <1>1, TabelasIguaisConsistente DEF ReceberMensagem
<1>2. CASE DecidirAcaoDoChatbot
  BY <1>2, TabelasIguaisConsistente DEF DecidirAcaoDoChatbot
<1>3. CASE AbrirConversa
  <2> DEFINE n == [LinhaNova(SetorPadrao) EXCEPT
                     !.status = IF webhook.comFluxo THEN "EM_FILA" ELSE "AGUARDANDO"]
  <2>0. TypeOK /\ webhook.comFluxo \in BOOLEAN
    BY <1>3, PorLinha DEF AbrirConversa, TypeOK, AberturaPendente
  <2>1. PICK c \in Conversas :
          /\ conversa[c].status = "NAO_ABERTA" /\ Grava(c, n)
          /\ execucao' = [execucao EXCEPT ![c]["entrada"] =
                             IF webhook.comFluxo THEN "running" ELSE @]
    BY <1>3 DEF AbrirConversa
  <2>2. n.status # "NAO_ABERTA"
    BY DEF LinhaNova, LinhaAusente
  <2> DEFINE y == [execucao[c] EXCEPT !["entrada"] = IF webhook.comFluxo THEN "running" ELSE @]
  <2>3. Coerente(n, y)
    BY <2>0, <2>1, TabelasTipadas, PorLinha, LinhaQueSeAbre
  <2> HIDE DEF n
  <2>4. conversa'[c] = n /\ \A d \in Conversas \ {c} : conversa'[d] = conversa[d]
    BY <2>0, <2>1 DEF TypeOK, Grava
  <2>5. execucao'[c] = y /\ \A d \in Conversas \ {c} : execucao'[d] = execucao[d]
    BY <2>0, <2>1 DEF TypeOK
  <2>6. bot' = bot
    BY <1>3 DEF AbrirConversa
  <2> HIDE DEF y
  <2> QED
    BY <2>1, <2>2, <2>3, <2>4, <2>5, <2>6, UmaLinhaMuda
<1> QED
  BY <1>1, <1>2, <1>3

LEMMA ConsistenteNoPasso ==
  ASSUME BancoConsistente, TypeOK', NEW c \in Conversas, NEW f \in Fases, PassoDoBot(c, f)
  PROVE  BancoConsistente'
<1> DEFINE l == conversa[c]
           x == execucao[c]
<1>0. /\ TypeOK /\ l \in Linha /\ x \in [Fases -> EstadosExecucao] /\ Coerente(l, x)
      /\ bot = Livre /\ x[f] \in Vivas
  BY PorLinha, TabelasTipadas DEF PassoDoBot
<1>1. l.status # "NAO_ABERTA"
  BY <1>0 DEF Coerente, Fases, Encerraveis
<1>2. CASE PermitidoAoBot(c, f)
  <2>1. PICK estado \in {"suspended", "completed", "failed"}, resta \in TarefaDoBot \cup {Livre} :
          /\ Termina(c, f, estado, resta)
          /\ resta # Livre => estado # "suspended" /\ resta.conversa = c
    BY <1>0, <1>2, LoopTipado DEF PassoDoBot
  <2> DEFINE y == [x EXCEPT ![f] = estado]
  <2>2. execucao'[c] = y /\ \A d \in Conversas \ {c} : execucao'[d] = execucao[d]
    BY <1>0, <2>1 DEF Termina, TypeOK
  <2>3. f = "entrada" => l.status = "EM_FILA"
    BY <1>2 DEF PermitidoAoBot
  <2>4. Coerente(l, y)
    BY <1>0, <2>3, LinhaDoPasso
  <2>5. y \in [Fases -> EstadosExecucao]
    BY <1>0 DEF EstadosExecucao, Vivas
  <2>6. PICK n \in Linha : /\ conversa'[c] = n /\ Coerente(n, y) /\ n.status = l.status
                          /\ \A d \in Conversas \ {c} : conversa'[d] = conversa[d]
    <3>1. CASE f = "entrada"
      <4>1. PICK s \in Setores : Grava(c, [l EXCEPT !.setor = s])
        BY <1>2, <3>1 DEF PassoDoBot
      <4>2. [l EXCEPT !.setor = s] \in Linha /\ [l EXCEPT !.setor = s].status = l.status
        BY <1>0, LinhasEditadas DEF Linha
      <4>3. Coerente([l EXCEPT !.setor = s], y)
        BY <1>0, <2>4, <2>5, LinhaQueSeLibera
      <4> QED
        BY <1>0, <4>1, <4>2, <4>3 DEF Grava, TypeOK
    <3>2. CASE f # "entrada"
      BY <1>0, <1>2, <2>4, <3>2 DEF PassoDoBot
    <3> QED
      BY <3>1, <3>2
  <2>7. y["entrada"] \in Vivas => x["entrada"] \in Vivas
    BY <1>0 DEF Fases
  <2>8. resta # Livre => y["entrada"] \notin Vivas
    BY <1>0, <2>1, <2>3 DEF Fases, Vivas, Coerente, Encerraveis
  <2>9. bot' = resta
    BY <2>1 DEF Termina
  <2> HIDE DEF y
  <2> QED
    BY <1>0, <1>1, <2>1, <2>2, <2>6, <2>7, <2>8, <2>9, UmaLinhaMuda
<1>3. CASE ~PermitidoAoBot(c, f)
  <2>1. /\ conversa' = conversa /\ execucao' = [execucao EXCEPT ![c] = Abortadas(x)]
        /\ bot' = Tarefa(c, f, "devolver")
    BY <1>3 DEF PassoDoBot
  <2>2. execucao'[c] = Abortadas(x) /\ \A d \in Conversas \ {c} : execucao'[d] = execucao[d]
    BY <1>0, <2>1 DEF TypeOK
  <2>3. Abortadas(x)["entrada"] \notin Vivas /\ Coerente(l, Abortadas(x))
    BY <1>0, AbortadasMortas, LinhaQueSeLibera DEF Fases
  <2>4. bot'.conversa = c
    BY <2>1 DEF Tarefa
  <2> QED
    BY <1>1, <2>1, <2>2, <2>3, <2>4, UmaLinhaMuda
<1> QED
  BY <1>2, <1>3

LEMMA ConsistenteAposOCommit ==
  ASSUME BancoConsistente, TypeOK', AposOCommit
  PROVE  BancoConsistente'
<1> DEFINE c == bot.conversa
           l == conversa[c]
           x == execucao[c]
<1>0. TypeOK /\ bot # Livre /\ bot \in TarefaDoBot /\ c \in Conversas
  <2>1. bot # Livre
    BY DEF AposOCommit, NaEtapa, EncaminharPorChatbot, LeEncerrarPorChatbot,
           EncerrarComFluxoSaidaPorChatbot, FinalizarPorChatbot, LiberarProtocolo,
           DevolverInterrompida, ConcluirInterrompida
  <2> QED
    BY <2>1, PorLinha DEF TypeOK, TarefaDoBot
<1>1. /\ l \in Linha /\ x \in [Fases -> EstadosExecucao] /\ Coerente(l, x)
      /\ bot.destino \in Donos /\ bot.setor \in Setores
      /\ l.status # "NAO_ABERTA" /\ x["entrada"] \notin Vivas
  BY <1>0, TabelasTipadas, PorLinha DEF TarefaSemEntradaViva, TarefaDoBot
<1>2. bot' = Livre \/ bot'.conversa = bot.conversa
  BY <1>0 DEF AposOCommit, EncaminharPorChatbot, LeEncerrarPorChatbot,
         EncerrarComFluxoSaidaPorChatbot, FinalizarPorChatbot, LiberarProtocolo,
         DevolverInterrompida, ConcluirInterrompida, Segue, TarefaDoBot
\* What a step of the worker may write in the row of its chat.
<1>a. ASSUME NEW n, NEW y, Grava(c, n), execucao' = [execucao EXCEPT ![c] = y],
             Coerente(n, y), n.status # "NAO_ABERTA", y["entrada"] \notin Vivas
      PROVE  BancoConsistente'
  <2>1. conversa'[c] = n /\ execucao'[c] = y
    BY <1>0, <1>a DEF TypeOK, Grava
  <2>2. \A e \in Conversas \ {c} : conversa'[e] = conversa[e] /\ execucao'[e] = execucao[e]
    BY <1>0, <1>a DEF TypeOK, Grava
  <2> QED
    BY <1>0, <1>2, <1>a, <2>1, <2>2, UmaLinhaMuda
<1>b. ASSUME TabelasIguais PROVE BancoConsistente'
  BY <1>0, <1>2, <1>b, TabelasIguaisConsistente
<1>c. ASSUME NEW n, Grava(c, n) \/ conversa' = conversa, execucao' = execucao,
             Grava(c, n) => Coerente(n, x) /\ n.status # "NAO_ABERTA"
      PROVE  BancoConsistente'
  <2>1. execucao' = [execucao EXCEPT ![c] = x]
    BY <1>0, <1>c DEF TypeOK
  <2>2. CASE Grava(c, n)
    BY <1>1, <1>a, <1>c, <2>1, <2>2
  <2>3. CASE conversa' = conversa
    BY <1>b, <1>c, <2>3 DEF TabelasIguais
  <2> QED
    BY <1>c, <2>2, <2>3
<1>d. ASSUME DevolveParaEspera(c), execucao' = execucao PROVE BancoConsistente'
  <2> DEFINE n == [l EXCEPT !.status = "AGUARDANDO"]
  <2>1. CASE conversa' = conversa
    BY <1>b, <1>d, <2>1 DEF TabelasIguais
  <2>2. CASE l.status = "EM_FILA" /\ Grava(c, n)
    <3>1. Coerente(n, x) /\ n.status # "NAO_ABERTA"
      BY <1>1, <2>2, LinhaQueVolta DEF Linha
    <3> HIDE DEF n
    <3> QED
      BY <1>c, <1>d, <2>2, <3>1
  <2> QED
    BY <1>d, <2>1, <2>2 DEF DevolveParaEspera
<1>e. ASSUME ConcluiPos(c), execucao' = execucao PROVE BancoConsistente'
  <2> DEFINE n == [l EXCEPT !.pos = FALSE]
  <2>1. Coerente(n, x) /\ n.status # "NAO_ABERTA"
    BY <1>1, LinhaQueSeLibera DEF Linha
  <2>2. Grava(c, n) \/ conversa' = conversa
    BY <1>e DEF ConcluiPos
  <2> HIDE DEF n
  <2> QED
    BY <1>c, <1>e, <2>1, <2>2
<1>3. CASE EncaminharPorChatbot
  <2> DEFINE n == [l EXCEPT !.setor = bot.setor, !.dono = bot.destino,
                      !.status = StatusDe(bot.destino),
                      !.esperando = (bot.destino = Ninguem),
                      !.respondida = @ \/ bot.destino # Ninguem]
  <2>1. CASE TabelasIguais
    BY <1>b, <2>1
  <2>2. CASE /\ l.status = "EM_FILA" /\ Grava(c, n)
             /\ execucao' = [execucao EXCEPT ![c] = Abortadas(x)]
    <3>1. Coerente(n, Abortadas(x))
      BY <1>1, <2>2, LinhaQueSeEncaminha
    <3>2. n.status # "NAO_ABERTA"
      BY <1>1 DEF Linha
    <3>3. Abortadas(x)["entrada"] \notin Vivas
      BY <1>1, AbortadasMortas DEF Fases
    <3> HIDE DEF n
    <3> QED
      BY <1>a, <2>2, <3>1, <3>2, <3>3
  <2> QED
    BY <1>3, <2>1, <2>2 DEF EncaminharPorChatbot
<1>4. CASE LeEncerrarPorChatbot
  BY <1>4, <1>b DEF LeEncerrarPorChatbot
<1>5. CASE EncerrarComFluxoSaidaPorChatbot
  <2> DEFINE n == [EncerraNaoAssumido(l, "FINALIZADO_PELO_CHATBOT") EXCEPT !.pos = TRUE]
  <2>1. CASE TabelasIguais
    BY <1>b, <2>1
  <2>2. CASE /\ l.status = "EM_FILA" /\ Grava(c, n)
             /\ execucao' = [execucao EXCEPT ![c] = ComSaidaIniciada(x)]
    <3>1. Coerente(n, ComSaidaIniciada(x))
      BY <1>1, <2>2, LinhaQueSeDescarta DEF NaoAssumidos
    <3>2. n.status # "NAO_ABERTA"
      BY <1>1 DEF Linha, EncerraNaoAssumido
    <3>3. ComSaidaIniciada(x)["entrada"] \notin Vivas
      BY <1>1, AbortadasMortas
    <3> HIDE DEF n
    <3> QED
      BY <1>a, <2>2, <3>1, <3>2, <3>3
  <2> QED
    BY <1>5, <2>1, <2>2 DEF EncerrarComFluxoSaidaPorChatbot
<1>6. CASE FinalizarPorChatbot
  <2> DEFINE n == EncerraNaoAssumido(l, "FINALIZADO_PELO_CHATBOT")
  <2>1. /\ execucao' = execucao
        /\ conversa' = conversa \/ (l.status \in NaoAssumidos /\ Grava(c, n))
    BY <1>6 DEF FinalizarPorChatbot
  <2>2. l.status \in NaoAssumidos => Coerente(n, x)
    BY <1>1, LinhaQueSeDescarta
  <2>3. n.status # "NAO_ABERTA"
    BY <1>1 DEF Linha, EncerraNaoAssumido
  <2> HIDE DEF n
  <2> QED
    BY <1>b, <1>c, <2>1, <2>2, <2>3 DEF TabelasIguais
<1>7. CASE LiberarProtocolo
  BY <1>7, <1>d, <1>e DEF LiberarProtocolo
<1>8. CASE DevolverInterrompida
  BY <1>8, <1>d DEF DevolverInterrompida
<1>9. CASE ConcluirInterrompida
  BY <1>9, <1>e DEF ConcluirInterrompida
<1> QED
  BY <1>3, <1>4, <1>5, <1>6, <1>7, <1>8, <1>9 DEF AposOCommit

LEMMA ConsistenteNaReserva ==
  ASSUME BancoConsistente, TypeOK', NEW c \in Conversas, RetomarReserva(c)
  PROVE  BancoConsistente'
<1>1. /\ conversa[c] \in Linha /\ execucao[c] \in [Fases -> EstadosExecucao]
      /\ Coerente(conversa[c], execucao[c]) /\ execucao[c]["saida"] # "inexistente"
  BY PorLinha, TabelasTipadas DEF RetomarReserva
<1>2. conversa[c].status # "NAO_ABERTA" /\ execucao[c]["entrada"] \notin Vivas
  BY <1>1 DEF Coerente, Encerraveis
<1>3. bot'.conversa = c /\ conversa' = conversa /\ execucao' = execucao
  BY DEF RetomarReserva, Tarefa, TabelasIguais
<1> QED
  BY <1>1, <1>2, <1>3, UmaLinhaMuda

LEMMA ConsistenteNoCron ==
  ASSUME BancoConsistente, TypeOK', NEW c \in Conversas, LeInativa(c) \/ FinalizarPorInatividade(c)
  PROVE  BancoConsistente'
<1> DEFINE l == conversa[c]
           n == EncerraNaoAssumido(l, "FINALIZADO_POR_INATIVIDADE")
<1>0. TypeOK /\ l \in Linha /\ execucao[c] \in [Fases -> EstadosExecucao] /\ Coerente(l, execucao[c])
  BY PorLinha, TabelasTipadas
<1>1. CASE LeInativa(c) \/ (FinalizarPorInatividade(c) /\ conversa' = conversa)
  BY <1>1, TabelasIguaisConsistente DEF LeInativa, FinalizarPorInatividade, TabelasIguais
<1>2. CASE FinalizarPorInatividade(c) /\ l.status = "EM_ANDAMENTO"
  <2>1. Coerente(n, execucao[c]) /\ n.status # "NAO_ABERTA"
    BY <1>0, <1>2, LinhaQueSeEncerra DEF Linha, EncerraNaoAssumido
  <2>2. Grava(c, n) /\ execucao' = execucao /\ bot' = bot
    BY <1>2 DEF FinalizarPorInatividade
  <2> HIDE DEF n
  <2>3. conversa'[c] = n /\ \A d \in Conversas \ {c} : conversa'[d] = conversa[d]
    BY <1>0, <2>2 DEF TypeOK, Grava
  <2> QED
    BY <2>1, <2>2, <2>3, UmaLinhaMuda
<1> QED
  BY <1>1, <1>2 DEF FinalizarPorInatividade

LEMMA ConsistenteNaAdministracao ==
  ASSUME BancoConsistente, TypeOK', Queda \/ \E k \in Chaves : Desligar(k) \/ Ligar(k)
  PROVE  BancoConsistente'
<1>1. CASE Queda
  BY <1>1, TabelasIguaisConsistente DEF Queda
<1>2. ASSUME NEW k \in Chaves, Ligar(k) PROVE BancoConsistente'
  BY <1>2, TabelasIguaisConsistente DEF Ligar
<1>3. ASSUME NEW k \in Chaves, Desligar(k) PROVE BancoConsistente'
  <2> DEFINE n(c) == [conversa[c] EXCEPT !.pos = FALSE,
                 !.status = IF @ = "EM_FILA" /\ conversa[c].dono = Ninguem THEN "AGUARDANDO" ELSE @]
  <2>0. \A c \in Conversas : /\ conversa[c] \in Linha /\ execucao[c] \in [Fases -> EstadosExecucao]
                            /\ Coerente(conversa[c], execucao[c])
    BY PorLinha, TabelasTipadas
  <2>1. \A c \in Conversas : Coerente(n(c), Abortadas(execucao[c]))
    BY <2>0, LinhaDesligada
  <2>2. \A c \in Conversas : /\ n(c).status = "NAO_ABERTA" => conversa[c].status = "NAO_ABERTA"
                            /\ Abortadas(execucao[c])["entrada"] \notin Vivas
    BY <2>0, AbortadasMortas DEF Linha, Fases
  <2>3. \A c \in Conversas : conversa'[c] = n(c) /\ execucao'[c] = Abortadas(execucao[c])
    BY <1>3 DEF Desligar
  <2> HIDE DEF n
  <2>4. \A c \in Conversas : Coerente(conversa'[c], execucao'[c])
    BY <2>1, <2>3
  <2>5. bot' = bot /\ (bot # Livre => bot.conversa \in Conversas)
    BY <1>3, PorLinha DEF Desligar, TypeOK, TarefaDoBot
  <2>6. TarefaSemEntradaViva'
    BY <2>2, <2>3, <2>5, PorLinha DEF TarefaSemEntradaViva
  <2> QED
    BY <2>4, <2>6, PorLinhaDepois
<1> QED
  BY <1>1, <1>2, <1>3

LEMMA ConsistentePreservado == BancoConsistente /\ [Next]_vars => BancoConsistente'
<1>1. BancoConsistente /\ UNCHANGED vars => BancoConsistente'
  BY DEF vars, BancoConsistente, TypeOK, DonoConformeStatus, ReservaSoEmEncerrada,
         SemBotNoAtendimento, SemDonoAntesDeAbrir, SaidaSoDeEncerrada, TarefaSemEntradaViva
<1>2. ASSUME BancoConsistente, Next PROVE BancoConsistente'
  <2>1. TypeOK'
    BY <1>2, PorLinha, TipoPreservado
  <2> QED
    BY <1>2, <2>1, ConsistenteNaLeitura, ConsistenteNaReleitura, ConsistenteNaGravacao,
       ConsistenteNoWebhook, ConsistenteNoPasso, ConsistenteAposOCommit, ConsistenteNaReserva, ConsistenteNoCron,
       ConsistenteNaAdministracao
       DEF Next
<1> QED
  BY <1>1, <1>2

\* The database never leaves its consistent states, however many actors interleave.
THEOREM Consistencia == Spec => []BancoConsistente
BY ConsistenteNoInicio, ConsistentePreservado, PTL DEF Spec

\* A chat has an owner exactly while it is attended.
THEOREM DonoSempreConforme == Spec => []DonoConformeStatus
<1>1. BancoConsistente => DonoConformeStatus
  BY DEF BancoConsistente
<1> QED
  BY <1>1, Consistencia, PTL

\* The CHECK constraint on pos_atendimento_ativo never fires.
THEOREM ReservaSempreEncerrada == Spec => []ReservaSoEmEncerrada
<1>1. BancoConsistente => ReservaSoEmEncerrada
  BY DEF BancoConsistente
<1> QED
  BY <1>1, Consistencia, PTL

\* The bot never runs over a human.
THEOREM BotNuncaNoAtendimento == Spec => []SemBotNoAtendimento
<1>1. BancoConsistente => SemBotNoAtendimento
  BY DEF BancoConsistente
<1> QED
  BY <1>1, Consistencia, PTL

================================================================================
