---------------------------- MODULE AtendimentoAcoes ----------------------------
(* What no step of Atendimento may do to a chat, and that its steps are those of *)
(* the life cycle of CicloDeVida, which it implements: each of them is a step of *)
(* the life cycle or leaves it as it is.  For every value of the constants.      *)
EXTENDS AtendimentoProofs

\* The conditions of the WHERE clauses are plain abbreviations.
USE DEF EsperaNoSetor, AindaDoDono, StatusDe, NinguemAssumiu, ComOBot, EmAndamento

--------------------------------------------------------------------------------
(* How one row changes *)

Abre(l, n) == l.status = "NAO_ABERTA" /\ n.status \in NaoAssumidos /\ n.dono = Ninguem

Assumida(l, n) ==
  /\ l.status \in {"NAO_ABERTA"} \cup NaoAssumidos
  /\ n.status = "EM_ANDAMENTO" /\ n.dono \in Atendentes

\* Paused, resumed, or moved to another department by the bot.
Anota(l, n) == l.status \notin Finais /\ n.status = l.status /\ n.dono = l.dono

Passada(l, n) == l.status = "EM_ANDAMENTO" /\ n.status = "EM_ANDAMENTO" /\ n.dono \in Atendentes

Volta(l, n) ==
  l.status \in {"EM_FILA", "EM_ANDAMENTO"} /\ n.status = "AGUARDANDO" /\ n.dono = Ninguem

Encerrada(l, n) ==
  /\ n.dono = l.dono /\ n.status \in Finais
  /\ IF l.status = "EM_ANDAMENTO"
     THEN n.status \in {"FINALIZADO", "FINALIZADO_POR_INATIVIDADE"}
     ELSE /\ l.status \in NaoAssumidos
          /\ n.status \in {"FINALIZADO_SEM_RESPOSTA", "FINALIZADO_PELO_CHATBOT"}
  /\ n.pos => n.status \in Encerraveis

Liberada(l, n) == n = [l EXCEPT !.pos = FALSE]

Transicao(l, n) ==
  \/ Abre(l, n) \/ Assumida(l, n) \/ Anota(l, n) \/ Passada(l, n)
  \/ Volta(l, n) \/ Encerrada(l, n) \/ Liberada(l, n)

UmaTransicao ==
  \E c \in Conversas :
    /\ \A d \in Conversas \ {c} : conversa'[d] = conversa[d]
    /\ Transicao(conversa[c], conversa'[c])

LEMMA TransicaoGravada ==
  ASSUME TypeOK, NEW c \in Conversas, NEW n, Grava(c, n), Transicao(conversa[c], n)
  PROVE  UmaTransicao
BY DEF TypeOK, Grava, UmaTransicao

LEMMA AbreQuandoNova ==
  ASSUME NEW l, l.status = "NAO_ABERTA"
  PROVE  /\ \A u \in Atendentes, s \in Setores : Transicao(l, Assume(LinhaNova(s), u))
         /\ \A b \in BOOLEAN :
              Transicao(l, [LinhaNova(SetorPadrao) EXCEPT
                              !.status = IF b THEN "EM_FILA" ELSE "AGUARDANDO"])
<1>1. \A s \in Setores, u \in Atendentes :
        Assume(LinhaNova(s), u).status = "EM_ANDAMENTO" /\ Assume(LinhaNova(s), u).dono = u
  BY DEF Assume, LinhaNova, LinhaAusente
<1>2. ASSUME NEW b \in BOOLEAN
      PROVE  LET n == [LinhaNova(SetorPadrao) EXCEPT !.status = IF b THEN "EM_FILA" ELSE "AGUARDANDO"]
             IN n.status \in NaoAssumidos /\ n.dono = Ninguem
  BY DEF LinhaNova, LinhaAusente, NaoAssumidos
<1> QED
  BY <1>1, <1>2 DEF Transicao, Abre, Assumida

LEMMA TransicoesDeQuemEspera ==
  ASSUME NEW l \in Linha, l.status \in NaoAssumidos, ~l.pos
  PROVE  /\ \A u \in Atendentes : Transicao(l, Assume(l, u))
         /\ Transicao(l, EncerraNaoAssumido(l, "FINALIZADO_SEM_RESPOSTA"))
         /\ Transicao(l, EncerraNaoAssumido(l, "FINALIZADO_PELO_CHATBOT"))
         /\ Transicao(l, [EncerraNaoAssumido(l, "FINALIZADO_PELO_CHATBOT") EXCEPT !.pos = TRUE])
         /\ \A s \in Setores : Transicao(l, [l EXCEPT !.setor = s])
<1>1. ASSUME NEW u \in Atendentes PROVE Transicao(l, Assume(l, u))
  <2>1. Assume(l, u).status = "EM_ANDAMENTO" /\ Assume(l, u).dono = u
    BY DEF Assume, Linha
  <2> QED
    BY <2>1 DEF Transicao, Assumida
<1>2. ASSUME NEW st \in {"FINALIZADO_SEM_RESPOSTA", "FINALIZADO_PELO_CHATBOT"}
      PROVE  Transicao(l, EncerraNaoAssumido(l, st))
  <2>1. /\ EncerraNaoAssumido(l, st).status = st /\ EncerraNaoAssumido(l, st).dono = l.dono
        /\ ~EncerraNaoAssumido(l, st).pos
    BY DEF EncerraNaoAssumido, Linha
  <2> QED
    BY <2>1 DEF Transicao, Encerrada, Finais, NaoAssumidos
<1>3. Transicao(l, [EncerraNaoAssumido(l, "FINALIZADO_PELO_CHATBOT") EXCEPT !.pos = TRUE])
  <2> DEFINE n == [EncerraNaoAssumido(l, "FINALIZADO_PELO_CHATBOT") EXCEPT !.pos = TRUE]
  <2>1. n.status = "FINALIZADO_PELO_CHATBOT" /\ n.dono = l.dono
    BY DEF EncerraNaoAssumido, Linha
  <2> HIDE DEF n
  <2>2. Transicao(l, n)
    BY <2>1 DEF Transicao, Encerrada, Finais, NaoAssumidos, Encerraveis
  <2> QED
    BY <2>2 DEF n
<1>4. ASSUME NEW s \in Setores PROVE Transicao(l, [l EXCEPT !.setor = s])
  <2>1. [l EXCEPT !.setor = s].status = l.status /\ [l EXCEPT !.setor = s].dono = l.dono
    BY DEF Linha
  <2> QED
    BY <2>1 DEF Transicao, Anota, NaoAssumidos, Finais
<1> QED
  BY <1>1, <1>2, <1>3, <1>4

LEMMA TransicoesDoAtendimento ==
  ASSUME NEW l \in Linha, l.status = "EM_ANDAMENTO", ~l.pos
  PROVE  /\ \A b \in BOOLEAN : Transicao(l, [l EXCEPT !.pausada = b])
         /\ Transicao(l, Encerra(l, "FINALIZADO"))
         /\ Transicao(l, [Encerra(l, "FINALIZADO") EXCEPT !.pos = TRUE])
         /\ Transicao(l, EncerraNaoAssumido(l, "FINALIZADO_POR_INATIVIDADE"))
<1>1. ASSUME NEW b \in BOOLEAN PROVE Transicao(l, [l EXCEPT !.pausada = b])
  <2>1. [l EXCEPT !.pausada = b].status = l.status /\ [l EXCEPT !.pausada = b].dono = l.dono
    BY DEF Linha
  <2> QED
    BY <2>1 DEF Transicao, Anota, Finais
<1>2. Transicao(l, Encerra(l, "FINALIZADO"))
  <2>1. /\ Encerra(l, "FINALIZADO").status = "FINALIZADO"
        /\ Encerra(l, "FINALIZADO").dono = l.dono
    BY DEF Encerra, Linha
  <2> QED
    BY <2>1 DEF Transicao, Encerrada, Finais, Encerraveis
<1>3. Transicao(l, [Encerra(l, "FINALIZADO") EXCEPT !.pos = TRUE])
  <2> DEFINE n == [Encerra(l, "FINALIZADO") EXCEPT !.pos = TRUE]
  <2>1. n.status = "FINALIZADO" /\ n.dono = l.dono
    BY DEF Encerra, Linha
  <2> HIDE DEF n
  <2>2. Transicao(l, n)
    BY <2>1 DEF Transicao, Encerrada, Finais, Encerraveis
  <2> QED
    BY <2>2 DEF n
<1>4. Transicao(l, EncerraNaoAssumido(l, "FINALIZADO_POR_INATIVIDADE"))
  <2> DEFINE n == EncerraNaoAssumido(l, "FINALIZADO_POR_INATIVIDADE")
  <2>1. n.status = "FINALIZADO_POR_INATIVIDADE" /\ n.dono = l.dono /\ ~n.pos
    BY DEF EncerraNaoAssumido, Linha
  <2> HIDE DEF n
  <2>2. Transicao(l, n)
    BY <2>1 DEF Transicao, Encerrada, Finais
  <2> QED
    BY <2>2 DEF n
<1> QED
  BY <1>1, <1>2, <1>3, <1>4

LEMMA TransicoesDePassagem ==
  ASSUME NEW l \in Linha, NEW u \in Donos, NEW s \in Setores
  PROVE  /\ l.status = "EM_ANDAMENTO" =>
              Transicao(l, [l EXCEPT !.dono = u, !.setor = s, !.pausada = FALSE,
                              !.esperando = (u = Ninguem),
                              !.status = StatusDe(u)])
         /\ l.status = "EM_FILA" =>
              Transicao(l, [l EXCEPT !.setor = s, !.dono = u,
                              !.status = StatusDe(u),
                              !.esperando = (u = Ninguem),
                              !.respondida = @ \/ u # Ninguem])
<1>1. ASSUME l.status \in {"EM_ANDAMENTO", "EM_FILA"}, NEW n, n.dono = u,
             n.status = StatusDe(u)
      PROVE  Transicao(l, n)
  BY <1>1 DEF Transicao, Passada, Assumida, Volta, NaoAssumidos, Donos
<1>2. LET n == [l EXCEPT !.dono = u, !.setor = s, !.pausada = FALSE, !.esperando = (u = Ninguem),
                         !.status = StatusDe(u)]
      IN n.dono = u /\ n.status = StatusDe(u)
  BY DEF Linha
<1>3. LET n == [l EXCEPT !.setor = s, !.dono = u,
                         !.status = StatusDe(u),
                         !.esperando = (u = Ninguem), !.respondida = @ \/ u # Ninguem]
      IN n.dono = u /\ n.status = StatusDe(u)
  BY DEF Linha
<1> QED
  BY <1>1, <1>2, <1>3

LEMMA TransicoesDoBot ==
  ASSUME NEW l \in Linha
  PROVE  /\ l.status = "EM_FILA" /\ l.dono = Ninguem => Transicao(l, [l EXCEPT !.status = "AGUARDANDO"])
         /\ Transicao(l, [l EXCEPT !.pos = FALSE])
<1>1. /\ [l EXCEPT !.status = "AGUARDANDO"].status = "AGUARDANDO"
      /\ [l EXCEPT !.status = "AGUARDANDO"].dono = l.dono
  BY DEF Linha
<1> QED
  BY <1>1 DEF Transicao, Volta, Liberada

--------------------------------------------------------------------------------
(* Every step changes at most one chat, in one of these ways, or switches off *)

LEMMA GravacaoTransita ==
  ASSUME BancoConsistente, Gravacao
  PROVE  conversa' = conversa \/ UmaTransicao
<1> SUFFICES ASSUME NEW r \in Requisicoes,
                    \/ Assumir(r) \/ Pausar(r) \/ Retomar(r) \/ Finalizar(r) \/ AutorizarSaida(r)
                    \/ FinalizarComFluxoSaida(r) \/ Transferir(r)
                    \/ FinalizarSemAtendimento(r) \/ CriarNova(r)
             PROVE  conversa' = conversa \/ UmaTransicao
  BY DEF Gravacao
<1> DEFINE p == pedido[r]
           c == p.conversa
           l == conversa[c]
<1>0. TypeOK
  BY PorLinha
<1>a. ASSUME NEW op, Executa(r, op)
      PROVE  /\ c \in Conversas /\ p.quem \in Atendentes
             /\ p.setor \in Setores /\ p.destino \in Donos
             /\ l \in Linha
             /\ l.status \in {"EM_ANDAMENTO"} \cup NaoAssumidos => ~l.pos
  BY <1>0, <1>a, PedidoEmMaos, TabelasTipadas, PorLinha DEF Coerente, NaoAssumidos, Encerraveis
<1>b. ASSUME NEW n, Grava(c, n), Transicao(l, n), NEW op, Executa(r, op)
      PROVE  UmaTransicao
  BY <1>0, <1>a, <1>b, TransicaoGravada
<1>1. CASE Assumir(r)
  <2>1. Executa(r, "iniciar")
    BY <1>1 DEF Assumir
  <2>2. \/ conversa' = conversa
        \/ l.status \in NaoAssumidos /\ Grava(c, Assume(l, p.quem))
    BY <1>1 DEF Assumir, TabelasIguais
  <2> QED
    BY <1>a, <1>b, <2>1, <2>2, TransicoesDeQuemEspera
<1>2. CASE Pausar(r)
  <2>1. Executa(r, "pausar")
    BY <1>2 DEF Pausar
  <2>2. \/ conversa' = conversa
        \/ l.status = "EM_ANDAMENTO" /\ Grava(c, [l EXCEPT !.pausada = TRUE])
    BY <1>2 DEF Pausar
  <2> QED
    BY <1>a, <1>b, <2>1, <2>2, TransicoesDoAtendimento
<1>3. CASE Retomar(r)
  <2>1. Executa(r, "retomar")
    BY <1>3 DEF Retomar
  <2>2. \/ conversa' = conversa
        \/ l.status = "EM_ANDAMENTO" /\ Grava(c, [l EXCEPT !.pausada = FALSE])
    BY <1>3 DEF Retomar
  <2> QED
    BY <1>a, <1>b, <2>1, <2>2, TransicoesDoAtendimento
<1>4. CASE Finalizar(r)
  <2>1. Executa(r, "finalizar")
    BY <1>4 DEF Finalizar
  <2>2. \/ conversa' = conversa
        \/ l.status = "EM_ANDAMENTO" /\ Grava(c, Encerra(l, "FINALIZADO"))
    BY <1>4 DEF Finalizar
  <2> QED
    BY <1>a, <1>b, <2>1, <2>2, TransicoesDoAtendimento
<1>5. CASE AutorizarSaida(r)
  BY <1>5 DEF AutorizarSaida, TabelasIguais
<1>6. CASE FinalizarComFluxoSaida(r)
  <2>1. Executa(r, "saidaAutorizada")
    BY <1>6 DEF FinalizarComFluxoSaida
  <2>2. \/ conversa' = conversa
        \/ l.status = "EM_ANDAMENTO" /\ Grava(c, [Encerra(l, "FINALIZADO") EXCEPT !.pos = TRUE])
    BY <1>6 DEF FinalizarComFluxoSaida, TabelasIguais
  <2> QED
    BY <1>a, <1>b, <2>1, <2>2, TransicoesDoAtendimento
<1>7. CASE Transferir(r)
  <2> DEFINE n == [l EXCEPT !.dono = p.destino, !.setor = p.setor, !.pausada = FALSE,
                         !.esperando = (p.destino = Ninguem),
                         !.status = StatusDe(p.destino)]
  <2>1. Executa(r, "transferir")
    BY <1>7 DEF Transferir
  <2>2. conversa' = conversa \/ (l.status = "EM_ANDAMENTO" /\ Grava(c, n))
    BY <1>7 DEF Transferir
  <2>3. l.status = "EM_ANDAMENTO" => Transicao(l, n)
    BY <1>a, <2>1, TransicoesDePassagem
  <2> HIDE DEF n
  <2> QED
    BY <1>b, <2>1, <2>2, <2>3
<1>8. CASE FinalizarSemAtendimento(r)
  <2>1. Executa(r, "descartar")
    BY <1>8 DEF FinalizarSemAtendimento
  <2>2. \/ conversa' = conversa
        \/ l.status \in NaoAssumidos /\ Grava(c, EncerraNaoAssumido(l, "FINALIZADO_SEM_RESPOSTA"))
    BY <1>8 DEF FinalizarSemAtendimento, TabelasIguais
  <2> QED
    BY <1>a, <1>b, <2>1, <2>2, TransicoesDeQuemEspera
<1>9. CASE CriarNova(r)
  <2>1. Executa(r, "criar")
    BY <1>9 DEF CriarNova
  <2>2. PICK d \in Conversas : /\ conversa[d].status = "NAO_ABERTA"
                               /\ Grava(d, Assume(LinhaNova(p.setor), p.quem))
    BY <1>9 DEF CriarNova
  <2> QED
    BY <1>0, <1>a, <2>1, <2>2, AbreQuandoNova, TransicaoGravada
<1> QED
  BY <1>1, <1>2, <1>3, <1>4, <1>5, <1>6, <1>7, <1>8, <1>9

LEMMA BotTransita ==
  ASSUME BancoConsistente, AposOCommit
  PROVE  conversa' = conversa \/ UmaTransicao
<1> DEFINE c == bot.conversa
           l == conversa[c]
<1>0. TypeOK /\ bot \in TarefaDoBot
  BY PorLinha DEF TypeOK, AposOCommit, NaEtapa, EncaminharPorChatbot, LeEncerrarPorChatbot,
           EncerrarComFluxoSaidaPorChatbot, FinalizarPorChatbot, LiberarProtocolo,
           DevolverInterrompida, ConcluirInterrompida
<1>1. /\ c \in Conversas /\ bot.setor \in Setores /\ bot.destino \in Donos
      /\ l \in Linha /\ (l.status \in NaoAssumidos => ~l.pos)
  BY <1>0, TabelasTipadas, PorLinha DEF TarefaDoBot, Coerente, NaoAssumidos, Encerraveis
<1>a. ASSUME NEW n, Grava(c, n), Transicao(l, n)
      PROVE  UmaTransicao
  BY <1>0, <1>1, <1>a, TransicaoGravada
<1>b. DevolveParaEspera(c) => conversa' = conversa \/ UmaTransicao
  BY <1>1, <1>a, TransicoesDoBot DEF DevolveParaEspera
<1>c. ConcluiPos(c) => conversa' = conversa \/ UmaTransicao
  BY <1>1, <1>a, TransicoesDoBot DEF ConcluiPos
<1>2. CASE EncaminharPorChatbot
  <2> DEFINE n == [l EXCEPT !.setor = bot.setor, !.dono = bot.destino,
                      !.status = StatusDe(bot.destino),
                      !.esperando = (bot.destino = Ninguem),
                      !.respondida = @ \/ bot.destino # Ninguem]
  <2>1. conversa' = conversa \/ (l.status = "EM_FILA" /\ Grava(c, n))
    BY <1>2 DEF EncaminharPorChatbot, TabelasIguais
  <2>2. l.status = "EM_FILA" => Transicao(l, n)
    BY <1>1, TransicoesDePassagem
  <2> HIDE DEF n
  <2> QED
    BY <1>a, <2>1, <2>2
<1>3. CASE LeEncerrarPorChatbot
  BY <1>3 DEF LeEncerrarPorChatbot, TabelasIguais
<1>4. CASE EncerrarComFluxoSaidaPorChatbot
  <2>1. \/ conversa' = conversa
        \/ /\ l.status = "EM_FILA"
           /\ Grava(c, [EncerraNaoAssumido(l, "FINALIZADO_PELO_CHATBOT") EXCEPT !.pos = TRUE])
    BY <1>4 DEF EncerrarComFluxoSaidaPorChatbot, TabelasIguais
  <2> QED
    BY <1>1, <1>a, <2>1, TransicoesDeQuemEspera DEF NaoAssumidos
<1>5. CASE FinalizarPorChatbot
  <2>1. \/ conversa' = conversa
        \/ l.status \in NaoAssumidos /\ Grava(c, EncerraNaoAssumido(l, "FINALIZADO_PELO_CHATBOT"))
    BY <1>5 DEF FinalizarPorChatbot
  <2> QED
    BY <1>1, <1>a, <2>1, TransicoesDeQuemEspera
<1>6. CASE LiberarProtocolo
  BY <1>6, <1>b, <1>c DEF LiberarProtocolo
<1>7. CASE DevolverInterrompida
  BY <1>7, <1>b DEF DevolverInterrompida
<1>8. CASE ConcluirInterrompida
  BY <1>8, <1>c DEF ConcluirInterrompida
<1> QED
  BY <1>2, <1>3, <1>4, <1>5, <1>6, <1>7, <1>8 DEF AposOCommit

LEMMA PassoTransita ==
  ASSUME BancoConsistente, NEW c \in Conversas, NEW f \in Fases, PassoDoBot(c, f)
  PROVE  conversa' = conversa \/ UmaTransicao
<1>0. TypeOK /\ conversa[c] \in Linha
  BY PorLinha, TabelasTipadas
<1>1. CASE PermitidoAoBot(c, f) /\ f = "entrada"
  <2>1. conversa[c].status \in NaoAssumidos /\ ~conversa[c].pos
    BY <1>1, PorLinha DEF PermitidoAoBot, NaoAssumidos, Coerente, Encerraveis
  <2>2. PICK s \in Setores : Grava(c, [conversa[c] EXCEPT !.setor = s])
    BY <1>1 DEF PassoDoBot
  <2> QED
    BY <1>0, <2>1, <2>2, TransicoesDeQuemEspera, TransicaoGravada
<1>2. CASE ~(PermitidoAoBot(c, f) /\ f = "entrada")
  BY <1>2 DEF PassoDoBot
<1> QED
  BY <1>1, <1>2

LEMMA CronTransita ==
  ASSUME BancoConsistente, NEW c \in Conversas, FinalizarPorInatividade(c)
  PROVE  conversa' = conversa \/ UmaTransicao
<1>1. TypeOK /\ conversa[c] \in Linha /\ (conversa[c].status = "EM_ANDAMENTO" => ~conversa[c].pos)
  BY PorLinha, TabelasTipadas DEF Coerente, Encerraveis
<1>2. \/ conversa' = conversa
      \/ /\ conversa[c].status = "EM_ANDAMENTO"
         /\ Grava(c, EncerraNaoAssumido(conversa[c], "FINALIZADO_POR_INATIVIDADE"))
  BY DEF FinalizarPorInatividade
<1> QED
  BY <1>1, <1>2, TransicoesDoAtendimento, TransicaoGravada

LEMMA WebhookTransita ==
  ASSUME BancoConsistente, AbrirConversa
  PROVE  UmaTransicao
<1>1. TypeOK /\ webhook.comFluxo \in BOOLEAN
  BY PorLinha DEF AbrirConversa, TypeOK, AberturaPendente
<1>2. PICK c \in Conversas :
        /\ conversa[c].status = "NAO_ABERTA"
        /\ Grava(c, [LinhaNova(SetorPadrao) EXCEPT
                       !.status = IF webhook.comFluxo THEN "EM_FILA" ELSE "AGUARDANDO"])
  BY DEF AbrirConversa
<1> QED
  BY <1>1, <1>2, AbreQuandoNova, TransicaoGravada

LEMMA PassoPorLinha ==
  ASSUME BancoConsistente, Next
  PROVE  conversa' = conversa \/ UmaTransicao \/ \E k \in Chaves : Desligar(k)
<1>1. Leitura \/ Releitura => conversa' = conversa
  BY PorLinha, LeituraChega, ReleituraSegue DEF Chega, TabelasIguais
<1>2. ReceberMensagem \/ DecidirAcaoDoChatbot => conversa' = conversa
  BY DEF ReceberMensagem, DecidirAcaoDoChatbot, TabelasIguais
<1>3. \A c \in Conversas : RetomarReserva(c) \/ LeInativa(c) => conversa' = conversa
  BY DEF RetomarReserva, LeInativa, TabelasIguais
<1>4. Queda \/ (\E k \in Chaves : Ligar(k)) => conversa' = conversa
  BY DEF Queda, Ligar, TabelasIguais
<1> QED
  BY <1>1, <1>2, <1>3, <1>4, GravacaoTransita, BotTransita, PassoTransita, CronTransita,
     WebhookTransita
     DEF Next

--------------------------------------------------------------------------------
(* A finished chat *)

\* A finished protocol keeps how it ended, whose it was and its department.
THEOREM FinalPermanente == Spec => FinalEhPermanente
<1> DEFINE Mantem(c) == conversa[c].status \in Finais =>
                          /\ conversa'[c].status = conversa[c].status
                          /\ conversa'[c].dono = conversa[c].dono
                          /\ conversa'[c].setor = conversa[c].setor
<1>1. ASSUME BancoConsistente, Next, NEW c \in Conversas PROVE Mantem(c)
  <2>0. conversa[c] \in Linha
    BY <1>1, PorLinha, TabelasTipadas
  <2>1. CASE conversa' = conversa
    BY <2>1
  <2>2. CASE UmaTransicao
    <3>1. conversa'[c] = conversa[c] \/ Transicao(conversa[c], conversa'[c])
      BY <2>2 DEF UmaTransicao
    <3>2. conversa[c].status \in Finais /\ Transicao(conversa[c], conversa'[c])
            => conversa'[c] = [conversa[c] EXCEPT !.pos = FALSE]
      BY DEF Transicao, Abre, Assumida, Anota, Passada, Volta, Encerrada, Liberada,
             Finais, NaoAssumidos
    <3> QED
      BY <2>0, <3>1, <3>2 DEF Linha
  <2>3. CASE \E k \in Chaves : Desligar(k)
    <3>1. conversa'[c] = [conversa[c] EXCEPT !.pos = FALSE,
            !.status = IF @ = "EM_FILA" /\ conversa[c].dono = Ninguem THEN "AGUARDANDO" ELSE @]
      BY <2>3 DEF Desligar
    <3>2. /\ conversa'[c].dono = conversa[c].dono /\ conversa'[c].setor = conversa[c].setor
          /\ conversa[c].status # "EM_FILA" => conversa'[c].status = conversa[c].status
      BY <2>0, <3>1 DEF Linha
    <3> QED
      BY <3>2 DEF Finais
  <2> QED
    BY <1>1, <2>1, <2>2, <2>3, PassoPorLinha
<1>2. BancoConsistente /\ [Next]_vars => [\A c \in Conversas : Mantem(c)]_vars
  BY <1>1
<1> QED
  BY <1>2, Consistencia, PTL DEF Spec, FinalEhPermanente

--------------------------------------------------------------------------------
(* The human and the bot *)

\* Neither the bot's steps nor what they leave to do write a chat in attendance.
LEMMA BotDeixaOAtendimento ==
  ASSUME BancoConsistente, NEW c \in Conversas, conversa[c].status = "EM_ANDAMENTO",
         AposOCommit \/ \E d \in Conversas : \E f \in Fases : PassoDoBot(d, f)
  PROVE  conversa'[c] = conversa[c]
<1>0. TypeOK
  BY PorLinha
<1>1. CASE AposOCommit
  <2>1. \/ conversa' = conversa
        \/ conversa[bot.conversa].status # "EM_ANDAMENTO" /\ \E n : Grava(bot.conversa, n)
    BY <1>1 DEF AposOCommit, EncaminharPorChatbot, LeEncerrarPorChatbot, Encerraveis,
           EncerrarComFluxoSaidaPorChatbot, FinalizarPorChatbot, LiberarProtocolo, TabelasIguais,
           DevolverInterrompida, ConcluirInterrompida, DevolveParaEspera, ConcluiPos, NaoAssumidos
  <2> QED
    BY <1>0, <2>1 DEF Grava, TypeOK
<1>2. ASSUME NEW d \in Conversas, NEW f \in Fases, PassoDoBot(d, f)
      PROVE  conversa'[c] = conversa[c]
  <2>1. \/ conversa' = conversa
        \/ conversa[d].status # "EM_ANDAMENTO" /\ \E n : Grava(d, n)
    BY <1>2 DEF PassoDoBot, PermitidoAoBot
  <2> QED
    BY <1>0, <2>1 DEF Grava, TypeOK
<1> QED
  BY <1>1, <1>2

\* What the chatbot worker still had to do leaves a chat that was taken as it is.
THEOREM HumanoSemprePrevalece == Spec => HumanoPrevalece
<1> DEFINE Deixa(c) == bot' # bot /\ conversa[c].status = "EM_ANDAMENTO" => conversa'[c] = conversa[c]
<1>1. ASSUME BancoConsistente, Next, NEW c \in Conversas PROVE Deixa(c)
  <2>1. AposOCommit \/ (\E d \in Conversas : \E f \in Fases : PassoDoBot(d, f)) => Deixa(c)
    BY <1>1, BotDeixaOAtendimento
  <2>2. (\E d \in Conversas : RetomarReserva(d)) \/ Queda => conversa' = conversa
    BY DEF RetomarReserva, Queda, TabelasIguais
  <2>3. Leitura \/ Releitura => bot' = bot
    BY <1>1, PorLinha, LeituraChega, ReleituraSegue DEF Chega, SoOPedido
  <2>4. Gravacao => bot' = bot
    BY DEF Gravacao, Assumir, Pausar, Retomar, Finalizar, AutorizarSaida, FinalizarComFluxoSaida,
           Transferir, FinalizarSemAtendimento, CriarNova, Responde, SoOPedido
  <2>5. ReceberMensagem \/ DecidirAcaoDoChatbot \/ AbrirConversa => bot' = bot
    BY DEF ReceberMensagem, DecidirAcaoDoChatbot, AbrirConversa
  <2>6. \A d \in Conversas : LeInativa(d) \/ FinalizarPorInatividade(d) => bot' = bot
    BY DEF LeInativa, FinalizarPorInatividade
  <2>7. \A k \in Chaves : Desligar(k) \/ Ligar(k) => bot' = bot
    BY DEF Desligar, Ligar
  <2> QED
    BY <1>1, <2>1, <2>2, <2>3, <2>4, <2>5, <2>6, <2>7 DEF Next
<1>2. BancoConsistente /\ [Next]_vars => [\A c \in Conversas : Deixa(c)]_vars
  BY <1>1
<1> QED
  BY <1>2, Consistencia, PTL DEF Spec, HumanoPrevalece

--------------------------------------------------------------------------------
(* Requests *)

\* The worker's, the webhook's, the cron's and the administrator's steps keep every request.
LEMMA SoRequisicoesMudamPedidos ==
  ASSUME Next
  PROVE  pedido' = pedido \/ Leitura \/ Releitura \/ Gravacao \/ Queda
BY DEF Next, ReceberMensagem, DecidirAcaoDoChatbot, AbrirConversa, PassoDoBot,
       AposOCommit, EncaminharPorChatbot, LeEncerrarPorChatbot, Segue, SoOBot,
       EncerrarComFluxoSaidaPorChatbot, FinalizarPorChatbot, LiberarProtocolo,
       DevolverInterrompida, ConcluirInterrompida, RetomarReserva, LeInativa,
       FinalizarPorInatividade, Desligar, Ligar

\* The transaction of one request leaves the others as they are.
LEMMA GravacaoDeOutro ==
  ASSUME TypeOK, NEW r \in Requisicoes, NEW s \in Requisicoes, s # r,
         \/ Assumir(s) \/ Pausar(s) \/ Retomar(s) \/ Finalizar(s) \/ AutorizarSaida(s)
         \/ FinalizarComFluxoSaida(s) \/ Transferir(s)
         \/ FinalizarSemAtendimento(s) \/ CriarNova(s)
  PROVE  pedido'[r] = pedido[r]
<1>1. pedido' = [pedido EXCEPT ![s] = pedido'[s]]
  BY DEF TypeOK, Assumir, Pausar, Retomar, Finalizar, AutorizarSaida, FinalizarComFluxoSaida,
         Transferir, FinalizarSemAtendimento, CriarNova, Responde
<1> QED
  BY <1>1 DEF TypeOK

\* A step other than the second reading or the transaction of request r, or a crash,
\* leaves r as it is.
LEMMA PedidoSoMudaAoSeguir ==
  ASSUME TypeOK, Next, NEW r \in Requisicoes, pedido[r] # Livre
  PROVE  \/ pedido'[r] = pedido[r]
         \/ (pedido[r].op = "validado" /\ Releitura)
         \/ Queda
         \/ Assumir(r) \/ Pausar(r) \/ Retomar(r) \/ Finalizar(r) \/ AutorizarSaida(r)
         \/ FinalizarComFluxoSaida(r) \/ Transferir(r) \/ FinalizarSemAtendimento(r) \/ CriarNova(r)
<1>1. Leitura => pedido'[r] = pedido[r]
  BY LeituraChega DEF Chega, TypeOK
<1>2. Releitura => pedido'[r] = pedido[r] \/ pedido[r].op = "validado"
  BY ReleituraSegue DEF TypeOK
<1>3. ASSUME NEW s \in Requisicoes, s # r,
             \/ Assumir(s) \/ Pausar(s) \/ Retomar(s) \/ Finalizar(s) \/ AutorizarSaida(s)
             \/ FinalizarComFluxoSaida(s) \/ Transferir(s)
             \/ FinalizarSemAtendimento(s) \/ CriarNova(s)
      PROVE  pedido'[r] = pedido[r]
  BY <1>3, GravacaoDeOutro
<1> QED
  BY <1>1, <1>2, <1>3, SoRequisicoesMudamPedidos DEF Gravacao

\* What was checked when a request was let in and still holds of what it remembers: a
\* transfer was asked for by a master or by the owner it had read; who takes or discards
\* a chat was cleared for the department the guard saw, or was its owner then.
Conferido(p) ==
  /\ p.op = "transferir" => p.quem \in Masters \cup {p.dono}
  /\ p.op \in {"validado", "iniciar", "descartar"} =>
       AlcancaSetor(p.quem, p.visto) \/ p.dono = p.quem

PedidosConferidos == \A r \in Requisicoes : pedido[r] # Livre => Conferido(pedido[r])

LEMMA LeituraConfere ==
  ASSUME TypeOK, Leitura
  PROVE  \E r \in Requisicoes : \E p : Chega(r, p) /\ Conferido(p)
<1>1. PICK r \in Requisicoes, u \in Atendentes :
        \/ LeCriar(r, u)
        \/ \E c \in Conversas :
             \/ ValidarAcesso(r, u, c) \/ LePausar(r, u, c) \/ LeRetomar(r, u, c)
             \/ LeFinalizar(r, u, c) \/ LeTransferir(r, u, c)
  BY DEF Leitura
<1>2. CASE LeCriar(r, u)
  <2>1. PICK c, setor : Chega(r, [NovoPedido("criar", u, c) EXCEPT !.setor = setor])
    BY <1>2 DEF LeCriar
  <2> DEFINE p == [NovoPedido("criar", u, c) EXCEPT !.setor = setor]
  <2>2. p.op = "criar"
    BY DEF NovoPedido
  <2> QED
    BY <2>1, <2>2 DEF Conferido
<1>3. CASE \E c \in Conversas : LeTransferir(r, u, c)
  <2>1. PICK c, destino, setor :
          /\ Chega(r, [NovoPedido("transferir", u, c) EXCEPT !.destino = destino, !.setor = setor])
          /\ PodeAgir(u, c)
    BY <1>3 DEF LeTransferir
  <2> DEFINE p == [NovoPedido("transferir", u, c) EXCEPT !.destino = destino, !.setor = setor]
  <2>2. p.op = "transferir" /\ p.quem = u /\ p.dono = conversa[c].dono
    BY DEF NovoPedido
  <2> HIDE DEF p
  <2>3. Chega(r, p)
    BY <2>1 DEF p
  <2> QED
    BY <2>1, <2>2, <2>3 DEF PodeAgir, Conferido
<1>4. CASE \E c \in Conversas : LePausar(r, u, c) \/ LeRetomar(r, u, c) \/ LeFinalizar(r, u, c)
  <2>1. PICK c, op : /\ op \in {"pausar", "retomar", "finalizar", "finalizarComSaida"}
                     /\ Chega(r, NovoPedido(op, u, c))
    BY <1>4 DEF LePausar, LeRetomar, LeFinalizar
  <2>2. NovoPedido(op, u, c).op = op
    BY DEF NovoPedido
  <2> QED
    BY <2>1, <2>2 DEF Conferido
<1>5. CASE \E c \in Conversas : ValidarAcesso(r, u, c)
  <2>1. PICK c \in Conversas :
          PodeVer(u, conversa[c]) /\ Chega(r, NovoPedido("validado", u, c))
    BY <1>5 DEF ValidarAcesso
  <2> DEFINE p == NovoPedido("validado", u, c)
  <2>2. /\ p.op = "validado" /\ p.quem = u
        /\ p.dono = conversa[c].dono /\ p.visto = conversa[c].setor
    BY DEF NovoPedido
  <2>3. AlcancaSetor(u, conversa[c].setor) \/ conversa[c].dono = u
    BY <2>1 DEF PodeVer
  <2>4. Conferido(p)
    BY <2>2, <2>3 DEF Conferido
  <2> QED
    BY <2>1, <2>4
<1> QED
  BY <1>1, <1>2, <1>3, <1>4, <1>5

LEMMA SempreConferidos == Spec => []PedidosConferidos
<1>1. Init => PedidosConferidos
  BY DEF Init, PedidosConferidos
<1>2. ASSUME TypeOK, PedidosConferidos, Next PROVE PedidosConferidos'
  <2>1. CASE Leitura
    <3>1. PICK r \in Requisicoes : \E p : Chega(r, p) /\ Conferido(p)
      BY <1>2, <2>1, LeituraConfere
    <3>2. PICK p : Chega(r, p) /\ Conferido(p)
      BY <3>1
    <3>3. \A s \in Requisicoes : pedido'[s] = IF s = r THEN p ELSE pedido[s]
      BY <1>2, <3>2 DEF Chega, TypeOK
    <3> QED
      BY <1>2, <3>2, <3>3 DEF PedidosConferidos, Conferido, AlcancaSetor
  <2>2. CASE Releitura
    <3>1. PICK r \in Requisicoes, p \in Pedido \cup {Livre} :
            /\ pedido[r] # Livre /\ pedido[r].op = "validado"
            /\ p # Livre => /\ p.op \in {"iniciar", "descartar"}
                            /\ p.quem = pedido[r].quem /\ p.dono = pedido[r].dono
                            /\ p.visto = pedido[r].visto
            /\ pedido' = [pedido EXCEPT ![r] = p]
      BY <1>2, <2>2, ReleituraSegue
    <3>2. p # Livre => Conferido(p)
      BY <1>2, <3>1 DEF PedidosConferidos, Conferido
    <3>3. \A s \in Requisicoes : pedido'[s] = IF s = r THEN p ELSE pedido[s]
      BY <1>2, <3>1 DEF TypeOK
    <3> QED
      BY <1>2, <3>2, <3>3 DEF PedidosConferidos, Conferido, AlcancaSetor
  <2>3. CASE Gravacao
    <3>1. PICK r \in Requisicoes :
            \/ Assumir(r) \/ Pausar(r) \/ Retomar(r) \/ Finalizar(r) \/ AutorizarSaida(r)
            \/ FinalizarComFluxoSaida(r) \/ Transferir(r)
            \/ FinalizarSemAtendimento(r) \/ CriarNova(r)
      BY <2>3 DEF Gravacao
    <3>2. \A s \in Requisicoes : s # r => pedido'[s] = pedido[s]
      BY <1>2, <3>1, GravacaoDeOutro
    <3>3. AutorizarSaida(r) => pedido'[r] = Livre \/ pedido'[r].op = "saidaAutorizada"
      BY <1>2 DEF AutorizarSaida, Executa, TypeOK, Pedido
    <3>4. ~AutorizarSaida(r) => pedido'[r] = Livre
      BY <1>2, <3>1 DEF TypeOK, Assumir, Pausar, Retomar, Finalizar, FinalizarComFluxoSaida,
                        Transferir, FinalizarSemAtendimento, CriarNova, Responde
    <3> QED
      BY <1>2, <3>2, <3>3, <3>4 DEF PedidosConferidos, Conferido, AlcancaSetor
  <2>4. CASE Queda
    BY <2>4 DEF Queda, PedidosConferidos
  <2>5. CASE pedido' = pedido
    BY <1>2, <2>5 DEF PedidosConferidos, Conferido, AlcancaSetor
  <2> QED
    BY <1>2, <2>1, <2>2, <2>3, <2>4, <2>5, SoRequisicoesMudamPedidos
<1>3. TypeOK /\ PedidosConferidos /\ [Next]_vars => PedidosConferidos'
  BY <1>2 DEF vars, PedidosConferidos, Conferido, AlcancaSetor
<1> QED
  BY <1>1, <1>3, TipoCorreto, PTL DEF Spec

\* Taking a chat makes its taker the owner, in a department he is cleared for unless the
\* chat changed department, or its owner gave it up, since the guard read it.
THEOREM SempreNoSetorConferido == Spec => AssumeNoSetorConferido
<1> DEFINE Confere(r) ==
      Executa(r, "iniciar") /\ pedido'[r] = Livre =>
        LET p == pedido[r]
        IN conversa'[p.conversa] # conversa[p.conversa] =>
             /\ conversa'[p.conversa].dono = p.quem
             /\ \/ AlcancaSetor(p.quem, conversa'[p.conversa].setor)
                \/ /\ conversa'[p.conversa].setor = p.setor
                   /\ p.setor # p.visto \/ p.dono = p.quem
<1>1. ASSUME TypeOK, PedidosConferidos, Next, NEW r \in Requisicoes PROVE Confere(r)
  <2> SUFFICES ASSUME Executa(r, "iniciar"), pedido'[r] = Livre PROVE Confere(r)
    OBVIOUS
  <2> DEFINE p == pedido[r]
             c == p.conversa
             l == conversa[c]
  <2>1. Assumir(r) \/ Queda
    BY <1>1, PedidoSoMudaAoSeguir
       DEF Executa, Pausar, Retomar, Finalizar, AutorizarSaida, FinalizarComFluxoSaida, Transferir,
           FinalizarSemAtendimento, CriarNova
  <2>2. CASE Queda
    BY <2>2 DEF Queda, TabelasIguais
  <2>3. CASE Assumir(r)
    <3>1. c \in Conversas /\ l \in Linha
      BY <1>1, PedidoEmMaos, TabelasTipadas
    <3>2. conversa' = conversa \/ (l.setor = p.setor /\ Grava(c, Assume(l, p.quem)))
      BY <2>3 DEF Assumir, TabelasIguais
    <3>3. Assume(l, p.quem).dono = p.quem /\ Assume(l, p.quem).setor = l.setor
      BY <3>1 DEF Assume, Linha
    <3>4. AlcancaSetor(p.quem, p.visto) \/ p.dono = p.quem
      BY <1>1 DEF PedidosConferidos, Conferido, Executa
    <3>5. ASSUME conversa' # conversa
          PROVE  conversa'[c].dono = p.quem /\ conversa'[c].setor = p.setor
      BY <1>1, <3>1, <3>2, <3>3, <3>5 DEF Grava, TypeOK
    <3> QED
      BY <3>4, <3>5
  <2> QED
    BY <2>1, <2>2, <2>3
<1>2. TypeOK /\ PedidosConferidos /\ [Next]_vars => [\A r \in Requisicoes : Confere(r)]_vars
  BY <1>1
<1> QED
  BY <1>2, TipoCorreto, SempreConferidos, PTL DEF Spec, AssumeNoSetorConferido

--------------------------------------------------------------------------------
(* Handing an attendance over *)

\* Only a transfer takes a chat in attendance from its owner.
LEMMA SoTransferirMudaODono ==
  ASSUME BancoConsistente, Next, NEW c \in Conversas,
         conversa[c].dono # Ninguem, conversa'[c].dono # conversa[c].dono
  PROVE  \E r \in Requisicoes : Transferir(r)
<1>0. TypeOK /\ conversa[c] \in Linha /\ Coerente(conversa[c], execucao[c])
  BY PorLinha, TabelasTipadas
<1>1. conversa[c].status = "EM_ANDAMENTO" /\ conversa'[c].status \in {"EM_ANDAMENTO", "AGUARDANDO"}
  <2>1. CASE UmaTransicao
    <3>1. Transicao(conversa[c], conversa'[c])
      BY <2>1 DEF UmaTransicao
    <3>2. ~Liberada(conversa[c], conversa'[c])
      BY <1>0 DEF Liberada, Linha
    <3> QED
      BY <1>0, <3>1, <3>2 DEF Transicao, Abre, Assumida, Anota, Passada, Volta, Encerrada, Coerente,
                              NaoAssumidos
  <2>2. ASSUME NEW k \in Chaves, Desligar(k) PROVE FALSE
    <3>1. conversa'[c] = [conversa[c] EXCEPT !.pos = FALSE,
            !.status = IF @ = "EM_FILA" /\ conversa[c].dono = Ninguem THEN "AGUARDANDO" ELSE @]
      BY <2>2 DEF Desligar
    <3>2. conversa'[c].dono = conversa[c].dono
      BY <1>0, <3>1 DEF Linha
    <3> QED
      BY <3>2
  <2> QED
    BY <2>1, <2>2, PassoPorLinha
<1>2. Gravacao
  <2>1. ~AposOCommit /\ ~\E d \in Conversas : \E f \in Fases : PassoDoBot(d, f)
    BY <1>1, BotDeixaOAtendimento
  <2>2. ~AbrirConversa
    BY <1>0, <1>1 DEF AbrirConversa, Grava, TypeOK
  <2>3. ASSUME NEW d \in Conversas, FinalizarPorInatividade(d) PROVE FALSE
    <3>1. Grava(d, EncerraNaoAssumido(conversa[d], "FINALIZADO_POR_INATIVIDADE"))
      BY <2>3 DEF FinalizarPorInatividade
    <3>2. d = c
      BY <1>0, <3>1 DEF Grava, TypeOK
    <3>3. EncerraNaoAssumido(conversa[c], "FINALIZADO_POR_INATIVIDADE").dono = conversa[c].dono
      BY <1>0 DEF EncerraNaoAssumido, Linha
    <3> QED
      BY <1>0, <3>1, <3>2, <3>3 DEF Grava, TypeOK
  <2>4. ~\E k \in Chaves : Desligar(k)
    <3>1. ASSUME NEW k \in Chaves, Desligar(k) PROVE conversa'[c].dono = conversa[c].dono
      BY <1>0, <1>1, <3>1 DEF Desligar, Linha
    <3> QED
      BY <3>1
  <2>5. conversa' # conversa
    OBVIOUS
  <2> QED
    BY <2>1, <2>2, <2>3, <2>4, <2>5, <1>0, LeituraChega, ReleituraSegue
       DEF Next, Chega, TabelasIguais, ReceberMensagem, DecidirAcaoDoChatbot, RetomarReserva,
           LeInativa, Ligar, Queda
<1>3. PICK r \in Requisicoes :
        \/ Assumir(r) \/ Pausar(r) \/ Retomar(r) \/ Finalizar(r) \/ AutorizarSaida(r)
        \/ FinalizarComFluxoSaida(r) \/ Transferir(r) \/ FinalizarSemAtendimento(r) \/ CriarNova(r)
  BY <1>2 DEF Gravacao
<1> DEFINE d == pedido[r].conversa
<1>4. ASSUME NEW n, Grava(d, n), n.dono = conversa[d].dono PROVE FALSE
  BY <1>0, <1>4 DEF Grava, TypeOK
<1>5. ASSUME NEW n, Grava(d, n), conversa[d].status \in NaoAssumidos PROVE FALSE
  BY <1>0, <1>1, <1>5 DEF Grava, TypeOK, NaoAssumidos
<1>6. ~Assumir(r) /\ ~FinalizarSemAtendimento(r)
  BY <1>5 DEF Assumir, FinalizarSemAtendimento, TabelasIguais
<1>7. ~CriarNova(r)
  BY <1>0, <1>1 DEF CriarNova, Grava, TypeOK
<1>8. ASSUME Pausar(r) \/ Retomar(r) \/ Finalizar(r) \/ FinalizarComFluxoSaida(r) PROVE FALSE
  <2> DEFINE l == conversa[d]
  <2>1. l \in Linha
    BY <1>0, <1>8, PedidoEmMaos, TabelasTipadas
       DEF Pausar, Retomar, Finalizar, FinalizarComFluxoSaida
  <2>2. /\ \A b \in BOOLEAN : [l EXCEPT !.pausada = b].dono = l.dono
        /\ Encerra(l, "FINALIZADO").dono = l.dono
        /\ [Encerra(l, "FINALIZADO") EXCEPT !.pos = TRUE].dono = l.dono
    BY <2>1 DEF Linha, Encerra
  <2>3. \/ Grava(d, [l EXCEPT !.pausada = TRUE]) \/ Grava(d, [l EXCEPT !.pausada = FALSE])
        \/ Grava(d, Encerra(l, "FINALIZADO"))
        \/ Grava(d, [Encerra(l, "FINALIZADO") EXCEPT !.pos = TRUE])
    BY <1>8 DEF Pausar, Retomar, Finalizar, FinalizarComFluxoSaida, TabelasIguais
  <2> QED
    BY <1>4, <2>2, <2>3
<1> QED
  BY <1>3, <1>6, <1>7, <1>8 DEF AutorizarSaida, TabelasIguais

\* An owner is replaced only by a transfer that had read that owner, asked for by the
\* owner or by a master.
THEOREM SempreEntreguePorTransferencia == Spec => EntregaSoPorTransferencia
<1> DEFINE Entrega(c) ==
      conversa[c].dono # Ninguem /\ conversa'[c].dono # conversa[c].dono =>
        \E r \in Requisicoes :
          /\ Executa(r, "transferir") /\ pedido'[r] = Livre
          /\ pedido[r].conversa = c /\ pedido[r].dono = conversa[c].dono
          /\ pedido[r].quem \in Masters \cup {conversa[c].dono}
<1>1. ASSUME BancoConsistente, PedidosConferidos, Next, NEW c \in Conversas PROVE Entrega(c)
  <2> SUFFICES ASSUME conversa[c].dono # Ninguem, conversa'[c].dono # conversa[c].dono
               PROVE  Entrega(c)
    OBVIOUS
  <2>1. PICK r \in Requisicoes : Transferir(r)
    BY <1>1, SoTransferirMudaODono
  <2>2. TypeOK /\ Executa(r, "transferir") /\ pedido'[r] = Livre
    BY <1>1, <2>1, PorLinha DEF Transferir, Responde, TypeOK
  <2>3. \E n : Grava(pedido[r].conversa, n) /\ conversa[pedido[r].conversa].dono = pedido[r].dono
    BY <2>1 DEF Transferir
  <2>4. pedido[r].conversa = c
    BY <2>2, <2>3 DEF Grava, TypeOK
  <2>5. pedido[r].quem \in Masters \cup {conversa[c].dono}
    BY <1>1, <2>2, <2>3, <2>4 DEF PedidosConferidos, Conferido, Executa
  <2> QED
    BY <2>2, <2>3, <2>4, <2>5
<1>2. BancoConsistente /\ PedidosConferidos /\ [Next]_vars => [\A c \in Conversas : Entrega(c)]_vars
  BY <1>1
<1> QED
  BY <1>2, Consistencia, SempreConferidos, PTL DEF Spec, EntregaSoPorTransferencia

--------------------------------------------------------------------------------
(* What the life cycle sees of one row *)

Fase(l) ==
  CASE l.status = "NAO_ABERTA" -> "inexistente"
    [] l.status = "AGUARDANDO" -> "naFila"
    [] l.status = "EM_FILA" -> "comBot"
    [] l.status = "EM_ANDAMENTO" -> "emAtendimento"
    [] l.status \in Finais /\ l.pos -> "reservada"
    [] OTHER -> "encerrada"

Fim(l) == IF l.status \in Finais THEN l.status ELSE "nenhum"

LEMMA FaseConformeStatus ==
  ASSUME NEW l
  PROVE  /\ l.status = "NAO_ABERTA" => Fase(l) = "inexistente"
         /\ l.status = "AGUARDANDO" => Fase(l) = "naFila"
         /\ l.status = "EM_FILA" => Fase(l) = "comBot"
         /\ l.status = "EM_ANDAMENTO" => Fase(l) = "emAtendimento"
         /\ l.status \in Finais /\ l.pos => Fase(l) = "reservada"
         /\ l.status \in Finais /\ ~l.pos => Fase(l) = "encerrada"
         /\ l.status \notin Finais => Fim(l) = "nenhum"
         /\ l.status \in Finais => Fim(l) = l.status
<1>1. l.status \in Finais => l.status \notin {"NAO_ABERTA", "AGUARDANDO", "EM_FILA", "EM_ANDAMENTO"}
  BY DEF Finais
<1> QED
  BY <1>1 DEF Fase, Fim

LEMMA VistaPorLinha ==
  /\ EstadoDaConversa = [c \in Conversas |-> Fase(conversa[c])]
  /\ DonoDaConversa = [c \in Conversas |-> conversa[c].dono]
  /\ DesfechoDaConversa = [c \in Conversas |-> Fim(conversa[c])]
BY DEF EstadoDaConversa, DonoDaConversa, DesfechoDaConversa, Fase, Fim

LEMMA VistaPorLinhaDepois ==
  /\ EstadoDaConversa' = [c \in Conversas |-> Fase(conversa'[c])]
  /\ DonoDaConversa' = [c \in Conversas |-> conversa'[c].dono]
  /\ DesfechoDaConversa' = [c \in Conversas |-> Fim(conversa'[c])]
BY DEF EstadoDaConversa, DonoDaConversa, DesfechoDaConversa, Fase, Fim

\* One row changing is one entry of each function changing.
LEMMA VistaDeUmaLinha ==
  ASSUME NEW c \in Conversas, \A d \in Conversas \ {c} : conversa'[d] = conversa[d]
  PROVE  /\ EstadoDaConversa' = [EstadoDaConversa EXCEPT ![c] = Fase(conversa'[c])]
         /\ DonoDaConversa' = [DonoDaConversa EXCEPT ![c] = conversa'[c].dono]
         /\ DesfechoDaConversa' = [DesfechoDaConversa EXCEPT ![c] = Fim(conversa'[c])]
BY VistaPorLinha, VistaPorLinhaDepois

LEMMA VistaIgual ==
  ASSUME NEW c \in Conversas, \A d \in Conversas \ {c} : conversa'[d] = conversa[d],
         Fase(conversa'[c]) = Fase(conversa[c]), conversa'[c].dono = conversa[c].dono,
         Fim(conversa'[c]) = Fim(conversa[c])
  PROVE  UNCHANGED Ciclo!vars
BY VistaPorLinha, VistaPorLinhaDepois DEF Ciclo!vars

\* A change of phase and owner that does not end the chat.
LEMMA VistaPassa ==
  ASSUME NEW c \in Conversas, \A d \in Conversas \ {c} : conversa'[d] = conversa[d],
         Fim(conversa'[c]) = Fim(conversa[c])
  PROVE  Ciclo!Passa(c, Fase(conversa'[c]), conversa'[c].dono)
<1>1. DesfechoDaConversa' = DesfechoDaConversa
  BY VistaPorLinha, VistaPorLinhaDepois
<1> QED
  BY <1>1, VistaDeUmaLinha DEF Ciclo!Passa

--------------------------------------------------------------------------------
(* Every step of Atendimento is one of the life cycle *)

LEMMA InicioDoCiclo == Init => Ciclo!Init
BY DEF Init, Ciclo!Init, EstadoDaConversa, DonoDaConversa, DesfechoDaConversa, LinhaAusente, Finais

LEMMA TransicaoDoCiclo ==
  ASSUME TypeOK, TypeOK', UmaTransicao
  PROVE  Ciclo!Next \/ UNCHANGED Ciclo!vars
<1>1. PICK c \in Conversas : /\ \A d \in Conversas \ {c} : conversa'[d] = conversa[d]
                             /\ Transicao(conversa[c], conversa'[c])
  BY DEF UmaTransicao
<1> DEFINE l == conversa[c]
           n == conversa'[c]
<1>2. l \in Linha /\ n \in Linha
  BY DEF TypeOK
<1>3. /\ EstadoDaConversa[c] = Fase(l) /\ DonoDaConversa[c] = l.dono
  BY VistaPorLinha
<1>a. SUFFICES (Fim(n) = Fim(l) => Ciclo!Passa(c, Fase(n), n.dono)) =>
                 Ciclo!Next \/ UNCHANGED Ciclo!vars
  BY <1>1, VistaPassa
<1>b. SUFFICES ASSUME Fim(n) = Fim(l) => Ciclo!Passa(c, Fase(n), n.dono)
               PROVE  \/ Ciclo!Abrir(c) \/ Ciclo!Assumir(c) \/ Ciclo!VoltarAFila(c)
                      \/ Ciclo!Transferir(c) \/ Ciclo!Encerrar(c) \/ Ciclo!Liberar(c)
                      \/ UNCHANGED Ciclo!vars
  BY DEF Ciclo!Next
<1>4. CASE Abre(l, n)
  <2>1. Fase(l) = "inexistente" /\ Fase(n) \in Ciclo!Abertos /\ Fim(l) = "nenhum" /\ Fim(n) = "nenhum"
    BY <1>4, FaseConformeStatus DEF Abre, NaoAssumidos, Finais, Ciclo!Abertos
  <2> QED
    BY <1>b, <1>3, <1>4, <2>1 DEF Abre, Ciclo!Abrir
<1>5. CASE Assumida(l, n)
  <2>1. /\ Fase(l) \in Ciclo!Abertos \cup {"inexistente"} /\ Fase(n) = "emAtendimento"
        /\ Fim(l) = "nenhum" /\ Fim(n) = "nenhum" /\ n.dono \in Atendentes
    BY <1>5, FaseConformeStatus DEF Assumida, NaoAssumidos, Finais, Ciclo!Abertos
  <2> QED
    BY <1>b, <1>3, <2>1 DEF Ciclo!Abrir, Ciclo!Assumir
<1>6. CASE Anota(l, n)
  <2>1. Fase(n) = Fase(l) /\ Fim(n) = Fim(l) /\ n.dono = l.dono
    BY <1>2, <1>6 DEF Anota, Fase, Fim
  <2> QED
    BY <1>1, <2>1, VistaIgual
<1>7. CASE Passada(l, n)
  <2>1. /\ Fase(l) = "emAtendimento" /\ Fase(n) = "emAtendimento"
        /\ Fim(l) = "nenhum" /\ Fim(n) = "nenhum" /\ n.dono \in Atendentes
    BY <1>7, FaseConformeStatus DEF Passada, Finais
  <2>2. CASE n.dono = l.dono
    BY <1>1, <2>1, <2>2, VistaIgual
  <2>3. CASE n.dono # l.dono
    BY <1>b, <1>3, <2>1, <2>3 DEF Ciclo!Transferir
  <2> QED
    BY <2>2, <2>3
<1>8. CASE Volta(l, n)
  <2>1. /\ Fase(l) \in {"comBot", "emAtendimento"} /\ Fase(n) = "naFila"
        /\ Fim(l) = "nenhum" /\ Fim(n) = "nenhum" /\ n.dono = Ninguem
    BY <1>8, FaseConformeStatus DEF Volta, Finais
  <2> QED
    BY <1>b, <1>3, <2>1 DEF Ciclo!VoltarAFila
<1>9. CASE Encerrada(l, n)
  <2> DEFINE como == n.status
             para == Fase(n)
  <2>1. /\ como \in Ciclo!Humanos \cup Ciclo!Outros
        /\ Fase(l) \in IF como \in Ciclo!Humanos THEN {"emAtendimento"} ELSE Ciclo!Abertos
    BY <1>9, FaseConformeStatus
       DEF Encerrada, NaoAssumidos, Ciclo!Humanos, Ciclo!Outros, Ciclo!Abertos
  <2>2. /\ para \in {"reservada", "encerrada"} /\ (para = "reservada" => como \in Ciclo!ComSaida)
        /\ Fim(n) = como
    BY <1>2, <1>9, FaseConformeStatus DEF Encerrada, Linha, Encerraveis, Ciclo!ComSaida
  <2>3. /\ EstadoDaConversa' = [EstadoDaConversa EXCEPT ![c] = para]
        /\ DesfechoDaConversa' = [DesfechoDaConversa EXCEPT ![c] = como]
    BY <1>1, <2>2, VistaDeUmaLinha
  <2>4. DonoDaConversa' = DonoDaConversa
    BY <1>1, <1>9, VistaPorLinha, VistaPorLinhaDepois DEF Encerrada
  <2> HIDE DEF como, para
  <2> QED
    BY <1>3, <2>1, <2>2, <2>3, <2>4 DEF Ciclo!Encerrar
<1>10. CASE Liberada(l, n)
  <2>1. n.status = l.status /\ n.dono = l.dono /\ ~n.pos
    BY <1>2, <1>10 DEF Liberada, Linha
  <2>2. Fim(n) = Fim(l)
    BY <2>1 DEF Fim
  <2>3. CASE l.status \in Finais /\ l.pos
    <3>1. Fase(l) = "reservada" /\ Fase(n) = "encerrada"
      BY <2>1, <2>3, FaseConformeStatus
    <3>2. UNCHANGED <<DonoDaConversa, DesfechoDaConversa>>
      BY <1>1, <2>1, <2>2, VistaPorLinha, VistaPorLinhaDepois
    <3> QED
      BY <1>1, <1>3, <3>1, <3>2, VistaDeUmaLinha DEF Ciclo!Liberar
  <2>4. CASE ~(l.status \in Finais /\ l.pos)
    <3>1. Fase(n) = Fase(l)
      BY <2>1, <2>4 DEF Fase
    <3> QED
      BY <1>1, <2>1, <2>2, <3>1, VistaIgual
  <2> QED
    BY <2>3, <2>4
<1> QED
  BY <1>1, <1>4, <1>5, <1>6, <1>7, <1>8, <1>9, <1>10 DEF Transicao

LEMMA DesligarDoCiclo ==
  ASSUME BancoConsistente, NEW k \in Chaves, Desligar(k)
  PROVE  Ciclo!Next
<1> DEFINE n(c) == [conversa[c] EXCEPT !.pos = FALSE,
               !.status = IF @ = "EM_FILA" /\ conversa[c].dono = Ninguem THEN "AGUARDANDO" ELSE @]
<1>1. \A c \in Conversas : conversa[c] \in Linha /\ Coerente(conversa[c], execucao[c])
  BY PorLinha, TabelasTipadas
<1>2. \A c \in Conversas :
        /\ n(c).dono = conversa[c].dono /\ ~n(c).pos
        /\ n(c).status = IF conversa[c].status = "EM_FILA" THEN "AGUARDANDO" ELSE conversa[c].status
  BY <1>1 DEF Linha, Coerente, NaoAssumidos
<1>3. \A c \in Conversas : conversa'[c] = n(c)
  BY DEF Desligar
<1> HIDE DEF n
<1>4. ASSUME NEW c \in Conversas
      PROVE  /\ Fim(n(c)) = Fim(conversa[c])
             /\ Fase(n(c)) = CASE Fase(conversa[c]) = "comBot" -> "naFila"
                               [] Fase(conversa[c]) = "reservada" -> "encerrada"
                               [] OTHER -> Fase(conversa[c])
  <2>1. Fim(n(c)) = Fim(conversa[c])
    BY <1>2 DEF Fim, Finais
  <2>2. CASE conversa[c].status = "EM_FILA"
    BY <1>2, <2>1, <2>2, FaseConformeStatus
  <2>3. CASE conversa[c].status \in Finais
    <3>1. n(c).status = conversa[c].status /\ ~n(c).pos
      BY <1>2, <2>3 DEF Finais
    <3>2. Fase(n(c)) = "encerrada"
      BY <2>3, <3>1, FaseConformeStatus
    <3>3. Fase(conversa[c]) \in {"reservada", "encerrada"}
      BY <1>1, <2>3, FaseConformeStatus DEF Linha
    <3> QED
      BY <2>1, <3>2, <3>3
  <2>4. CASE conversa[c].status \in {"NAO_ABERTA", "AGUARDANDO", "EM_ANDAMENTO"}
    BY <1>2, <2>1, <2>4, FaseConformeStatus
  <2> QED
    BY <1>1, <2>2, <2>3, <2>4 DEF Linha, Status, NaoAssumidos
<1>5. UNCHANGED <<DonoDaConversa, DesfechoDaConversa>>
  BY <1>2, <1>3, <1>4, VistaPorLinha, VistaPorLinhaDepois
<1>6. \A c \in Conversas : EstadoDaConversa[c] = Fase(conversa[c])
  BY VistaPorLinha
<1>7. EstadoDaConversa' = [c \in Conversas |-> CASE EstadoDaConversa[c] = "comBot" -> "naFila"
                                                 [] EstadoDaConversa[c] = "reservada" -> "encerrada"
                                                 [] OTHER -> EstadoDaConversa[c]]
  BY <1>3, <1>4, <1>6, VistaPorLinhaDepois
<1> QED
  BY <1>5, <1>7 DEF Ciclo!Next, Ciclo!DesligarAutomacao

LEMMA PassoDoCiclo ==
  ASSUME BancoConsistente, [Next]_vars
  PROVE  [Ciclo!Next]_(Ciclo!vars)
<1>1. TypeOK /\ TypeOK'
  BY PorLinha, TipoPreservado
<1>2. CASE conversa' = conversa
  BY <1>2, VistaPorLinha, VistaPorLinhaDepois DEF Ciclo!vars
<1>3. CASE UmaTransicao
  BY <1>1, <1>3, TransicaoDoCiclo
<1>4. CASE \E k \in Chaves : Desligar(k)
  BY <1>4, DesligarDoCiclo
<1> QED
  BY <1>2, <1>3, <1>4, PassoPorLinha DEF vars

\* Every run of attendants, webhook, chatbot worker, cron and switches, over any number
\* of protocols, is a run of the life cycle.
THEOREM ImplementaOCiclo == Spec => SegueOCicloDeVida
BY InicioDoCiclo, PassoDoCiclo, Consistencia, PTL DEF Spec, SegueOCicloDeVida, Ciclo!Spec

--------------------------------------------------------------------------------
(* What the contract of Conducao sees of one chat *)

\* The effects that only an entry flow has are owed in its phase, and an exit flow whose
\* protocol is still to be freed has ended.
TarefaDaFase ==
  /\ \A c \in Conversas :
       conversa[c].status = "NAO_ABERTA" => execucao[c]["entrada"] = "inexistente"
  /\ bot # Livre =>
       /\ bot.etapa \notin {"liberar", "devolver", "concluir"} => bot.fase = "entrada"
       /\ bot.fase = "saida" /\ bot.etapa = "liberar" =>
            execucao[bot.conversa]["saida"] \notin Vivas \cup {"inexistente"}

Detida(l, f) == IF f = "entrada" THEN ComOBot(l) ELSE l.pos

PassoDaFase(c, f) ==
  \/ Contrato!Criar(c, f) \/ Contrato!Suspender(c, f) \/ Contrato!Acabar(c, f)
  \/ Contrato!Abortar(c, f) \/ Contrato!Soltar(c, f) \/ Contrato!Ficar(c, f)

\* What anybody may do to the row and the executions of a chat, but for the worker's step.
Intacta(f, l, n, x, y) == y[f] = x[f] /\ (Detida(n, f) <=> Detida(l, f))
Tomada(f, l, n, x, y) ==
  y[f] = (IF x[f] \in Vivas THEN "aborted" ELSE x[f]) /\ ~Detida(n, f)
Solta(f, l, n, x, y) == y[f] = x[f] /\ x[f] \notin Vivas /\ (Detida(n, f) => Detida(l, f))
Criada(f, l, n, x, y) ==
  x[f] = "inexistente" /\ y[f] = "running" /\ ~Detida(l, f) /\ Detida(n, f)

Conduz(l, n, x, y) ==
  \A f \in Fases : Intacta(f, l, n, x, y) \/ Tomada(f, l, n, x, y)
                     \/ Solta(f, l, n, x, y) \/ Criada(f, l, n, x, y)

LEMMA DetidaPorFase ==
  ASSUME NEW c \in Conversas, NEW f \in Fases
  PROVE  /\ f \in FasesDetidas[c] <=> Detida(conversa[c], f)
         /\ f \in FasesDetidas'[c] <=> Detida(conversa'[c], f)
BY DEF FasesDetidas, Detida, Fases

LEMMA ConduzPorFase ==
  ASSUME NEW c \in Conversas, NEW f \in Fases,
         Conduz(conversa[c], conversa'[c], execucao[c], execucao'[c])
  PROVE  PassoDaFase(c, f)
<1>1. Intacta(f, conversa[c], conversa'[c], execucao[c], execucao'[c]) => Contrato!Ficar(c, f)
  BY DetidaPorFase DEF Intacta, Contrato!Ficar
<1>2. Tomada(f, conversa[c], conversa'[c], execucao[c], execucao'[c])
        => Contrato!Abortar(c, f) \/ Contrato!Soltar(c, f) \/ Contrato!Ficar(c, f)
  BY DetidaPorFase
  DEF Tomada, Contrato!Abortar, Contrato!Soltar, Contrato!Ficar, Contrato!Vivas, Vivas
<1>3. Solta(f, conversa[c], conversa'[c], execucao[c], execucao'[c])
        => Contrato!Soltar(c, f) \/ Contrato!Ficar(c, f)
  BY DetidaPorFase DEF Solta, Contrato!Soltar, Contrato!Ficar, Contrato!Vivas, Vivas
<1>4. Criada(f, conversa[c], conversa'[c], execucao[c], execucao'[c]) => Contrato!Criar(c, f)
  BY DetidaPorFase DEF Criada, Contrato!Criar
<1> QED
  BY <1>1, <1>2, <1>3, <1>4 DEF Conduz, PassoDaFase

LEMMA NadaConduz ==
  ASSUME NEW l, NEW x
  PROVE  Conduz(l, l, x, x)
BY DEF Conduz, Intacta

\* The one chat a transaction writes.
LEMMA LinhaConduzida ==
  ASSUME TypeOK, NEW c \in Conversas, NEW n, NEW y, Grava(c, n),
         execucao' = [execucao EXCEPT ![c] = y], Conduz(conversa[c], n, execucao[c], y)
  PROVE  \A d \in Conversas, f \in Fases : PassoDaFase(d, f)
<1>1. conversa'[c] = n /\ execucao'[c] = y
  BY DEF TypeOK, Grava
<1>2. \A d \in Conversas \ {c} : conversa'[d] = conversa[d] /\ execucao'[d] = execucao[d]
  BY DEF TypeOK, Grava
<1>3. \A d \in Conversas : Conduz(conversa[d], conversa'[d], execucao[d], execucao'[d])
  BY <1>1, <1>2, NadaConduz
<1> QED
  BY <1>3, ConduzPorFase

LEMMA TabelasConduzidas ==
  ASSUME TabelasIguais
  PROVE  \A d \in Conversas, f \in Fases : PassoDaFase(d, f)
BY NadaConduz, ConduzPorFase DEF TabelasIguais

\* The same with the executions left alone.
LEMMA SoALinhaConduzida ==
  ASSUME TypeOK, NEW c \in Conversas, NEW n, Grava(c, n) \/ conversa' = conversa, execucao' = execucao,
         Grava(c, n) => Conduz(conversa[c], n, execucao[c], execucao[c])
  PROVE  \A d \in Conversas, f \in Fases : PassoDaFase(d, f)
<1>1. execucao' = [execucao EXCEPT ![c] = execucao[c]]
  BY DEF TypeOK
<1>2. CASE Grava(c, n)
  BY <1>1, <1>2, LinhaConduzida
<1>3. CASE conversa' = conversa
  BY <1>3, TabelasConduzidas DEF TabelasIguais
<1> QED
  BY <1>2, <1>3

\* Who takes the chat ends what runs.
LEMMA QuemTomaAborta ==
  ASSUME NEW l, NEW n, NEW x \in [Fases -> EstadosExecucao], n.status # "EM_FILA", ~n.pos
  PROVE  Conduz(l, n, x, Abortadas(x))
BY DEF Conduz, Tomada, Detida, Abortadas

\* A chat whose entry flow is over changes hands, or is let go.
LEMMA ConduzSemEntrada ==
  ASSUME NEW l, NEW n, NEW x, x["entrada"] \notin Vivas, n.status # "EM_FILA",
         (n.pos <=> l.pos) \/ (~n.pos /\ x["saida"] \notin Vivas)
  PROVE  Conduz(l, n, x, x)
<1>1. Solta("entrada", l, n, x, x)
  BY DEF Solta, Detida
<1>2. Intacta("saida", l, n, x, x) \/ Solta("saida", l, n, x, x)
  BY DEF Intacta, Solta, Detida
<1> QED
  BY <1>1, <1>2 DEF Conduz, Fases

\* The exit flow begins as the chat is closed.
LEMMA SaidaComeca ==
  ASSUME NEW l, NEW n, NEW x \in [Fases -> EstadosExecucao], x["saida"] = "inexistente",
         ~l.pos, n.pos, n.status # "EM_FILA"
  PROVE  Conduz(l, n, x, ComSaidaIniciada(x))
<1>1. /\ ComSaidaIniciada(x)["saida"] = "running"
      /\ ComSaidaIniciada(x)["entrada"] =
           IF x["entrada"] \in Vivas THEN "aborted" ELSE x["entrada"]
  BY DEF ComSaidaIniciada, Abortadas, Fases
<1>2. Criada("saida", l, n, x, ComSaidaIniciada(x))
  BY <1>1 DEF Criada, Detida
<1>3. Tomada("entrada", l, n, x, ComSaidaIniciada(x))
  BY <1>1 DEF Tomada, Detida
<1> QED
  BY <1>2, <1>3 DEF Conduz, Fases

--------------------------------------------------------------------------------
(* Every step of Atendimento keeps the contract *)

\* The two columns the contract looks at, in each row that an UPDATE writes.
LEMMA CamposGravados ==
  ASSUME NEW l \in Linha
  PROVE  /\ \A u \in Atendentes :
              Assume(l, u).status = "EM_ANDAMENTO" /\ Assume(l, u).pos = l.pos
         /\ \A st \in Status : /\ Encerra(l, st).status = st /\ Encerra(l, st).pos = l.pos
                               /\ EncerraNaoAssumido(l, st).status = st
                               /\ EncerraNaoAssumido(l, st).pos = l.pos
                               /\ [Encerra(l, st) EXCEPT !.pos = TRUE].status = st
                               /\ [Encerra(l, st) EXCEPT !.pos = TRUE].pos
                               /\ [EncerraNaoAssumido(l, st) EXCEPT !.pos = TRUE].status = st
                               /\ [EncerraNaoAssumido(l, st) EXCEPT !.pos = TRUE].pos
         /\ \A b \in BOOLEAN : /\ [l EXCEPT !.pausada = b].status = l.status
                               /\ [l EXCEPT !.pausada = b].pos = l.pos
         /\ [l EXCEPT !.pos = FALSE].status = l.status /\ ~[l EXCEPT !.pos = FALSE].pos
         /\ \A st \in Status : /\ [l EXCEPT !.status = st].status = st
                               /\ [l EXCEPT !.status = st].pos = l.pos
BY DEF Assume, Encerra, EncerraNaoAssumido, Linha

LEMMA GravacaoConduz ==
  ASSUME BancoConsistente, Gravacao
  PROVE  \A d \in Conversas, f \in Fases : PassoDaFase(d, f)
<1> SUFFICES ASSUME NEW r \in Requisicoes,
                    \/ Assumir(r) \/ Pausar(r) \/ Retomar(r) \/ Finalizar(r) \/ AutorizarSaida(r)
                    \/ FinalizarComFluxoSaida(r) \/ Transferir(r)
                    \/ FinalizarSemAtendimento(r) \/ CriarNova(r)
             PROVE  \A d \in Conversas, f \in Fases : PassoDaFase(d, f)
  BY DEF Gravacao
<1> DEFINE p == pedido[r]
           c == p.conversa
           l == conversa[c]
           x == execucao[c]
           Todas == \A d \in Conversas, f \in Fases : PassoDaFase(d, f)
<1>0. TypeOK
  BY PorLinha
<1>a. ASSUME NEW op, Executa(r, op)
      PROVE  /\ c \in Conversas /\ p.quem \in Atendentes
             /\ p.setor \in Setores /\ p.destino \in Donos
             /\ l \in Linha /\ x \in [Fases -> EstadosExecucao]
             /\ l.status \in {"EM_ANDAMENTO"} \cup NaoAssumidos => ~l.pos /\ x["saida"] = "inexistente"
             /\ l.status = "EM_ANDAMENTO" => x["entrada"] \notin Vivas
  BY <1>0, <1>a, PedidoEmMaos, TabelasTipadas, PorLinha DEF Coerente, NaoAssumidos, Encerraveis
\* An attended chat is written and its executions are not.
<1>b. ASSUME NEW op, Executa(r, op), NEW n,
             (l.status = "EM_ANDAMENTO" /\ Grava(c, n)) \/ conversa' = conversa,
             execucao' = execucao, n.status # "EM_FILA", n.pos = l.pos
      PROVE  Todas
  BY <1>0, <1>a, <1>b, ConduzSemEntrada, SoALinhaConduzida, TabelasConduzidas DEF TabelasIguais
\* A chat that waited is taken or discarded.
<1>c. ASSUME NEW op, Executa(r, op), NEW n, l.status \in NaoAssumidos, Grava(c, n),
             execucao' = [execucao EXCEPT ![c] = Abortadas(x)], n.status # "EM_FILA", n.pos = l.pos
      PROVE  Todas
  BY <1>0, <1>a, <1>c, QuemTomaAborta, LinhaConduzida
<1>1. CASE Assumir(r)
  <2>1. Executa(r, "iniciar")
    BY <1>1 DEF Assumir
  <2>2. \/ TabelasIguais
        \/ /\ l.status \in NaoAssumidos /\ Grava(c, Assume(l, p.quem))
           /\ execucao' = [execucao EXCEPT ![c] = Abortadas(x)]
    BY <1>0, <1>a, <1>1, <2>1 DEF Assumir, TypeOK
  <2> QED
    BY <1>a, <1>c, <2>1, <2>2, CamposGravados, TabelasConduzidas
<1>2. CASE Pausar(r)
  <2> DEFINE n == [l EXCEPT !.pausada = TRUE]
  <2>1. Executa(r, "pausar") /\ execucao' = execucao
    BY <1>2 DEF Pausar
  <2>2. conversa' = conversa \/ (l.status = "EM_ANDAMENTO" /\ Grava(c, n))
    BY <1>2 DEF Pausar
  <2>3. n.status = l.status /\ n.pos = l.pos
    BY <1>a, <2>1, CamposGravados
  <2> HIDE DEF n
  <2>4. CASE conversa' = conversa
    BY <2>1, <2>4, TabelasConduzidas DEF TabelasIguais
  <2> QED
    BY <1>b, <2>1, <2>2, <2>3, <2>4
<1>3. CASE Retomar(r)
  <2> DEFINE n == [l EXCEPT !.pausada = FALSE]
  <2>1. Executa(r, "retomar") /\ execucao' = execucao
    BY <1>3 DEF Retomar
  <2>2. conversa' = conversa \/ (l.status = "EM_ANDAMENTO" /\ Grava(c, n))
    BY <1>3 DEF Retomar
  <2>3. n.status = l.status /\ n.pos = l.pos
    BY <1>a, <2>1, CamposGravados
  <2> HIDE DEF n
  <2>4. CASE conversa' = conversa
    BY <2>1, <2>4, TabelasConduzidas DEF TabelasIguais
  <2> QED
    BY <1>b, <2>1, <2>2, <2>3, <2>4
<1>4. CASE Finalizar(r)
  <2>1. Executa(r, "finalizar") /\ execucao' = execucao
    BY <1>4 DEF Finalizar
  <2>2. \/ conversa' = conversa
        \/ l.status = "EM_ANDAMENTO" /\ Grava(c, Encerra(l, "FINALIZADO"))
    BY <1>4 DEF Finalizar
  <2>3. CASE conversa' = conversa
    BY <2>1, <2>3, TabelasConduzidas DEF TabelasIguais
  <2> QED
    BY <1>a, <1>b, <2>1, <2>2, <2>3, CamposGravados, StatusUsados
<1>5. CASE AutorizarSaida(r)
  BY <1>5, TabelasConduzidas DEF AutorizarSaida
<1>6. CASE FinalizarComFluxoSaida(r)
  <2> DEFINE n == [Encerra(l, "FINALIZADO") EXCEPT !.pos = TRUE]
  <2>1. Executa(r, "saidaAutorizada")
    BY <1>6 DEF FinalizarComFluxoSaida
  <2>2. \/ TabelasIguais
        \/ /\ l.status = "EM_ANDAMENTO" /\ Grava(c, n)
           /\ execucao' = [execucao EXCEPT ![c] = ComSaidaIniciada(x)]
    BY <1>0, <1>a, <1>6, <2>1 DEF FinalizarComFluxoSaida, TypeOK
  <2>3. n.status = "FINALIZADO" /\ n.pos
    BY <1>a, <2>1, CamposGravados, StatusUsados
  <2> HIDE DEF n
  <2> QED
    BY <1>0, <1>a, <2>1, <2>2, <2>3, SaidaComeca, LinhaConduzida, TabelasConduzidas
<1>7. CASE Transferir(r)
  <2> DEFINE n == [l EXCEPT !.dono = p.destino, !.setor = p.setor, !.pausada = FALSE,
                         !.esperando = (p.destino = Ninguem),
                         !.status = StatusDe(p.destino)]
  <2>1. Executa(r, "transferir") /\ execucao' = execucao
    BY <1>7 DEF Transferir
  <2>2. conversa' = conversa \/ (l.status = "EM_ANDAMENTO" /\ Grava(c, n))
    BY <1>7 DEF Transferir
  <2>3. n.status # "EM_FILA" /\ n.pos = l.pos
    BY <1>a, <2>1 DEF Linha
  <2> HIDE DEF n
  <2> QED
    BY <1>b, <2>1, <2>2, <2>3
<1>8. CASE FinalizarSemAtendimento(r)
  <2>1. Executa(r, "descartar")
    BY <1>8 DEF FinalizarSemAtendimento
  <2>2. \/ TabelasIguais
        \/ /\ l.status \in NaoAssumidos
           /\ Grava(c, EncerraNaoAssumido(l, "FINALIZADO_SEM_RESPOSTA"))
           /\ execucao' = [execucao EXCEPT ![c] = Abortadas(x)]
    BY <1>0, <1>a, <1>8, <2>1 DEF FinalizarSemAtendimento, TypeOK
  <2> QED
    BY <1>a, <1>c, <2>1, <2>2, CamposGravados, StatusUsados, TabelasConduzidas
<1>9. CASE CriarNova(r)
  <2>1. Executa(r, "criar") /\ execucao' = execucao
    BY <1>9 DEF CriarNova
  <2>2. PICK d \in Conversas : /\ conversa[d].status = "NAO_ABERTA"
                               /\ Grava(d, Assume(LinhaNova(p.setor), p.quem))
    BY <1>9 DEF CriarNova
  <2> DEFINE n == Assume(LinhaNova(p.setor), p.quem)
  <2>3. n.status = "EM_ANDAMENTO" /\ ~n.pos
    BY DEF Assume, LinhaNova, LinhaAusente
  <2>4. ~conversa[d].pos /\ execucao[d]["entrada"] \notin Vivas
    BY <1>0, <2>2, PorLinha DEF Coerente, Encerraveis
  <2>5. Grava(d, n)
    BY <2>2
  <2> HIDE DEF n
  <2> QED
    BY <1>0, <2>1, <2>3, <2>4, <2>5, ConduzSemEntrada, SoALinhaConduzida
<1> QED
  BY <1>1, <1>2, <1>3, <1>4, <1>5, <1>6, <1>7, <1>8, <1>9

LEMMA DevolveConduz ==
  ASSUME BancoConsistente, TarefaDaFase, bot # Livre, execucao' = execucao,
         \/ DevolveParaEspera(bot.conversa)
         \/ ConcluiPos(bot.conversa) /\ bot.fase = "saida" /\ bot.etapa = "liberar"
  PROVE  \A d \in Conversas, f \in Fases : PassoDaFase(d, f)
<1> DEFINE c == bot.conversa
           l == conversa[c]
           x == execucao[c]
<1>0. TypeOK /\ c \in Conversas
  BY PorLinha DEF TypeOK, TarefaDoBot
<1>1. l \in Linha /\ x["entrada"] \notin Vivas /\ (l.pos => l.status \in Encerraveis)
  BY <1>0, TabelasTipadas, PorLinha DEF TarefaSemEntradaViva, Coerente
<1>2. CASE DevolveParaEspera(c)
  <2> DEFINE n == [l EXCEPT !.status = "AGUARDANDO"]
  <2>1. n.status = "AGUARDANDO" /\ n.pos = l.pos
    BY <1>1 DEF Linha
  <2>2. Grava(c, n) \/ conversa' = conversa
    BY <1>2 DEF DevolveParaEspera
  <2> HIDE DEF n
  <2> QED
    BY <1>0, <1>1, <2>1, <2>2, ConduzSemEntrada, SoALinhaConduzida
<1>3. CASE ConcluiPos(c) /\ bot.fase = "saida" /\ bot.etapa = "liberar"
  <2> DEFINE n == [l EXCEPT !.pos = FALSE]
  <2>1. n.status = l.status /\ ~n.pos
    BY <1>1 DEF Linha
  <2>2. (l.status \in Encerraveis /\ Grava(c, n)) \/ conversa' = conversa
    BY <1>3 DEF ConcluiPos
  <2>3. x["saida"] \notin Vivas
    BY <1>3 DEF TarefaDaFase
  <2> HIDE DEF n
  <2>4. Conduz(l, n, x, x) \/ conversa' = conversa
    BY <1>1, <2>1, <2>2, <2>3, ConduzSemEntrada DEF Encerraveis
  <2>5. CASE conversa' = conversa
    BY <2>5, TabelasConduzidas DEF TabelasIguais
  <2>6. CASE Conduz(l, n, x, x)
    BY <1>0, <2>2, <2>6, SoALinhaConduzida
  <2> QED
    BY <2>4, <2>5, <2>6
<1> QED
  BY <1>2, <1>3

\* A step that found itself forbidden frees the protocol of whatever exit flow there is.
LEMMA InterrompidaConduz ==
  ASSUME BancoConsistente, ConcluirInterrompida
  PROVE  \A d \in Conversas, f \in Fases : PassoDaFase(d, f)
<1> DEFINE c == bot.conversa
           l == conversa[c]
           n == [l EXCEPT !.pos = FALSE]
<1>0. TypeOK /\ c \in Conversas /\ l \in Linha /\ bot # Livre /\ execucao' = execucao
      /\ bot.etapa = "concluir"
  <2>1. TypeOK /\ bot # Livre
    BY PorLinha DEF ConcluirInterrompida, NaEtapa
  <2>2. c \in Conversas
    BY <2>1 DEF TypeOK, TarefaDoBot
  <2> QED
    BY <2>1, <2>2, TabelasTipadas DEF ConcluirInterrompida, NaEtapa
<1>1. n.status = l.status /\ n.dono = l.dono /\ ~n.pos
  BY <1>0 DEF Linha
<1>2. Grava(c, n) \/ conversa' = conversa
  BY DEF ConcluirInterrompida, ConcluiPos
<1> HIDE DEF n
<1>3. CASE conversa' = conversa
  BY <1>0, <1>3, TabelasConduzidas DEF TabelasIguais
<1>4. CASE Grava(c, n)
  <2>1. conversa'[c] = n /\ \A d \in Conversas \ {c} : conversa'[d] = conversa[d]
    BY <1>0, <1>4 DEF TypeOK, Grava
  <2>2. DevidaPeloBot[c] = "ambas"
    BY <1>0 DEF DevidaPeloBot
  <2>3. \A f \in Fases : Contrato!Soltar(c, f) \/ Contrato!Ficar(c, f)
    <3> SUFFICES ASSUME NEW f \in Fases PROVE Contrato!Soltar(c, f) \/ Contrato!Ficar(c, f)
      OBVIOUS
    <3>1. Detida(conversa'[c], f) => Detida(conversa[c], f)
      BY <1>1, <2>1 DEF Detida
    <3> QED
      BY <1>0, <2>2, <3>1, DetidaPorFase DEF Contrato!Soltar, Contrato!Ficar
  <2>4. \A d \in Conversas \ {c}, f \in Fases : PassoDaFase(d, f)
    BY <1>0, <2>1, NadaConduz, ConduzPorFase
  <2> QED
    BY <2>3, <2>4 DEF PassoDaFase
<1> QED
  BY <1>2, <1>3, <1>4

LEMMA AposOCommitConduz ==
  ASSUME BancoConsistente, TarefaDaFase, AposOCommit
  PROVE  \A d \in Conversas, f \in Fases : PassoDaFase(d, f)
<1> DEFINE c == bot.conversa
           l == conversa[c]
           x == execucao[c]
<1>0. TypeOK /\ bot # Livre /\ bot \in TarefaDoBot /\ c \in Conversas
  <2>1. bot # Livre
    BY DEF AposOCommit, NaEtapa, EncaminharPorChatbot, LeEncerrarPorChatbot,
           EncerrarComFluxoSaidaPorChatbot, FinalizarPorChatbot, LiberarProtocolo,
           DevolverInterrompida, ConcluirInterrompida
  <2> QED
    BY <2>1, PorLinha DEF TypeOK, TarefaDoBot
<1>1. /\ l \in Linha /\ x \in [Fases -> EstadosExecucao]
      /\ x["entrada"] \notin Vivas
      /\ l.status \in NaoAssumidos => ~l.pos /\ x["saida"] = "inexistente"
  BY <1>0, TabelasTipadas, PorLinha DEF TarefaSemEntradaViva, Coerente, NaoAssumidos, Encerraveis
<1>2. CASE EncaminharPorChatbot
  <2> DEFINE n == [l EXCEPT !.setor = bot.setor, !.dono = bot.destino,
                      !.status = StatusDe(bot.destino),
                      !.esperando = (bot.destino = Ninguem),
                      !.respondida = @ \/ bot.destino # Ninguem]
  <2>1. \/ TabelasIguais
        \/ /\ l.status = "EM_FILA" /\ Grava(c, n)
           /\ execucao' = [execucao EXCEPT ![c] = Abortadas(x)]
    BY <1>0, <1>2 DEF EncaminharPorChatbot, TypeOK
  <2>2. n.status # "EM_FILA" /\ n.pos = l.pos
    BY <1>1 DEF Linha
  <2> HIDE DEF n
  <2>3. l.status = "EM_FILA" => Conduz(l, n, x, Abortadas(x))
    BY <1>1, <2>2, QuemTomaAborta DEF NaoAssumidos
  <2> QED
    BY <1>0, <2>1, <2>3, LinhaConduzida, TabelasConduzidas
<1>3. CASE LeEncerrarPorChatbot
  BY <1>3, TabelasConduzidas DEF LeEncerrarPorChatbot
<1>4. CASE EncerrarComFluxoSaidaPorChatbot
  <2> DEFINE n == [EncerraNaoAssumido(l, "FINALIZADO_PELO_CHATBOT") EXCEPT !.pos = TRUE]
  <2>1. \/ TabelasIguais
        \/ /\ l.status = "EM_FILA" /\ Grava(c, n)
           /\ execucao' = [execucao EXCEPT ![c] = ComSaidaIniciada(x)]
    BY <1>0, <1>4 DEF EncerrarComFluxoSaidaPorChatbot, TypeOK
  <2>2. n.status = "FINALIZADO_PELO_CHATBOT" /\ n.pos
    BY <1>1, CamposGravados, StatusUsados
  <2> HIDE DEF n
  <2>3. l.status = "EM_FILA" => Conduz(l, n, x, ComSaidaIniciada(x))
    BY <1>1, <2>2, SaidaComeca DEF NaoAssumidos
  <2> QED
    BY <1>0, <2>1, <2>3, LinhaConduzida, TabelasConduzidas
<1>5. CASE FinalizarPorChatbot
  <2> DEFINE n == EncerraNaoAssumido(l, "FINALIZADO_PELO_CHATBOT")
  <2>1. execucao' = execucao /\ (conversa' = conversa \/ Grava(c, n))
    BY <1>5 DEF FinalizarPorChatbot
  <2>2. n.status = "FINALIZADO_PELO_CHATBOT" /\ n.pos = l.pos
    BY <1>1, CamposGravados, StatusUsados
  <2> HIDE DEF n
  <2> QED
    BY <1>0, <1>1, <2>1, <2>2, ConduzSemEntrada, SoALinhaConduzida
<1>6. CASE LiberarProtocolo
  BY <1>0, <1>6, DevolveConduz DEF LiberarProtocolo, NaEtapa
<1>7. CASE DevolverInterrompida
  BY <1>0, <1>7, DevolveConduz DEF DevolverInterrompida
<1>8. CASE ConcluirInterrompida
  BY <1>8, InterrompidaConduz
<1> QED
  BY <1>2, <1>3, <1>4, <1>5, <1>6, <1>7, <1>8 DEF AposOCommit

LEMMA AbrirConduz ==
  ASSUME BancoConsistente, TarefaDaFase, AbrirConversa
  PROVE  \A d \in Conversas, f \in Fases : PassoDaFase(d, f)
<1>0. TypeOK /\ webhook.comFluxo \in BOOLEAN
  BY PorLinha DEF AbrirConversa, TypeOK, AberturaPendente
<1>1. PICK c \in Conversas :
        /\ conversa[c].status = "NAO_ABERTA"
        /\ Grava(c, [LinhaNova(SetorPadrao) EXCEPT
                       !.status = IF webhook.comFluxo THEN "EM_FILA" ELSE "AGUARDANDO"])
        /\ execucao' = [execucao EXCEPT ![c]["entrada"] = IF webhook.comFluxo THEN "running" ELSE @]
  BY DEF AbrirConversa
<1> DEFINE n == [LinhaNova(SetorPadrao) EXCEPT
                   !.status = IF webhook.comFluxo THEN "EM_FILA" ELSE "AGUARDANDO"]
           x == execucao[c]
           y == [x EXCEPT !["entrada"] = IF webhook.comFluxo THEN "running" ELSE @]
<1>2. /\ n.status = (IF webhook.comFluxo THEN "EM_FILA" ELSE "AGUARDANDO")
      /\ n.dono = Ninguem /\ ~n.pos
  BY DEF LinhaNova, LinhaAusente
<1>3. /\ x \in [Fases -> EstadosExecucao] /\ x["entrada"] = "inexistente"
      /\ ~conversa[c].pos
  BY <1>0, <1>1, TabelasTipadas, PorLinha DEF TarefaDaFase, Coerente, Encerraveis
<1>4. /\ y["saida"] = x["saida"]
      /\ y["entrada"] = IF webhook.comFluxo THEN "running" ELSE "inexistente"
  BY <1>3 DEF Fases
<1>5. Grava(c, n) /\ execucao' = [execucao EXCEPT ![c] = y]
  BY <1>0, <1>1 DEF TypeOK
<1> HIDE DEF n, y
<1>6. Intacta("saida", conversa[c], n, x, y)
  BY <1>2, <1>3, <1>4 DEF Intacta, Detida
<1>7. CASE webhook.comFluxo
  <2>1. Criada("entrada", conversa[c], n, x, y)
    BY <1>1, <1>2, <1>3, <1>4, <1>7 DEF Criada, Detida
  <2>2. Conduz(conversa[c], n, x, y)
    BY <1>6, <2>1 DEF Conduz, Fases
  <2> QED
    BY <1>0, <1>5, <2>2, LinhaConduzida
<1>8. CASE ~webhook.comFluxo
  <2>1. Intacta("entrada", conversa[c], n, x, y)
    BY <1>1, <1>2, <1>3, <1>4, <1>8 DEF Intacta, Detida
  <2>2. Conduz(conversa[c], n, x, y)
    BY <1>6, <2>1 DEF Conduz, Fases
  <2> QED
    BY <1>0, <1>5, <2>2, LinhaConduzida
<1> QED
  BY <1>7, <1>8

LEMMA CronConduz ==
  ASSUME BancoConsistente, NEW c \in Conversas, FinalizarPorInatividade(c)
  PROVE  \A d \in Conversas, f \in Fases : PassoDaFase(d, f)
<1> DEFINE n == EncerraNaoAssumido(conversa[c], "FINALIZADO_POR_INATIVIDADE")
<1>1. /\ TypeOK /\ conversa[c] \in Linha
      /\ conversa[c].status = "EM_ANDAMENTO" => execucao[c]["entrada"] \notin Vivas
  BY PorLinha, TabelasTipadas DEF Coerente
<1>2. /\ execucao' = execucao
      /\ conversa' = conversa \/ (conversa[c].status = "EM_ANDAMENTO" /\ Grava(c, n))
  BY DEF FinalizarPorInatividade
<1>3. n.status = "FINALIZADO_POR_INATIVIDADE" /\ n.pos = conversa[c].pos
  BY <1>1, CamposGravados, StatusUsados
<1> HIDE DEF n
<1>4. CASE conversa' = conversa
  BY <1>2, <1>4, TabelasConduzidas DEF TabelasIguais
<1>5. CASE conversa[c].status = "EM_ANDAMENTO" /\ Grava(c, n)
  BY <1>1, <1>2, <1>3, <1>5, ConduzSemEntrada, SoALinhaConduzida
<1> QED
  BY <1>2, <1>4, <1>5

LEMMA DesligarConduz ==
  ASSUME BancoConsistente, NEW k \in Chaves, Desligar(k)
  PROVE  \A d \in Conversas, f \in Fases : PassoDaFase(d, f)
<1> SUFFICES ASSUME NEW c \in Conversas
             PROVE  Conduz(conversa[c], conversa'[c], execucao[c], execucao'[c])
  BY ConduzPorFase
<1>1. /\ conversa[c] \in Linha /\ execucao[c] \in [Fases -> EstadosExecucao]
      /\ Coerente(conversa[c], execucao[c])
  BY PorLinha, TabelasTipadas
<1> DEFINE n == [conversa[c] EXCEPT !.pos = FALSE,
               !.status = IF @ = "EM_FILA" /\ conversa[c].dono = Ninguem THEN "AGUARDANDO" ELSE @]
<1>2. conversa'[c] = n /\ execucao'[c] = Abortadas(execucao[c])
  BY DEF Desligar
<1>3. n.status # "EM_FILA" /\ ~n.pos
  BY <1>1 DEF Linha, Coerente, NaoAssumidos
<1> HIDE DEF n
<1> QED
  BY <1>1, <1>2, <1>3, QuemTomaAborta

--------------------------------------------------------------------------------
(* The worker's step keeps the contract *)

\* What the loop may come to, phase by phase.
LEMMA LoopDaFase ==
  ASSUME NEW c \in Conversas, NEW f \in Fases, RunLoop(c, f)
  PROVE  \/ Termina(c, f, "suspended", Livre)
         \/ \E estado \in {"completed", "failed"}, resta \in TarefaDoBot :
              /\ Termina(c, f, estado, resta)
              /\ resta.conversa = c /\ resta.fase = f
              /\ resta.etapa \notin {"devolver", "concluir"}
              /\ resta.etapa # "liberar" => f = "entrada"
<1> DEFINE Acaba == \E estado \in {"completed", "failed"}, resta \in TarefaDoBot :
              /\ Termina(c, f, estado, resta)
              /\ resta.conversa = c /\ resta.fase = f
              /\ resta.etapa \notin {"devolver", "concluir"}
              /\ resta.etapa # "liberar" => f = "entrada"
<1>1. \A etapa \in {"liberar", "encerrar", "encaminhar"} : etapa \in Etapas
  BY DEF Etapas
<1>2. ASSUME NEW estado \in {"completed", "failed"}, Termina(c, f, estado, Tarefa(c, f, "liberar"))
      PROVE  Acaba
  <2>1. /\ Tarefa(c, f, "liberar") \in TarefaDoBot
        /\ Tarefa(c, f, "liberar").conversa = c /\ Tarefa(c, f, "liberar").fase = f
        /\ Tarefa(c, f, "liberar").etapa = "liberar"
    BY <1>1, TarefasTipadas DEF Tarefa
  <2> QED
    BY <1>2, <2>1
<1>3. ASSUME f = "entrada", NEW saida \in BOOLEAN,
             Termina(c, f, "completed", [Tarefa(c, f, "encerrar") EXCEPT !.saida = saida])
      PROVE  Acaba
  <2> DEFINE resta == [Tarefa(c, f, "encerrar") EXCEPT !.saida = saida]
  <2>1. /\ resta \in TarefaDoBot /\ resta.conversa = c /\ resta.fase = f
        /\ resta.etapa = "encerrar"
    BY <1>1, TarefasTipadas DEF Tarefa
  <2>2. Termina(c, f, "completed", resta)
    BY <1>3
  <2> HIDE DEF resta
  <2> QED
    BY <1>3, <2>1, <2>2
<1>4. ASSUME f = "entrada", NEW setor \in Setores, NEW destino \in Donos,
             Termina(c, f, "completed",
                     [Tarefa(c, f, "encaminhar") EXCEPT !.setor = setor, !.destino = destino])
      PROVE  Acaba
  <2> DEFINE resta == [Tarefa(c, f, "encaminhar") EXCEPT !.setor = setor, !.destino = destino]
  <2>1. /\ resta \in TarefaDoBot /\ resta.conversa = c /\ resta.fase = f
        /\ resta.etapa = "encaminhar"
    BY <1>1, TarefasTipadas DEF Tarefa
  <2>2. Termina(c, f, "completed", resta)
    BY <1>4
  <2> HIDE DEF resta
  <2> QED
    BY <1>4, <2>1, <2>2
<1> QED
  BY <1>2, <1>3, <1>4 DEF RunLoop

\* While it ran, only the department changed hands.
LEMMA PermitidoConduz ==
  ASSUME BancoConsistente, NEW c \in Conversas, NEW f \in Fases, PassoDoBot(c, f),
         PermitidoAoBot(c, f)
  PROVE  /\ \A d \in Conversas, g \in Fases : PassoDaFase(d, g)
         /\ \A d \in Conversas : Contrato!Dever(d)
<1>0. /\ TypeOK /\ bot = Livre /\ execucao[c][f] \in Vivas
      /\ conversa[c] \in Linha
  BY PorLinha, TabelasTipadas DEF PassoDoBot
<1>1. \A d \in Conversas : DevidaPeloBot[d] = "nada"
  BY <1>0 DEF DevidaPeloBot
<1>2. \A d \in Conversas, g \in Fases : Detida(conversa'[d], g) <=> Detida(conversa[d], g)
  <2>1. conversa' = conversa \/ \E setor \in Setores : Grava(c, [conversa[c] EXCEPT !.setor = setor])
    BY DEF PassoDoBot
  <2> QED
    BY <1>0, <2>1 DEF Detida, Grava, TypeOK, Linha
<1>3. Detida(conversa[c], f)
  BY DEF PermitidoAoBot, Detida, Fases
<1>4. PICK estado, resta :
        /\ Termina(c, f, estado, resta)
        /\ \/ estado = "suspended" /\ resta = Livre
           \/ /\ estado \in {"completed", "failed"} /\ resta \in TarefaDoBot
              /\ resta.conversa = c /\ resta.fase = f
              /\ resta.etapa \notin {"devolver", "concluir"}
  BY LoopDaFase DEF PassoDoBot
<1>5. /\ execucao'[c][f] = estado
      /\ \A d \in Conversas, g \in Fases : d # c \/ g # f => execucao'[d][g] = execucao[d][g]
  BY <1>0, <1>4 DEF TypeOK, Termina
<1>6. \A d \in Conversas, g \in Fases : d # c \/ g # f => PassoDaFase(d, g)
  BY <1>2, <1>5, DetidaPorFase DEF PassoDaFase, Contrato!Ficar
<1>7. CASE estado = "suspended" /\ resta = Livre
  <2>1. \A d \in Conversas : DevidaPeloBot'[d] = "nada"
    BY <1>4, <1>7 DEF Termina, DevidaPeloBot
  <2>2. Contrato!Suspender(c, f)
    BY <1>0, <1>1, <1>2, <1>3, <1>5, <1>7, DetidaPorFase DEF Contrato!Suspender, Contrato!Vivas, Vivas
  <2> QED
    BY <1>6, <2>1, <2>2 DEF PassoDaFase, Contrato!Dever
<1>8. CASE /\ estado \in {"completed", "failed"} /\ resta \in TarefaDoBot
           /\ resta.conversa = c /\ resta.fase = f
           /\ resta.etapa \notin {"devolver", "concluir"}
  <2>1. DevidaPeloBot'[c] = f /\ \A d \in Conversas \ {c} : DevidaPeloBot'[d] = "nada"
    <3>1. bot' = resta /\ resta # Livre
      BY <1>4, <1>8, LivreEhLivre DEF Termina
    <3> QED
      BY <1>8, <3>1 DEF DevidaPeloBot
  <2>2. Contrato!Acabar(c, f)
    BY <1>0, <1>1, <1>2, <1>3, <1>5, <1>8, <2>1, DetidaPorFase
    DEF Contrato!Acabar, Contrato!Vivas, Vivas
  <2>3. Contrato!Dever(c)
    BY <1>1, <1>5, <1>8, <2>1 DEF Contrato!Dever, Contrato!Terminais, Contrato!Fases, Fases
  <2>4. \A d \in Conversas \ {c} : Contrato!Dever(d)
    BY <2>1 DEF Contrato!Dever
  <2> QED
    BY <1>6, <2>2, <2>3, <2>4 DEF PassoDaFase
<1> QED
  BY <1>4, <1>7, <1>8

\* A step that finds itself forbidden ends both executions, and owes both phases.
LEMMA ProibidoConduz ==
  ASSUME BancoConsistente, NEW c \in Conversas, NEW f \in Fases, PassoDoBot(c, f),
         ~PermitidoAoBot(c, f)
  PROVE  /\ \A d \in Conversas, g \in Fases : PassoDaFase(d, g)
         /\ \A d \in Conversas : Contrato!Dever(d)
<1>0. /\ TypeOK /\ bot = Livre /\ conversa' = conversa
      /\ execucao' = [execucao EXCEPT ![c] = Abortadas(execucao[c])]
      /\ bot' = Tarefa(c, f, "devolver")
  BY PorLinha DEF PassoDoBot, TypeOK
<1>1. \A d \in Conversas : DevidaPeloBot[d] = "nada"
  BY <1>0 DEF DevidaPeloBot
<1>2. DevidaPeloBot'[c] = "ambas" /\ \A d \in Conversas \ {c} : DevidaPeloBot'[d] = "nada"
  <2>1. bot' # Livre
    BY <1>0, TarefasTipadas, LivreEhLivre DEF Etapas
  <2>2. bot'.conversa = c /\ bot'.etapa = "devolver"
    BY <1>0 DEF Tarefa
  <2> QED
    BY <2>1, <2>2 DEF DevidaPeloBot
<1>3. /\ execucao'[c] = Abortadas(execucao[c])
      /\ \A d \in Conversas \ {c} : execucao'[d] = execucao[d]
  BY <1>0 DEF TypeOK
<1>4. \A g \in Fases : PassoDaFase(c, g)
  <2> SUFFICES ASSUME NEW g \in Fases PROVE PassoDaFase(c, g)
    OBVIOUS
  <2>1. execucao'[c][g] = IF execucao[c][g] \in Vivas THEN "aborted" ELSE execucao[c][g]
    BY <1>3 DEF Abortadas
  <2>2. g \in FasesDetidas'[c] <=> g \in FasesDetidas[c]
    BY <1>0, DetidaPorFase
  <2>3. CASE execucao[c][g] \in Vivas
    BY <1>1, <1>2, <2>1, <2>2, <2>3 DEF PassoDaFase, Contrato!Abortar, Contrato!Vivas, Vivas
  <2>4. CASE execucao[c][g] \notin Vivas
    BY <2>1, <2>2, <2>4 DEF PassoDaFase, Contrato!Ficar
  <2> QED
    BY <2>3, <2>4
<1>5. \A d \in Conversas \ {c}, g \in Fases : PassoDaFase(d, g)
  BY <1>0, <1>3, NadaConduz, ConduzPorFase
<1>6. \A d \in Conversas : Contrato!Dever(d)
  <2>1. \A g \in Fases : execucao'[c][g] \notin Vivas
    BY <1>0, <1>3, TabelasTipadas, AbortadasMortas
  <2>2. Contrato!Dever(c)
    BY <1>1, <1>2, <2>1 DEF Contrato!Dever, Contrato!Fases, Contrato!Vivas, Fases, Vivas
  <2> QED
    BY <1>2, <2>2 DEF Contrato!Dever
<1> QED
  BY <1>4, <1>5, <1>6

--------------------------------------------------------------------------------
(* What the worker owes, and the implementation *)

SegueAEtapa ==
  \E e \in Etapas :
    /\ bot # Livre /\ bot' = [bot EXCEPT !.etapa = e]
    /\ \/ bot.etapa = "devolver" /\ e = "concluir"
       \/ /\ bot.etapa \notin {"liberar", "devolver", "concluir"}
          /\ e \notin {"devolver", "concluir"}

\* Who moves the worker, but for its step.
LEMMA BotDaVez ==
  ASSUME BancoConsistente, Next
  PROVE  \/ bot' = bot \/ bot' = Livre \/ SegueAEtapa
         \/ \E c \in Conversas : RetomarReserva(c)
         \/ \E c \in Conversas : \E f \in Fases : PassoDoBot(c, f)
<1>1. Leitura \/ Releitura => bot' = bot
  BY PorLinha, LeituraChega, ReleituraSegue DEF Chega, SoOPedido
<1>2. Gravacao => bot' = bot
  BY DEF Gravacao, Assumir, Pausar, Retomar, Finalizar, AutorizarSaida, FinalizarComFluxoSaida,
         Transferir, FinalizarSemAtendimento, CriarNova, Responde, SoOPedido
<1>3. ReceberMensagem \/ DecidirAcaoDoChatbot \/ AbrirConversa => bot' = bot
  BY DEF ReceberMensagem, DecidirAcaoDoChatbot, AbrirConversa
<1>4. \A d \in Conversas : LeInativa(d) \/ FinalizarPorInatividade(d) => bot' = bot
  BY DEF LeInativa, FinalizarPorInatividade
<1>5. \A k \in Chaves : Desligar(k) \/ Ligar(k) => bot' = bot
  BY DEF Desligar, Ligar
<1>6. Queda => bot' = Livre
  BY DEF Queda
<1>7. AposOCommit => bot' = Livre \/ SegueAEtapa
  <2>1. LiberarProtocolo \/ ConcluirInterrompida => bot' = Livre
    BY DEF LiberarProtocolo, ConcluirInterrompida
  <2>2. DevolverInterrompida => SegueAEtapa
    BY DEF DevolverInterrompida, SegueAEtapa, Segue, NaEtapa, Etapas
  <2>3. EncaminharPorChatbot \/ FinalizarPorChatbot => SegueAEtapa
    BY DEF EncaminharPorChatbot, FinalizarPorChatbot, SegueAEtapa, Segue, NaEtapa, Etapas
  <2>4. LeEncerrarPorChatbot => SegueAEtapa
    BY DEF LeEncerrarPorChatbot, SegueAEtapa, Segue, NaEtapa, Etapas
  <2>5. EncerrarComFluxoSaidaPorChatbot => SegueAEtapa
    <3> SUFFICES ASSUME EncerrarComFluxoSaidaPorChatbot PROVE SegueAEtapa
      OBVIOUS
    <3>1. \E e \in {"liberar", "despedir"} : Segue(e)
      BY DEF EncerrarComFluxoSaidaPorChatbot
    <3> QED
      BY <3>1 DEF EncerrarComFluxoSaidaPorChatbot, SegueAEtapa, Segue, NaEtapa, Etapas
  <2> QED
    BY <2>1, <2>2, <2>3, <2>4, <2>5 DEF AposOCommit
<1> QED
  BY <1>1, <1>2, <1>3, <1>4, <1>5, <1>6, <1>7 DEF Next

\* The next stage of a task is a task of the same phase of the same chat.
LEMMA MesmaTarefa ==
  ASSUME TypeOK, SegueAEtapa
  PROVE  /\ bot' # Livre /\ bot'.conversa = bot.conversa /\ bot'.fase = bot.fase
         /\ bot'.etapa \in {"devolver", "concluir"} <=> bot.etapa \in {"devolver", "concluir"}
<1>1. PICK e \in Etapas : /\ bot # Livre /\ bot' = [bot EXCEPT !.etapa = e]
                          /\ \/ bot.etapa = "devolver" /\ e = "concluir"
                             \/ /\ bot.etapa \notin {"liberar", "devolver", "concluir"}
                                /\ e \notin {"devolver", "concluir"}
  BY DEF SegueAEtapa
<1>2. bot \in TarefaDoBot /\ bot' \in TarefaDoBot
  BY <1>1 DEF TypeOK, TarefaDoBot
<1>3. bot'.conversa = bot.conversa /\ bot'.fase = bot.fase /\ bot'.etapa = e
  BY <1>1, <1>2 DEF TarefaDoBot
<1> QED
  BY <1>1, <1>2, <1>3, LivreEhLivre

LEMMA RetomadaDevida ==
  ASSUME NEW c \in Conversas, RetomarReserva(c)
  PROVE  /\ bot = Livre /\ bot' # Livre /\ bot' = Tarefa(c, "saida", "liberar")
         /\ execucao' = execucao /\ execucao[c]["saida"] \in {"completed", "failed", "aborted"}
BY TarefasTipadas, LivreEhLivre DEF RetomarReserva, TabelasIguais, Etapas, Fases

LEMMA PassoConduz ==
  ASSUME BancoConsistente, TarefaDaFase, Next
  PROVE  \A c \in Conversas, f \in Fases : PassoDaFase(c, f)
<1>1. Leitura \/ Releitura => TabelasIguais
  BY PorLinha, LeituraChega, ReleituraSegue DEF Chega
<1>2. ReceberMensagem \/ DecidirAcaoDoChatbot => TabelasIguais
  BY DEF ReceberMensagem, DecidirAcaoDoChatbot
<1>3. \A c \in Conversas : RetomarReserva(c) \/ LeInativa(c) => TabelasIguais
  BY DEF RetomarReserva, LeInativa
<1>4. Queda \/ (\E k \in Chaves : Ligar(k)) => TabelasIguais
  BY DEF Queda, Ligar
<1> QED
  BY <1>1, <1>2, <1>3, <1>4, TabelasConduzidas, GravacaoConduz, AbrirConduz, AposOCommitConduz,
     CronConduz, DesligarConduz, PermitidoConduz, ProibidoConduz
     DEF Next

LEMMA PassoDeve ==
  ASSUME BancoConsistente, Next, NEW c \in Conversas
  PROVE  Contrato!Dever(c)
<1>0. TypeOK
  BY PorLinha
<1>1. CASE bot' = bot \/ bot' = Livre
  BY <1>1 DEF Contrato!Dever, DevidaPeloBot
<1>2. CASE SegueAEtapa
  <2>1. bot # Livre
    BY <1>2 DEF SegueAEtapa
  <2> QED
    BY <1>0, <1>2, <2>1, MesmaTarefa DEF Contrato!Dever, DevidaPeloBot
<1>3. CASE \E d \in Conversas : RetomarReserva(d)
  <2>1. PICK d \in Conversas : RetomarReserva(d)
    BY <1>3
  <2>2. /\ DevidaPeloBot[c] = "nada"
        /\ DevidaPeloBot'[c] = IF c = d THEN "saida" ELSE "nada"
    BY <2>1, RetomadaDevida DEF DevidaPeloBot, Tarefa
  <2> QED
    BY <2>1, <2>2, RetomadaDevida
    DEF Contrato!Dever, Contrato!Fases, Contrato!Terminais
<1>4. CASE \E d \in Conversas : \E f \in Fases : PassoDoBot(d, f)
  BY <1>4, PermitidoConduz, ProibidoConduz
<1> QED
  BY <1>1, <1>2, <1>3, <1>4, BotDaVez

LEMMA AusenciaFica ==
  ASSUME BancoConsistente, TarefaDaFase, Next, NEW c \in Conversas,
         conversa'[c].status = "NAO_ABERTA"
  PROVE  execucao'[c]["entrada"] = "inexistente"
<1>0. /\ TypeOK /\ conversa[c] \in Linha
      /\ PassoDaFase(c, "entrada")
  BY PorLinha, TabelasTipadas, PassoConduz DEF Fases
<1>1. conversa[c].status = "NAO_ABERTA"
  <2>1. CASE UmaTransicao
    <3>1. conversa'[c] = conversa[c] \/ Transicao(conversa[c], conversa'[c])
      BY <2>1 DEF UmaTransicao
    <3>2. Transicao(conversa[c], conversa'[c]) => conversa[c].status = "NAO_ABERTA"
      BY <1>0 DEF Transicao, Abre, Assumida, Anota, Passada, Volta, Encerrada, Liberada,
             Finais, NaoAssumidos, Linha
    <3> QED
      BY <3>1, <3>2
  <2>2. ASSUME NEW k \in Chaves, Desligar(k) PROVE conversa[c].status = "NAO_ABERTA"
    BY <1>0, <2>2 DEF Desligar, Linha
  <2> QED
    BY <2>1, <2>2, PassoPorLinha
<1>2. execucao[c]["entrada"] = "inexistente"
  BY <1>1 DEF TarefaDaFase
<1>3. "entrada" \notin FasesDetidas'[c]
  BY DetidaPorFase DEF Detida, Fases
<1> QED
  BY <1>0, <1>2, <1>3
  DEF PassoDaFase, Contrato!Criar, Contrato!Suspender, Contrato!Acabar, Contrato!Abortar,
      Contrato!Soltar, Contrato!Ficar, Contrato!Vivas

\* An exit flow that has ended never runs again.
LEMMA SaidaAcabada ==
  ASSUME BancoConsistente, TarefaDaFase, Next, NEW c \in Conversas,
         execucao[c]["saida"] \notin Vivas \cup {"inexistente"}
  PROVE  execucao'[c]["saida"] = execucao[c]["saida"]
<1>1. PassoDaFase(c, "saida")
  BY PassoConduz DEF Fases
<1> QED
  BY <1>1
  DEF PassoDaFase, Contrato!Criar, Contrato!Suspender, Contrato!Acabar, Contrato!Abortar,
      Contrato!Soltar, Contrato!Ficar, Contrato!Vivas, Vivas

LEMMA FaseDaTarefaPreservada ==
  ASSUME BancoConsistente, TarefaDaFase, Next
  PROVE  TarefaDaFase'
<1>0. TypeOK
  BY PorLinha
<1>1. CASE bot' = Livre
  BY <1>1, AusenciaFica DEF TarefaDaFase
<1>2. CASE bot' = bot /\ bot # Livre
  <2>1. bot.conversa \in Conversas
    BY <1>0, <1>2 DEF TypeOK, TarefaDoBot
  <2>2. execucao[bot.conversa]["saida"] \notin Vivas \cup {"inexistente"}
          => execucao'[bot.conversa]["saida"] = execucao[bot.conversa]["saida"]
    BY <2>1, SaidaAcabada
  <2> QED
    BY <1>2, <2>2, AusenciaFica DEF TarefaDaFase
<1>3. CASE SegueAEtapa
  <2>1. bot'.fase = bot.fase /\ bot # Livre
    BY <1>0, <1>3, MesmaTarefa DEF SegueAEtapa
  <2>2. \/ bot'.etapa = "concluir"
        \/ bot.etapa \notin {"liberar", "devolver", "concluir"}
    BY <1>0, <1>3 DEF SegueAEtapa, TypeOK, TarefaDoBot
  <2> QED
    BY <2>1, <2>2, AusenciaFica DEF TarefaDaFase
<1>4. CASE \E c \in Conversas : RetomarReserva(c)
  BY <1>4, RetomadaDevida, AusenciaFica DEF TarefaDaFase, Tarefa, Vivas
<1>5. CASE \E c \in Conversas : \E f \in Fases : PassoDoBot(c, f)
  <2>1. PICK c \in Conversas, f \in Fases : PassoDoBot(c, f)
    BY <1>5
  <2>2. CASE PermitidoAoBot(c, f)
    <3>1. RunLoop(c, f)
      BY <2>1, <2>2 DEF PassoDoBot
    <3>2. CASE Termina(c, f, "suspended", Livre)
      BY <1>1, <3>2 DEF Termina
    <3>3. ASSUME NEW estado \in {"completed", "failed"}, NEW resta \in TarefaDoBot,
                 Termina(c, f, estado, resta), resta.conversa = c, resta.fase = f,
                 resta.etapa \notin {"devolver", "concluir"},
                 resta.etapa # "liberar" => f = "entrada"
          PROVE  TarefaDaFase'
      <4>1. bot' = resta /\ execucao'[c][f] = estado
        BY <1>0, <3>3 DEF Termina, TypeOK
      <4> QED
        BY <3>3, <4>1, AusenciaFica DEF TarefaDaFase, Vivas
    <3> QED
      BY <3>1, <3>2, <3>3, LoopDaFase
  <2>3. CASE ~PermitidoAoBot(c, f)
    BY <2>1, <2>3, AusenciaFica DEF PassoDoBot, Tarefa, TarefaDaFase
  <2> QED
    BY <2>2, <2>3
<1> QED
  BY <1>1, <1>2, <1>3, <1>4, <1>5, BotDaVez

LEMMA TarefaSempreDaFase == Spec => [](BancoConsistente /\ TarefaDaFase)
<1>1. Init => TarefaDaFase
  BY DEF Init, TarefaDaFase, Fases
<1>2. ASSUME BancoConsistente, TarefaDaFase, UNCHANGED vars PROVE TarefaDaFase'
  BY <1>2 DEF vars, TarefaDaFase
<1>3. BancoConsistente /\ TarefaDaFase /\ [Next]_vars => TarefaDaFase'
  BY <1>2, FaseDaTarefaPreservada
<1> QED
  BY <1>1, <1>3, Consistencia, PTL DEF Spec

LEMMA InicioDaConducao == Init => Contrato!Init
<1> SUFFICES ASSUME Init PROVE Contrato!Init
  OBVIOUS
<1>1. DevidaPeloBot = [c \in Conversas |-> "nada"]
  BY DEF Init, DevidaPeloBot
<1>2. execucao \in [Conversas -> [Contrato!Fases -> {"inexistente", "running"}]]
  BY DEF Init, Contrato!Fases, Fases
<1>3. FasesDetidas = [c \in Conversas |-> {f \in Contrato!Fases : execucao[c][f] = "running"}]
  <2>1. \A c \in Conversas : FasesDetidas[c] = {}
    BY DEF Init, FasesDetidas, LinhaAusente
  <2>2. \A c \in Conversas : {f \in Contrato!Fases : execucao[c][f] = "running"} = {}
    BY DEF Init, Contrato!Fases, Fases
  <2> QED
    BY <2>1, <2>2 DEF FasesDetidas
<1> QED
  BY <1>1, <1>2, <1>3 DEF Contrato!Init

\* Whoever interleaves, over any number of protocols: the attendants, the webhook, the
\* cron and the switches keep the contract that the chatbot's engine relies on.
THEOREM AtendimentoImplementaAConducao == Spec => SegueAConducao
<1>1. ASSUME BancoConsistente, TarefaDaFase, [Next]_vars PROVE [Contrato!Next]_(Contrato!vars)
  <2>1. CASE Next
    <3>1. \A c \in Conversas : /\ Contrato!Dever(c)
                               /\ \A f \in Contrato!Fases : PassoDaFase(c, f)
      BY <1>1, <2>1, PassoDeve, PassoConduz DEF Contrato!Fases, Fases
    <3> QED
      BY <3>1 DEF Contrato!Next, PassoDaFase
  <2>2. CASE UNCHANGED vars
    BY <2>2 DEF vars, Contrato!vars, FasesDetidas, DevidaPeloBot
  <2> QED
    BY <1>1, <2>1, <2>2
<1> QED
  BY <1>1, InicioDaConducao, TarefaSempreDaFase, PTL DEF Spec, SegueAConducao, Contrato!Spec

================================================================================
