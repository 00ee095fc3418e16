--------------------------- MODULE MotorChatbotProofs --------------------------
(****************************************************************************)
(* What holds of a chatbot execution for any number of questions, failures,  *)
(* crashes and losses of the queue.  IMotor strengthens the safety           *)
(* properties of MotorChatbot: a resume job exists only for a question that  *)
(* has a registered reply, and what step keeps in memory never runs ahead of *)
(* what was committed.                                                       *)
(****************************************************************************)
EXTENDS MotorChatbot, TLAPS

\* The columns of the execution and the history agree.
Coerente ==
  /\ execucao.status = "suspended" => execucao.espera \in Esperas
  /\ \A t \in Esperas :
       /\ t > execucao.espera => caminho[t] = "aberta" /\ respostas[t] = "nenhuma"
       /\ t = execucao.espera /\ execucao.status = "suspended" =>
            /\ caminho[t] = "aberta"
            /\ execucao.resposta <=> respostas[t] = "registrada"
  /\ webhook # Nada => execucao.status = "suspended" /\ ~execucao.resposta

\* A resume job was enqueued by the transaction that registered the reply, or by the
\* cron that found it in the row.
Retoma(js) == \A j \in js : j.tipo = "resume" => respostas[j.token] = "registrada"
JobsNaFila == {j \in Jobs : fila[j] # Nada}
JobsComResposta ==
  /\ Retoma(JobsNaFila) /\ Retoma(aEnfileirar) /\ Retoma(cron)
  /\ trabalho # Nada => Retoma({trabalho.job})

\* A message still to be sent is of the open question, or the last one, and has not
\* been sent.
PorMandar == NaEtapa("enviar") \/ NaEtapa("mandar")
AEnviar ==
  /\ \A t \in Esperas : t > execucao.espera => enviadas[t] = 0
  /\ execucao.status \in Vivas => enviadas[0] = 0
  /\ PorMandar =>
       /\ enviadas[trabalho.espera] = 0
       /\ trabalho.espera \in {0, execucao.espera}
       /\ trabalho.espera = 0 => execucao.status \in Terminais

\* While the bot holds the chat, nothing but the worker's next step ends the question
\* that a message to be sent is about.
DaAberta ==
  /\ execucao.status = "running" => execucao.espera = 0
  /\ NaEtapa("passo") => ~trabalho.mensagem
  /\ NaEtapa("enviar") /\ trabalho.mensagem /\ detida =>
       execucao.status = IF trabalho.espera = 0 THEN "completed" ELSE "suspended"

IMotor ==
  /\ TypeOK
  /\ Coerente
  /\ JobsComResposta
  /\ AEnviar
  /\ SaiDaEsperaComMotivo
  /\ NaoRepeteEnvio
  /\ DaAberta

--------------------------------------------------------------------------------
(* Types *)

USE ConstantesDoMotor DEF ConstantesDoMotor

LEMMA TiposBasicos ==
  /\ Inicio \in Jobs
  /\ \A t \in Esperas : [tipo |-> "resume", token |-> t] \in Jobs
                      /\ [tipo |-> "timeout", token |-> t] \in Jobs
  /\ [tentativas |-> 0, paradas |-> 0] \in NaFila
  /\ \A t \in Esperas : t \in 0 .. MaxEsperas /\ t \in Nat
BY DEF Inicio, Jobs, NaFila, Esperas, Tentativas, Paradas

\* What each write of the execution makes of it.
LEMMA ExecucoesDoMotor ==
  ASSUME NEW e \in Execucao
  PROVE  /\ Abortada(e) \in Execucao
         /\ e.espera < MaxEsperas =>
              \A prazo \in {"sem", "correndo"} : Suspende(e, prazo) \in Execucao
         /\ \A st \in Terminais : Termina(e, st) \in Execucao
         /\ [e EXCEPT !.prazo = "correndo", !.versao = @ + 1] \in Execucao
         /\ [e EXCEPT !.prazo = "vencido"] \in Execucao
         /\ [e EXCEPT !.resposta = TRUE, !.versao = @ + 1] \in Execucao
<1> DEFINE v == e.versao + 1
<1>0. v \in Nat
  BY DEF Execucao
<1> HIDE DEF v
<1>1. Abortada(e) \in Execucao
  <2>1. [e EXCEPT !.status = "aborted", !.resposta = FALSE, !.prazo = "sem", !.versao = v] \in Execucao
    BY <1>0 DEF Execucao, Vivas, Terminais
  <2> QED
    BY <2>1 DEF Abortada, v
<1>2. e.espera < MaxEsperas => \A prazo \in {"sem", "correndo"} : Suspende(e, prazo) \in Execucao
  BY DEF Execucao, Suspende, Vivas
<1>3. \A st \in Terminais : Termina(e, st) \in Execucao
  <2>1. \A st \in Terminais :
          [e EXCEPT !.status = st, !.resposta = FALSE, !.prazo = "sem", !.versao = v] \in Execucao
    BY <1>0 DEF Execucao, Terminais
  <2> QED
    BY <2>1 DEF Termina, v
<1>4. [e EXCEPT !.prazo = "correndo", !.versao = @ + 1] \in Execucao
  <2>1. [e EXCEPT !.prazo = "correndo", !.versao = v] \in Execucao
    BY <1>0 DEF Execucao
  <2> QED
    BY <2>1 DEF v
<1>5. [e EXCEPT !.prazo = "vencido"] \in Execucao
  BY DEF Execucao
<1>6. [e EXCEPT !.resposta = TRUE, !.versao = @ + 1] \in Execucao
  <2>1. [e EXCEPT !.resposta = TRUE, !.versao = v] \in Execucao
    BY <1>0 DEF Execucao
  <2> QED
    BY <2>1 DEF v
<1> QED
  BY <1>1, <1>2, <1>3, <1>4, <1>5, <1>6

LEMMA FilaComJobs ==
  ASSUME TypeOK, NEW js \in SUBSET Jobs
  PROVE  ComJobs(fila, js) \in [Jobs -> NaFila \cup {Nada}]
BY TiposBasicos DEF TypeOK, ComJobs

\* What a failed or stalled job becomes.
LEMMA JobsQueVoltam ==
  ASSUME NEW x \in NaFila \cup {Nada}
  PROVE  Falhado(x) \in NaFila \cup {Nada} /\ Parado(x) \in NaFila \cup {Nada}
<1>1. CASE x = Nada
  BY <1>1 DEF Falhado, Parado
<1>2. CASE x # Nada
  <2>1. x \in NaFila
    BY <1>2
  <2> QED
    BY <2>1 DEF NaFila, Tentativas, Paradas, Falhado, Parado
<1> QED
  BY <1>1, <1>2

LEMMA FilaAoSair ==
  ASSUME TypeOK, trabalho # Nada, NEW falhou, Sair(falhou)
  PROVE  fila' \in [Jobs -> NaFila \cup {Nada}] /\ trabalho' = Nada
<1>1. trabalho.job \in Jobs
  BY DEF TypeOK, Trabalho
<1>2. fila[trabalho.job] \in NaFila \cup {Nada}
  BY <1>1 DEF TypeOK
<1> QED
  BY <1>1, <1>2, JobsQueVoltam DEF TypeOK, Sair

LEMMA FalhaContada ==
  ASSUME TypeOK, Falha
  PROVE  problemas' \in [falhas : 0 .. MaxFalhas, quedas : 0 .. MaxQuedas, perdas : 0 .. MaxPerdas]
BY DEF TypeOK, Falha

LEMMA TipoInicialMotor == Init => TypeOK
BY TiposBasicos DEF Init, TypeOK, Execucao, Vivas, Terminais

\* A committed step leaves the worker with its effects to do.
LEMMA TrabalhoDoPasso ==
  ASSUME TypeOK, ExecutarPasso
  PROVE  trabalho' \in Trabalho
<1>1. trabalho \in Trabalho
  BY DEF TypeOK, ExecutarPasso, NaEtapa
<1>2. execucao.espera < MaxEsperas => execucao.espera + 1 \in 0 .. MaxEsperas
  BY DEF TypeOK, Execucao
<1>3. 0 \in 0 .. MaxEsperas
  OBVIOUS
<1> HIDE ConstantesDoMotor DEF ConstantesDoMotor
<1>4. PICK m \in BOOLEAN :
        \/ /\ execucao.espera < MaxEsperas
           /\ \E prazo \in {"sem", "correndo"} :
                trabalho' = [trabalho EXCEPT !.etapa = "enviar", !.mensagem = m,
                               !.espera = execucao.espera + 1,
                               !.acao = IF prazo = "sem" THEN "nada" ELSE "renovar"]
        \/ \E acao \in AcoesFinais :
                trabalho' = [trabalho EXCEPT !.etapa = "enviar", !.mensagem = m,
                               !.espera = 0, !.acao = acao, !.terminal = TRUE]
        \/ trabalho' = [trabalho EXCEPT !.etapa = "enviar", !.espera = 0, !.terminal = TRUE]
  BY DEF ExecutarPasso
<1>5. AcoesFinais \subseteq Acoes /\ {"nada", "renovar"} \subseteq Acoes /\ "enviar" \in Etapas
  BY DEF AcoesFinais, Acoes, Etapas
<1> QED
  BY <1>1, <1>2, <1>3, <1>4, <1>5 DEF Trabalho

\* Every action, one by one.  A question that is waited for has a token.
LEMMA TipoNosPassos ==
  ASSUME TypeOK, Coerente, Next
  PROVE  TypeOK'
<1> USE DEF historia
<1>0. trabalho # Nada => trabalho \in Trabalho
  BY DEF TypeOK
<1>e. execucao \in Execucao
  BY DEF TypeOK
<1>1. ASSUME NEW j \in Jobs, Enfileirar(j) PROVE TypeOK'
  <2>1. fila' \in [Jobs -> NaFila \cup {Nada}]
    BY <1>1, FilaComJobs DEF Enfileirar, TypeOK
  <2>2. problemas' \in [falhas : 0 .. MaxFalhas, quedas : 0 .. MaxQuedas, perdas : 0 .. MaxPerdas]
    BY <1>1, FalhaContada DEF Enfileirar, TypeOK
  <2> QED
    BY <1>1, <2>1, <2>2 DEF Enfileirar, TypeOK
<1>2. ASSUME LerPendentes PROVE TypeOK'
  <2>1. IniciosPendentes \cup RetomadasPendentes \subseteq Jobs
    BY TiposBasicos DEF Coerente, IniciosPendentes, RetomadasPendentes, SoRespostasPendentes,
                        SoPrazosPendentes
  <2> QED
    BY <1>2, <2>1 DEF LerPendentes, TypeOK
<1>3. ASSUME ReenfileirarPendentes PROVE TypeOK'
  <2>1. fila' \in [Jobs -> NaFila \cup {Nada}]
    BY <1>3, FilaComJobs DEF ReenfileirarPendentes, TypeOK
  <2>2. problemas' \in [falhas : 0 .. MaxFalhas, quedas : 0 .. MaxQuedas, perdas : 0 .. MaxPerdas]
    BY <1>3, FalhaContada DEF ReenfileirarPendentes, TypeOK
  <2> QED
    BY <1>3, <2>1, <2>2 DEF ReenfileirarPendentes, TypeOK
<1>4. ASSUME NEW j \in Jobs, Pegar(j) PROVE TypeOK'
  BY <1>4 DEF Pegar, TypeOK, Trabalho, Etapas, Acoes
<1>5. ASSUME RetomarConclusao PROVE TypeOK'
  BY <1>0, <1>5 DEF RetomarConclusao, SoConcluir, NaEtapa, TypeOK, Trabalho, Etapas
<1>6. ASSUME IgnorarJob PROVE TypeOK'
  BY <1>6, FilaAoSair DEF IgnorarJob, NaEtapa, TypeOK
<1>7. ASSUME AbortarPasso PROVE TypeOK'
  <2>1. execucao' \in Execucao
    BY <1>7, <1>e, ExecucoesDoMotor DEF AbortarPasso
  <2> QED
    BY <1>0, <1>7, <2>1 DEF AbortarPasso, Segue, NaEtapa, TypeOK, Trabalho, Etapas
<1>8. ASSUME ExecutarPasso PROVE TypeOK'
  <2>1. trabalho \in Trabalho /\ trabalho.job.tipo \in {"start", "resume", "timeout"}
    BY <1>0, <1>8 DEF ExecutarPasso, NaEtapa, Trabalho, Jobs
  <2>2. caminho' \in [Esperas -> {"aberta", "start", "resume", "timeout"}]
    BY <1>8, <2>1 DEF ExecutarPasso, TypeOK
  <2>3. execucao' \in Execucao
    BY <1>8, <1>e, ExecucoesDoMotor DEF ExecutarPasso, Terminais
  <2>4. trabalho' \in Trabalho
    BY <1>8, TrabalhoDoPasso
  <2> QED
    BY <1>8, <2>2, <2>3, <2>4 DEF ExecutarPasso, TypeOK
<1>9. ASSUME Devolver PROVE TypeOK'
  BY <1>9, FilaAoSair DEF Devolver, NaEtapa, TypeOK
<1>10. ASSUME Enviar PROVE TypeOK'
  BY <1>0, <1>10 DEF Enviar, Segue, NaEtapa, TypeOK, Trabalho, Etapas
<1>f. ASSUME NaEtapa("mandar"), Mandada PROVE enviadas' \in [0 .. MaxEsperas -> Nat]
  <2>1. trabalho.espera \in 0 .. MaxEsperas
    BY <1>0, <1>f DEF NaEtapa, Trabalho
  <2> QED
    BY SMTT(30), <1>f, <2>1 DEF Mandada, TypeOK
<1>25. ASSUME Mandar PROVE TypeOK'
  <2>1. enviadas' \in [0 .. MaxEsperas -> Nat]
    BY <1>25, <1>f DEF Mandar
  <2>2. trabalho' \in Trabalho
    BY <1>0, <1>25 DEF Mandar, Segue, NaEtapa, Trabalho, Etapas
  <2> QED
    BY <1>25, <2>1, <2>2 DEF Mandar, Segue, TypeOK
<1>11. ASSUME EnvioFalhar PROVE TypeOK'
  <2>1. trabalho \in Trabalho
    BY <1>0, <1>11 DEF EnvioFalhar, NaEtapa
  <2>2. enviadas' \in [0 .. MaxEsperas -> Nat]
    BY <1>11, <1>f DEF EnvioFalhar, TypeOK
  <2>3. trabalho' \in Trabalho
    BY <1>11, <2>1 DEF EnvioFalhar, Trabalho, Etapas
  <2>4. problemas' \in [falhas : 0 .. MaxFalhas, quedas : 0 .. MaxQuedas, perdas : 0 .. MaxPerdas]
    BY <1>11, FalhaContada DEF EnvioFalhar
  <2> QED
    BY <1>11, <2>2, <2>3, <2>4 DEF EnvioFalhar, TypeOK
<1>12. ASSUME RenovarPrazo PROVE TypeOK'
  <2>1. execucao' \in Execucao
    BY <1>12, <1>e, ExecucoesDoMotor DEF RenovarPrazo
  <2> QED
    BY <1>0, <1>12, <2>1 DEF RenovarPrazo, Segue, NaEtapa, TypeOK, Trabalho, Etapas
<1>13. ASSUME EntregarOuEncerrar PROVE TypeOK'
  BY <1>0, <1>13 DEF EntregarOuEncerrar, Segue, NaEtapa, TypeOK, Trabalho, Etapas
<1>14. ASSUME NadaDepois PROVE TypeOK'
  BY <1>0, <1>14 DEF NadaDepois, Segue, NaEtapa, TypeOK, Trabalho, Etapas
<1>15. ASSUME DepoisFalhar PROVE TypeOK'
  BY <1>0, <1>15, FalhaContada DEF DepoisFalhar, NaEtapa, TypeOK, Trabalho, Etapas
<1>16. ASSUME Finalmente PROVE TypeOK'
  <2>1. fila' \in [Jobs -> NaFila \cup {Nada}] /\ trabalho' = Nada
    BY <1>16, FilaAoSair DEF Finalmente, NaEtapa
  <2>2. detida' \in BOOLEAN
    BY <1>16 DEF Finalmente
  <2> QED
    BY <1>16, <2>1, <2>2 DEF Finalmente, TypeOK
<1>17. ASSUME LancaErro PROVE TypeOK'
  <2>1. PICK etapa : Lanca(etapa)
    BY <1>17 DEF LancaErro
  <2>2. fila' \in [Jobs -> NaFila \cup {Nada}] /\ trabalho' = Nada
    BY <2>1, FilaAoSair DEF Lanca, NaEtapa
  <2> QED
    BY <2>1, <2>2, FalhaContada DEF Lanca, TypeOK
<1>18. ASSUME LerExecucao PROVE TypeOK'
  BY <1>18, <1>e DEF LerExecucao, TypeOK, Execucao
<1>19. ASSUME RegistrarResposta PROVE TypeOK'
  <2>1. execucao' \in Execucao
    BY <1>19, <1>e, ExecucoesDoMotor DEF RegistrarResposta
  <2>2. execucao.espera \in Esperas
    BY <1>19 DEF RegistrarResposta, Coerente
  <2>3. respostas' \in [Esperas -> {"nenhuma", "perdida", "registrada"}]
    BY <1>19, <2>2 DEF RegistrarResposta, TypeOK
  <2> DEFINE retomada == [tipo |-> "resume", token |-> execucao.espera]
  <2>4. aEnfileirar' \subseteq aEnfileirar \cup {retomada}
    BY <1>19 DEF RegistrarResposta
  <2>5. retomada \in Jobs
    BY <2>2, TiposBasicos
  <2>6. aEnfileirar' \subseteq Jobs
    BY <2>4, <2>5 DEF TypeOK
  <2> QED
    BY <1>19, <2>1, <2>3, <2>6 DEF RegistrarResposta, TypeOK
<1>20. ASSUME VencerPrazo PROVE TypeOK'
  <2>1. execucao' \in Execucao
    BY <1>20, <1>e, ExecucoesDoMotor DEF VencerPrazo
  <2> QED
    BY <1>20, <2>1 DEF VencerPrazo, TypeOK
<1>21. ASSUME Interromper PROVE TypeOK'
  <2>1. execucao' \in Execucao
    BY <1>21, <1>e, ExecucoesDoMotor DEF Interromper
  <2> QED
    BY <1>21, <2>1 DEF Interromper, TypeOK
<1>22. ASSUME Queda PROVE TypeOK'
  <2>1. fila' \in [Jobs -> NaFila \cup {Nada}]
    BY <1>0, <1>22, JobsQueVoltam DEF Queda, TypeOK, Trabalho
  <2>2. problemas' \in [falhas : 0 .. MaxFalhas, quedas : 0 .. MaxQuedas, perdas : 0 .. MaxPerdas]
    BY <1>22 DEF Queda, TypeOK
  <2> QED
    BY <1>22, <2>1, <2>2 DEF Queda, TypeOK
<1>23. ASSUME PerderFila PROVE TypeOK'
  <2>1. problemas' \in [falhas : 0 .. MaxFalhas, quedas : 0 .. MaxQuedas, perdas : 0 .. MaxPerdas]
    BY <1>23 DEF PerderFila, TypeOK
  <2> QED
    BY <1>23, <2>1 DEF PerderFila, TypeOK
<1>24. ASSUME Religar PROVE TypeOK'
  BY <1>24 DEF Religar, TypeOK
<1> QED
  BY <1>1, <1>2, <1>3, <1>4, <1>5, <1>6, <1>7, <1>8, <1>9, <1>10, <1>11, <1>12, <1>13, <1>14,
     <1>15, <1>16, <1>17, <1>18, <1>19, <1>20, <1>21, <1>22, <1>23, <1>24, <1>25
  DEF Next, Worker, Passo, AposOCommit

--------------------------------------------------------------------------------
(* The row and the history *)

\* Steps that write neither the execution nor what is known of its questions.
Alheios ==
  \/ \E j \in Jobs : Enfileirar(j) \/ Pegar(j)
  \/ LerPendentes \/ ReenfileirarPendentes \/ RetomarConclusao \/ IgnorarJob \/ Devolver
  \/ Enviar \/ Mandar \/ EnvioFalhar \/ EntregarOuEncerrar \/ NadaDepois \/ DepoisFalhar \/ Finalmente
  \/ LancaErro \/ Religar \/ PerderFila

LEMMA PassosDoMotor ==
  Next => \/ Alheios \/ AbortarPasso \/ ExecutarPasso \/ RenovarPrazo \/ LerExecucao
          \/ RegistrarResposta \/ VencerPrazo \/ Interromper \/ Queda
BY DEF Next, Worker, Passo, AposOCommit, Alheios

LEMMA AlheiosNaoEscrevem ==
  Alheios => UNCHANGED <<execucao, webhook, caminho, respostas>>
<1> USE DEF historia
<1>1. ASSUME NEW j \in Jobs, Enfileirar(j) \/ Pegar(j)
      PROVE  UNCHANGED <<execucao, webhook, caminho, respostas>>
  BY <1>1 DEF Enfileirar, Pegar
<1>2. LerPendentes \/ ReenfileirarPendentes \/ RetomarConclusao \/ IgnorarJob \/ Devolver
        => UNCHANGED <<execucao, webhook, caminho, respostas>>
  BY DEF LerPendentes, ReenfileirarPendentes, RetomarConclusao, IgnorarJob, Devolver
<1>3. Enviar \/ Mandar \/ EnvioFalhar \/ EntregarOuEncerrar \/ NadaDepois \/ DepoisFalhar
        \/ Finalmente
        => UNCHANGED <<execucao, webhook, caminho, respostas>>
  BY DEF Enviar, Mandar, EnvioFalhar, EntregarOuEncerrar, NadaDepois, DepoisFalhar, Finalmente
<1>4. LancaErro \/ Religar \/ PerderFila => UNCHANGED <<execucao, webhook, caminho, respostas>>
  BY DEF LancaErro, Lanca, Religar, PerderFila
<1> QED
  BY <1>1, <1>2, <1>3, <1>4 DEF Alheios

\* Aborting ends what was alive and leaves the rest alone.
LEMMA AbortadaTermina ==
  ASSUME NEW e \in Execucao
  PROVE  /\ Abortada(e).espera = e.espera
         /\ Abortada(e).status \in Terminais
         /\ e.status \in Terminais => Abortada(e) = e
BY DEF Abortada, Execucao, Vivas, Terminais

LEMMA CoerenteNosPassos ==
  ASSUME IMotor, Next
  PROVE  Coerente'
<1> USE DEF historia, IMotor
<1>e. execucao \in Execucao
  BY DEF TypeOK
<1>1. CASE Alheios
  BY <1>1, AlheiosNaoEscrevem DEF Coerente
<1>2. CASE AbortarPasso \/ Interromper
  <2>1. /\ execucao' = Abortada(execucao)
        /\ UNCHANGED <<webhook, caminho, respostas>> /\ webhook = Nada
    BY <1>2 DEF AbortarPasso, Interromper, ChatLivre
  <2> QED
    BY <1>e, <2>1, AbortadaTermina DEF Coerente, Terminais
<1>3. CASE ExecutarPasso
  <2>1. UNCHANGED <<webhook, respostas>> /\ webhook = Nada
    BY <1>3 DEF ExecutarPasso, ChatLivre
  <2>2. \/ /\ execucao'.status \in Terminais /\ execucao'.espera = execucao.espera
        \/ /\ execucao.espera < MaxEsperas
           /\ execucao'.status = "suspended" /\ execucao'.espera = execucao.espera + 1
           /\ execucao'.resposta = FALSE
    <3>1. CASE execucao.espera < MaxEsperas /\ \E prazo : execucao' = Suspende(execucao, prazo)
      BY <3>1 DEF Suspende
    <3>2. CASE \E st \in Terminais : execucao' = Termina(execucao, st)
      BY <3>2, <1>e DEF Termina, Execucao
    <3> QED
      BY <1>3, <3>1, <3>2 DEF ExecutarPasso, Terminais
  <2>3. \A t \in Esperas : t # execucao.espera => caminho'[t] = caminho[t]
    BY <1>3 DEF ExecutarPasso, TypeOK
  <2>4. execucao.espera \in Nat /\ Esperas \subseteq Nat
    BY <1>e DEF Execucao, Esperas
  <2>5. CASE execucao'.status \in Terminais /\ execucao'.espera = execucao.espera
    BY <2>1, <2>3, <2>4, <2>5 DEF Coerente, Terminais
  <2>6. CASE /\ execucao.espera < MaxEsperas
             /\ execucao'.status = "suspended" /\ execucao'.espera = execucao.espera + 1
             /\ execucao'.resposta = FALSE
    <3>1. execucao'.espera \in Esperas /\ execucao'.espera > execucao.espera
      BY <2>4, <2>6 DEF Esperas
    <3>2. ASSUME NEW t \in Esperas, t >= execucao'.espera
          PROVE  t > execucao.espera /\ caminho'[t] = "aberta" /\ respostas'[t] = "nenhuma"
      <4>1. t > execucao.espera /\ t # execucao.espera
        BY <2>4, <2>6, <3>2
      <4> QED
        BY <2>1, <2>3, <4>1 DEF Coerente
    <3> QED
      BY <2>1, <2>4, <2>6, <3>1, <3>2 DEF Coerente
  <2> QED
    BY <2>2, <2>5, <2>6
<1>4. CASE RenovarPrazo
  <2>1. /\ execucao'.status = execucao.status /\ execucao'.espera = execucao.espera
        /\ execucao'.resposta = execucao.resposta
        /\ UNCHANGED <<webhook, caminho, respostas>>
    BY <1>4, <1>e DEF RenovarPrazo, Execucao
  <2> QED
    BY <2>1 DEF Coerente
<1>5. CASE VencerPrazo
  <2>1. /\ execucao'.status = execucao.status /\ execucao'.espera = execucao.espera
        /\ execucao'.resposta = execucao.resposta
        /\ UNCHANGED <<webhook, caminho, respostas>>
    BY <1>5, <1>e DEF VencerPrazo, Execucao
  <2> QED
    BY <2>1 DEF Coerente
<1>6. CASE LerExecucao
  BY <1>6 DEF LerExecucao, Coerente
<1>7. CASE RegistrarResposta
  <2>1. execucao.status = "suspended" /\ ~execucao.resposta /\ execucao.espera \in Esperas
    BY <1>7 DEF RegistrarResposta, Coerente
  <2>2. \A t \in Esperas : t # execucao.espera => respostas'[t] = respostas[t]
    BY <1>7 DEF RegistrarResposta, TypeOK
  <2>3. /\ execucao'.status = execucao.status /\ execucao'.espera = execucao.espera
        /\ execucao'.resposta <=> respostas'[execucao.espera] = "registrada"
        /\ caminho' = caminho /\ webhook' = Nada
    <3>1. execucao'.status = execucao.status /\ execucao'.espera = execucao.espera
      BY <1>7, <1>e DEF RegistrarResposta, Execucao
    <3>2. execucao'.resposta <=> respostas'[execucao.espera] = "registrada"
      <4>1. CASE execucao.versao = webhook
        BY <1>7, <1>e, <2>1, <4>1 DEF RegistrarResposta, Execucao, TypeOK
      <4>2. CASE execucao.versao # webhook
        BY <1>7, <2>1, <4>2 DEF RegistrarResposta, TypeOK
      <4> QED
        BY <4>1, <4>2
    <3>3. caminho' = caminho /\ webhook' = Nada
      BY <1>7 DEF RegistrarResposta
    <3> QED
      BY <3>1, <3>2, <3>3
  <2> QED
    BY <1>e, <2>1, <2>2, <2>3 DEF Coerente, Execucao, Esperas
<1>8. CASE Queda
  BY <1>8 DEF Queda, Coerente
<1> QED
  BY <1>1, <1>2, <1>3, <1>4, <1>5, <1>6, <1>7, <1>8, PassosDoMotor

--------------------------------------------------------------------------------
(* Replies, jobs and messages *)

\* A registered reply stays registered.
LEMMA RegistradaFica ==
  ASSUME IMotor, Next, NEW t \in Esperas, respostas[t] = "registrada"
  PROVE  respostas'[t] = "registrada"
<1> USE DEF historia, IMotor
<1>1. CASE RegistrarResposta
  <2>1. execucao.status = "suspended" /\ ~execucao.resposta /\ execucao.espera \in Esperas
    BY <1>1 DEF RegistrarResposta, Coerente
  <2>2. t # execucao.espera
    BY <2>1 DEF Coerente
  <2> QED
    BY <1>1, <2>2 DEF RegistrarResposta, TypeOK
<1>2. CASE Alheios
  BY <1>2, AlheiosNaoEscrevem
<1>3. CASE \/ AbortarPasso \/ ExecutarPasso \/ RenovarPrazo \/ LerExecucao \/ VencerPrazo
           \/ Interromper \/ Queda
  BY <1>3 DEF AbortarPasso, ExecutarPasso, RenovarPrazo, LerExecucao, VencerPrazo, Interromper,
              Queda
<1> QED
  BY <1>1, <1>2, <1>3, PassosDoMotor

LEMMA TokensDosJobs == \A j \in Jobs : j.tipo = "resume" => j.token \in Esperas
BY DEF Jobs

\* Sets of jobs keep to registered replies as long as nothing else is added.
LEMMA RetomaFica ==
  ASSUME IMotor, Next, NEW js \in SUBSET Jobs, Retoma(js)
  PROVE  \A j \in js : j.tipo = "resume" => respostas'[j.token] = "registrada"
BY RegistradaFica, TokensDosJobs DEF Retoma

\* Where the jobs of each place come from.
LEMMA OrigemDosJobs ==
  ASSUME IMotor, Next
  PROVE  /\ \A j \in Jobs : fila'[j] # Nada => fila[j] # Nada \/ j \in aEnfileirar \cup cron
         /\ \A j \in cron' : j \in cron \cup IniciosPendentes \cup RetomadasPendentes
         /\ \A j \in aEnfileirar' :
              \/ j \in aEnfileirar
              \/ RegistrarResposta /\ respostas'[j.token] = "registrada"
         /\ trabalho' # Nada =>
              \/ trabalho # Nada /\ trabalho'.job = trabalho.job
              \/ trabalho'.job \in JobsNaFila
<1> USE DEF historia, IMotor
<1>0. trabalho # Nada => trabalho \in Trabalho /\ trabalho.job \in Jobs
  BY DEF TypeOK, Trabalho
<1>f. /\ \A falhou : Sair(falhou) /\ trabalho # Nada =>
           trabalho' = Nada /\ \A j \in Jobs : fila'[j] # Nada => fila[j] # Nada
      /\ \A etapa : Segue(etapa) /\ trabalho # Nada =>
           trabalho'.job = trabalho.job /\ fila' = fila
  <2>1. ASSUME NEW falhou, Sair(falhou), trabalho # Nada, NEW j \in Jobs, fila'[j] # Nada
        PROVE  fila[j] # Nada
    BY <1>0, <2>1 DEF Sair, Falhado, TypeOK
  <2>2. ASSUME NEW etapa, Segue(etapa), trabalho # Nada
        PROVE  trabalho'.job = trabalho.job /\ fila' = fila
    BY <1>0, <2>2 DEF Segue, Trabalho
  <2> QED
    BY <2>1, <2>2 DEF Sair
<1>1. ASSUME NEW j \in Jobs, Enfileirar(j)
      PROVE  /\ \A k \in Jobs : fila'[k] # Nada => fila[k] # Nada \/ k \in aEnfileirar
             /\ aEnfileirar' \subseteq aEnfileirar /\ cron' = cron /\ trabalho' = trabalho
  BY <1>1 DEF Enfileirar, ComJobs, TypeOK
<1>2. CASE LerPendentes
  BY <1>2 DEF LerPendentes
<1>3. ASSUME ReenfileirarPendentes
      PROVE  /\ \A k \in Jobs : fila'[k] # Nada => fila[k] # Nada \/ k \in cron
             /\ aEnfileirar' = aEnfileirar /\ cron' = {} /\ trabalho' = trabalho
  BY <1>3 DEF ReenfileirarPendentes, ComJobs, TypeOK
<1>4. ASSUME NEW j \in Jobs, Pegar(j)
      PROVE  /\ UNCHANGED <<fila, aEnfileirar, cron>>
             /\ trabalho'.job \in JobsNaFila
  BY <1>4 DEF Pegar, JobsNaFila
<1>5. CASE RetomarConclusao
  BY <1>0, <1>5 DEF RetomarConclusao, SoConcluir, NaEtapa, Trabalho
<1>6. CASE IgnorarJob
  BY <1>6, <1>f DEF IgnorarJob, NaEtapa
<1>7. CASE AbortarPasso
  BY <1>7, <1>f DEF AbortarPasso, NaEtapa
<1>8. CASE ExecutarPasso
  <2>1. UNCHANGED <<fila, aEnfileirar, cron>> /\ trabalho \in Trabalho
    BY <1>0, <1>8 DEF ExecutarPasso, NaEtapa
  <2>2. trabalho # Nada /\ trabalho'.job = trabalho.job
    BY <1>8, <2>1 DEF ExecutarPasso, NaEtapa, Trabalho
  <2> QED
    BY <2>1, <2>2
<1>9. CASE Devolver
  BY <1>9, <1>f DEF Devolver, NaEtapa
<1>10. CASE Enviar \/ Mandar
  BY <1>10, <1>f DEF Enviar, Mandar, NaEtapa
<1>11. CASE EnvioFalhar
  BY <1>0, <1>11 DEF EnvioFalhar, NaEtapa, Trabalho
<1>12. CASE RenovarPrazo
  BY <1>12, <1>f DEF RenovarPrazo, NaEtapa
<1>13. CASE EntregarOuEncerrar \/ NadaDepois
  BY <1>13, <1>f DEF EntregarOuEncerrar, NadaDepois, NaEtapa
<1>14. CASE DepoisFalhar
  BY <1>0, <1>14 DEF DepoisFalhar, NaEtapa, Trabalho
<1>15. CASE Finalmente
  BY <1>15, <1>f DEF Finalmente, NaEtapa
<1>16. CASE LancaErro
  BY <1>16, <1>f DEF LancaErro, Lanca, NaEtapa
<1>17. CASE LerExecucao \/ VencerPrazo \/ Interromper \/ Religar
  BY <1>17 DEF LerExecucao, VencerPrazo, Interromper, Religar
<1>18. CASE RegistrarResposta
  <2>1. UNCHANGED <<fila, cron, trabalho>>
    BY <1>18 DEF RegistrarResposta
  <2>2. execucao.espera \in Esperas
    BY <1>18 DEF RegistrarResposta, Coerente
  <2>3. ASSUME NEW j \in aEnfileirar', j \notin aEnfileirar
        PROVE  respostas'[j.token] = "registrada"
    BY <1>18, <2>2, <2>3 DEF RegistrarResposta, TypeOK
  <2> QED
    BY <1>18, <2>1, <2>3
<1>19. CASE Queda
  <2>1. trabalho' = Nada /\ aEnfileirar' = {} /\ cron' = {}
    BY <1>19 DEF Queda
  <2>2. \A j \in Jobs : fila'[j] # Nada => fila[j] # Nada
    BY <1>0, <1>19 DEF Queda, Parado, TypeOK
  <2> QED
    BY <2>1, <2>2
<1>20. CASE PerderFila
  BY <1>20 DEF PerderFila
<1> QED
  BY <1>1, <1>2, <1>3, <1>4, <1>5, <1>6, <1>7, <1>8, <1>9, <1>10, <1>11, <1>12, <1>13, <1>14,
     <1>15, <1>16, <1>17, <1>18, <1>19, <1>20
  DEF Next, Worker, Passo, AposOCommit

LEMMA JobsNosPassos ==
  ASSUME IMotor, Next
  PROVE  JobsComResposta'
<1> USE DEF IMotor
<1> DEFINE Ok(j) == j.tipo = "resume" => respostas'[j.token] = "registrada"
<1>1. /\ \A j \in JobsNaFila : Ok(j)
      /\ \A j \in aEnfileirar : Ok(j)
      /\ \A j \in cron : Ok(j)
      /\ trabalho # Nada => Ok(trabalho.job)
  <2>1. JobsNaFila \subseteq Jobs /\ aEnfileirar \subseteq Jobs /\ cron \subseteq Jobs
    BY DEF JobsNaFila, TypeOK
  <2>2. trabalho # Nada => {trabalho.job} \subseteq Jobs
    BY DEF TypeOK, Trabalho
  <2> QED
    BY <2>1, <2>2, RetomaFica DEF JobsComResposta
<1>2. \A j \in IniciosPendentes \cup RetomadasPendentes : Ok(j)
  <2>1. \A j \in IniciosPendentes \cup SoPrazosPendentes : j.tipo # "resume"
    BY DEF IniciosPendentes, SoPrazosPendentes, Inicio
  <2>2. ASSUME NEW j \in SoRespostasPendentes
        PROVE  Ok(j)
    <3>1. /\ execucao.status = "suspended" /\ execucao.resposta
          /\ j.token = execucao.espera
      BY <2>2 DEF SoRespostasPendentes
    <3>2. execucao.espera \in Esperas /\ respostas[execucao.espera] = "registrada"
      BY <3>1 DEF Coerente
    <3> QED
      BY <3>1, <3>2, RegistradaFica
  <2> QED
    BY <2>1, <2>2 DEF RetomadasPendentes
<1>3. \A j \in Jobs : fila'[j] # Nada => Ok(j)
  BY <1>1, OrigemDosJobs DEF JobsNaFila
<1>4. \A j \in cron' : Ok(j)
  BY <1>1, <1>2, OrigemDosJobs
<1>5. \A j \in aEnfileirar' : Ok(j)
  BY <1>1, OrigemDosJobs
<1>6. trabalho' # Nada => Ok(trabalho'.job)
  BY <1>1, OrigemDosJobs
<1> QED
  BY <1>3, <1>4, <1>5, <1>6 DEF JobsComResposta, Retoma, JobsNaFila

LEMMA MotivoNosPassos ==
  ASSUME IMotor, Next
  PROVE  SaiDaEsperaComMotivo'
<1> USE DEF historia, IMotor
<1>1. CASE Alheios
  BY <1>1, AlheiosNaoEscrevem DEF SaiDaEsperaComMotivo
<1>2. CASE \/ AbortarPasso \/ RenovarPrazo \/ LerExecucao \/ VencerPrazo \/ Interromper \/ Queda
  BY <1>2 DEF AbortarPasso, RenovarPrazo, LerExecucao, VencerPrazo, Interromper, Queda,
              SaiDaEsperaComMotivo
<1>3. CASE RegistrarResposta
  \* The question being answered has not been left.
  <2>1. execucao.espera \in Esperas /\ caminho[execucao.espera] = "aberta" /\ caminho' = caminho
    BY <1>3 DEF RegistrarResposta, Coerente
  <2>2. \A t \in Esperas : t # execucao.espera => respostas'[t] = respostas[t]
    BY <1>3 DEF RegistrarResposta, TypeOK
  <2> QED
    BY <2>1, <2>2 DEF SaiDaEsperaComMotivo
<1>4. CASE ExecutarPasso
  <2>1. respostas' = respostas
    BY <1>4 DEF ExecutarPasso
  <2>2. CASE execucao.status # "suspended"
    BY <1>4, <2>1, <2>2 DEF ExecutarPasso, SaiDaEsperaComMotivo
  <2>3. CASE execucao.status = "suspended"
    <3> DEFINE t == execucao.espera
    <3>1. t \in Esperas /\ (execucao.resposta <=> respostas[t] = "registrada")
      BY <2>3 DEF Coerente
    <3>2. caminho' = [caminho EXCEPT ![t] = trabalho.job.tipo]
      BY <1>4, <2>3 DEF ExecutarPasso
    <3>3. trabalho # Nada /\ trabalho.job \in Jobs /\ Vale(trabalho.job, execucao)
      BY <1>4 DEF ExecutarPasso, NaEtapa, TypeOK, Trabalho
    <3>4. trabalho.job.tipo # "start" /\ trabalho.job.token = t
      BY <2>3, <3>3 DEF Vale
    <3>5. trabalho.job.tipo = "resume" => respostas[t] = "registrada"
      BY <3>3, <3>4 DEF JobsComResposta, Retoma
    <3>6. trabalho.job.tipo = "timeout" => respostas[t] # "registrada"
      BY <3>1, <3>3 DEF Vale
    <3> QED
      BY <2>1, <3>1, <3>2, <3>4, <3>5, <3>6 DEF SaiDaEsperaComMotivo, TypeOK
  <2> QED
    BY <2>2, <2>3
<1> QED
  BY <1>1, <1>2, <1>3, <1>4, PassosDoMotor

\* A step that sends nothing and starts no sending.
LEMMA SemEnvio ==
  ASSUME IMotor, enviadas' = enviadas,
         execucao'.espera = execucao.espera,
         execucao.status \in Terminais => execucao'.status \in Terminais,
         PorMandar' => PorMandar /\ trabalho'.espera = trabalho.espera,
         execucao' \in Execucao
  PROVE  AEnviar' /\ NaoRepeteEnvio'
<1>1. execucao'.status \in Vivas => execucao.status \in Vivas
  BY DEF IMotor, TypeOK, Execucao, Vivas, Terminais
<1> QED
  BY <1>1 DEF IMotor, AEnviar, NaoRepeteEnvio

\* A step that sends what it had to send.
LEMMA ComEnvio ==
  ASSUME IMotor, PorMandar, execucao' = execucao, ~PorMandar',
         \/ enviadas' = enviadas
         \/ enviadas' = [enviadas EXCEPT ![trabalho.espera] = @ + 1]
  PROVE  AEnviar' /\ NaoRepeteEnvio'
<1> USE DEF IMotor
<1>1. CASE enviadas' = enviadas
  BY <1>1 DEF AEnviar, NaoRepeteEnvio
<1>2. CASE enviadas' = [enviadas EXCEPT ![trabalho.espera] = @ + 1]
  <2>1. trabalho \in Trabalho /\ trabalho.espera \in 0 .. MaxEsperas /\ execucao \in Execucao
    BY DEF PorMandar, NaEtapa, TypeOK, Trabalho
  <2>2. enviadas[trabalho.espera] = 0 /\ trabalho.espera <= execucao.espera
    BY <2>1 DEF AEnviar, Execucao
  <2>3. /\ enviadas'[trabalho.espera] = 1
        /\ \A t \in 0 .. MaxEsperas : t # trabalho.espera => enviadas'[t] = enviadas[t]
    BY <1>2, <2>1, <2>2 DEF TypeOK
  <2>4. NaoRepeteEnvio'
    BY <2>3 DEF NaoRepeteEnvio
  <2>5. ASSUME NEW t \in Esperas, t > execucao'.espera
        PROVE  enviadas'[t] = 0
    <3>1. t \in 0 .. MaxEsperas /\ t # trabalho.espera /\ t > execucao.espera
      BY <2>1, <2>2, <2>5 DEF Esperas, Execucao
    <3> QED
      BY <2>3, <3>1 DEF AEnviar
  <2>6. ASSUME execucao'.status \in Vivas
        PROVE  enviadas'[0] = 0
    <3>1. trabalho.espera # 0
      BY <2>6 DEF AEnviar, Vivas, Terminais
    <3> QED
      BY <2>3, <2>6, <3>1 DEF AEnviar
  <2> QED
    BY <2>4, <2>5, <2>6 DEF AEnviar
<1> QED
  BY <1>1, <1>2

LEMMA EnvioNosPassos ==
  ASSUME IMotor, Next, TypeOK'
  PROVE  AEnviar' /\ NaoRepeteEnvio'
<1> USE DEF historia, IMotor
<1>0. /\ trabalho # Nada => trabalho \in Trabalho
      /\ execucao \in Execucao /\ execucao' \in Execucao
  BY DEF TypeOK
<1>1. ASSUME NEW j \in Jobs, Enfileirar(j) PROVE AEnviar' /\ NaoRepeteEnvio'
  BY <1>0, <1>1, SemEnvio DEF Enfileirar, PorMandar, NaEtapa
<1>2. CASE LerPendentes \/ ReenfileirarPendentes \/ LerExecucao \/ Religar \/ PerderFila
  BY <1>0, <1>2, SemEnvio
  DEF LerPendentes, ReenfileirarPendentes, LerExecucao, Religar, PerderFila, PorMandar, NaEtapa
<1>3. ASSUME NEW j \in Jobs, Pegar(j) PROVE AEnviar' /\ NaoRepeteEnvio'
  BY <1>0, <1>3, SemEnvio DEF Pegar, PorMandar, NaEtapa
<1>4. CASE RetomarConclusao
  BY <1>0, <1>4, SemEnvio DEF RetomarConclusao, SoConcluir, PorMandar, NaEtapa, Trabalho
<1>5. CASE IgnorarJob
  BY <1>0, <1>5, SemEnvio DEF IgnorarJob, Sair, PorMandar, NaEtapa
<1>6. CASE Devolver
  BY <1>0, <1>6, SemEnvio DEF Devolver, Sair, PorMandar, NaEtapa
<1>7. CASE Finalmente
  BY <1>0, <1>7, SemEnvio DEF Finalmente, Sair, PorMandar, NaEtapa
<1>8. CASE LancaErro
  BY <1>0, <1>8, SemEnvio DEF LancaErro, Lanca, Sair, PorMandar, NaEtapa
<1>9. CASE EntregarOuEncerrar \/ NadaDepois
  BY <1>0, <1>9, SemEnvio DEF EntregarOuEncerrar, NadaDepois, Segue, PorMandar, NaEtapa, Trabalho
<1>10. CASE DepoisFalhar
  BY <1>0, <1>10, SemEnvio DEF DepoisFalhar, PorMandar, NaEtapa, Trabalho
<1>11. CASE RenovarPrazo
  <2>1. execucao'.espera = execucao.espera /\ execucao'.status = execucao.status
    BY <1>0, <1>11 DEF RenovarPrazo, Execucao
  <2> QED
    BY <1>0, <1>11, <2>1, SemEnvio DEF RenovarPrazo, Segue, PorMandar, NaEtapa, Trabalho
<1>12. CASE AbortarPasso
  <2>1. execucao'.espera = execucao.espera /\ execucao'.status \in Terminais
    BY <1>0, <1>12, AbortadaTermina DEF AbortarPasso
  <2> QED
    BY <1>0, <1>12, <2>1, SemEnvio DEF AbortarPasso, Segue, PorMandar, NaEtapa, Trabalho
<1>13. CASE Interromper
  <2>1. execucao'.espera = execucao.espera /\ execucao'.status \in Terminais
    BY <1>0, <1>13, AbortadaTermina DEF Interromper
  <2> QED
    BY <1>0, <1>13, <2>1, SemEnvio DEF Interromper, PorMandar, NaEtapa
<1>14. CASE VencerPrazo
  <2>1. execucao'.espera = execucao.espera /\ execucao'.status = execucao.status
    BY <1>0, <1>14 DEF VencerPrazo, Execucao
  <2> QED
    BY <1>0, <1>14, <2>1, SemEnvio DEF VencerPrazo, PorMandar, NaEtapa
<1>15. CASE RegistrarResposta
  <2>1. execucao'.espera = execucao.espera /\ execucao'.status = execucao.status
    BY <1>0, <1>15 DEF RegistrarResposta, Execucao
  <2> QED
    BY <1>0, <1>15, <2>1, SemEnvio DEF RegistrarResposta, PorMandar, NaEtapa
<1>16. CASE Queda
  BY <1>0, <1>16, SemEnvio DEF Queda, PorMandar, NaEtapa
<1>17. CASE Enviar
  BY <1>0, <1>17, SemEnvio DEF Enviar, Segue, PorMandar, NaEtapa, Trabalho
<1>20. CASE Mandar
  <2>1. trabalho \in Trabalho /\ trabalho'.etapa = "depois"
    BY <1>0, <1>20 DEF Mandar, Segue, NaEtapa, Trabalho
  <2> QED
    BY <1>20, <2>1, ComEnvio DEF Mandar, Mandada, PorMandar, NaEtapa
<1>18. CASE EnvioFalhar
  <2>1. trabalho \in Trabalho /\ trabalho'.etapa \in {"depois", "finalmente"}
    BY <1>0, <1>18 DEF EnvioFalhar, NaEtapa, Trabalho
  <2> QED
    BY <1>18, <2>1, ComEnvio DEF EnvioFalhar, Mandada, PorMandar, NaEtapa
<1>19. CASE ExecutarPasso
  <2>1. enviadas' = enviadas /\ execucao.status \in Vivas /\ trabalho \in Trabalho
        /\ ~PorMandar
    BY <1>0, <1>19 DEF ExecutarPasso, Pendente, PorMandar, NaEtapa
  <2>2. \A t \in Esperas : t > execucao.espera => enviadas[t] = 0
    BY DEF AEnviar
  <2>3. enviadas[0] = 0
    BY <2>1 DEF AEnviar
  \* The next question: nothing was sent about it yet.
  <2>4. ASSUME execucao.espera < MaxEsperas,
               NEW prazo \in {"sem", "correndo"}, execucao' = Suspende(execucao, prazo),
               NEW mensagem \in BOOLEAN, NEW acao,
               trabalho' = [trabalho EXCEPT !.etapa = "enviar", !.mensagem = mensagem,
                              !.espera = execucao.espera + 1, !.acao = acao]
        PROVE  AEnviar'
    <3>1. execucao.espera \in Nat /\ execucao.espera + 1 \in Esperas
          /\ execucao'.espera = execucao.espera + 1
      BY <1>0, <2>4 DEF Execucao, Esperas, Suspende
    <3>2. trabalho'.espera = execucao.espera + 1
      BY <2>1, <2>4 DEF Trabalho
    <3>3. enviadas[execucao.espera + 1] = 0
      BY <2>2, <3>1
    <3>4. \A t \in Esperas : t > execucao'.espera => enviadas[t] = 0
      BY <2>2, <3>1 DEF Esperas
    <3> QED
      BY <2>1, <2>3, <3>1, <3>2, <3>3, <3>4 DEF AEnviar
  \* The end of the flow: the final message was not sent while it was alive.
  <2>5. ASSUME NEW st \in Terminais, execucao' = Termina(execucao, st),
               trabalho'.espera = 0
        PROVE  AEnviar'
    <3>1. execucao'.espera = execucao.espera /\ execucao'.status = st
      BY <1>0, <2>5 DEF Termina, Execucao
    <3>2. execucao'.status \notin Vivas
      BY <3>1 DEF Vivas, Terminais
    <3>3. 0 <= execucao'.espera
      BY <1>0 DEF Execucao
    <3> QED
      BY <2>1, <2>2, <2>3, <2>5, <3>1, <3>2, <3>3 DEF AEnviar
  <2>6. AEnviar'
    <3>1. PICK mensagem \in BOOLEAN :
            \/ /\ execucao.espera < MaxEsperas
               /\ \E prazo \in {"sem", "correndo"} :
                    /\ execucao' = Suspende(execucao, prazo)
                    /\ trabalho' = [trabalho EXCEPT !.etapa = "enviar", !.mensagem = mensagem,
                                      !.espera = execucao.espera + 1,
                                      !.acao = IF prazo = "sem" THEN "nada" ELSE "renovar"]
            \/ \E acao \in AcoesFinais :
                    /\ execucao' = Termina(execucao, "completed")
                    /\ trabalho' = [trabalho EXCEPT !.etapa = "enviar", !.mensagem = mensagem,
                                      !.espera = 0, !.acao = acao, !.terminal = TRUE]
            \/ /\ ~mensagem
               /\ execucao' = Termina(execucao, "failed")
               /\ trabalho' = [trabalho EXCEPT !.etapa = "enviar", !.espera = 0, !.terminal = TRUE]
      BY <1>19 DEF ExecutarPasso
    <3>2. CASE execucao.espera < MaxEsperas
               /\ \E prazo \in {"sem", "correndo"} :
                    /\ execucao' = Suspende(execucao, prazo)
                    /\ trabalho' = [trabalho EXCEPT !.etapa = "enviar", !.mensagem = mensagem,
                                      !.espera = execucao.espera + 1,
                                      !.acao = IF prazo = "sem" THEN "nada" ELSE "renovar"]
      BY <2>4, <3>2
    <3>3. CASE \E acao \in AcoesFinais :
                    /\ execucao' = Termina(execucao, "completed")
                    /\ trabalho' = [trabalho EXCEPT !.etapa = "enviar", !.mensagem = mensagem,
                                      !.espera = 0, !.acao = acao, !.terminal = TRUE]
      BY <2>1, <2>5, <3>3 DEF Terminais, Trabalho
    <3>4. CASE /\ execucao' = Termina(execucao, "failed")
               /\ trabalho' = [trabalho EXCEPT !.etapa = "enviar", !.espera = 0, !.terminal = TRUE]
      BY <2>1, <2>5, <3>4 DEF Terminais, Trabalho
    <3> QED
      BY <3>1, <3>2, <3>3, <3>4
  <2> QED
    BY <2>1, <2>6 DEF NaoRepeteEnvio
<1> QED
  BY <1>1, <1>2, <1>3, <1>4, <1>5, <1>6, <1>7, <1>8, <1>9, <1>10, <1>11, <1>12, <1>13, <1>14,
     <1>15, <1>16, <1>17, <1>18, <1>19, <1>20
  DEF Next, Worker, Passo, AposOCommit

\* The status changes at the worker's own steps, or with the chat taken from the bot.
LEMMA AbertaNosPassos ==
  ASSUME IMotor, Next
  PROVE  DaAberta'
<1> USE DEF historia
<1>0. /\ trabalho # Nada => trabalho \in Trabalho
      /\ execucao \in Execucao /\ DaAberta
  BY DEF IMotor, TypeOK
<1>1. CASE ExecutarPasso
  <2>1. trabalho \in Trabalho
    BY <1>0, <1>1 DEF ExecutarPasso, NaEtapa
  <2>2. PICK m \in BOOLEAN :
          \/ /\ execucao.espera < MaxEsperas
             /\ \E prazo \in {"sem", "correndo"} :
                  /\ execucao' = Suspende(execucao, prazo)
                  /\ trabalho'.espera = execucao.espera + 1
          \/ /\ execucao' = Termina(execucao, "completed")
             /\ trabalho'.espera = 0
          \/ /\ execucao' = Termina(execucao, "failed")
             /\ trabalho'.mensagem = trabalho.mensagem
    BY <1>1, <2>1 DEF ExecutarPasso, Trabalho
  <2>3. ~trabalho.mensagem /\ trabalho'.etapa = "enviar"
    BY <1>0, <1>1, <2>1 DEF ExecutarPasso, DaAberta, Trabalho
  <2>4. CASE /\ execucao.espera < MaxEsperas
             /\ \E prazo \in {"sem", "correndo"} : execucao' = Suspende(execucao, prazo)
             /\ trabalho'.espera = execucao.espera + 1
    <3>1. execucao'.status = "suspended" /\ trabalho'.espera # 0
      BY <1>0, <2>4 DEF Suspende, Execucao
    <3> QED
      BY <2>3, <3>1 DEF DaAberta, NaEtapa
  <2>5. ASSUME NEW st \in {"completed", "failed"}, execucao' = Termina(execucao, st),
               st = "completed" => trabalho'.espera = 0, st = "failed" => ~trabalho'.mensagem
        PROVE  DaAberta'
    <3>1. execucao'.status = st
      BY <1>0, <2>5 DEF Termina, Execucao
    <3> QED
      BY <2>3, <2>5, <3>1 DEF DaAberta, NaEtapa
  <2> QED
    BY <2>2, <2>3, <2>4, <2>5
<1>2. CASE AbortarPasso \/ Interromper
  <2>1. execucao'.status \in Terminais
    BY <1>0, <1>2, AbortadaTermina DEF AbortarPasso, Interromper
  <2>2. /\ ~NaEtapa("enviar")' \/ ~detida'
        /\ NaEtapa("passo")' => ~trabalho'.mensagem
    BY <1>0, <1>2 DEF AbortarPasso, Interromper, Segue, NaEtapa, Trabalho, DaAberta
  <2> QED
    BY <2>1, <2>2 DEF DaAberta, Terminais
\* Neither the status nor the question changes, and no sending begins.
<1>3. ASSUME execucao'.status = execucao.status, execucao'.espera = execucao.espera,
             detida' => detida,
             NaEtapa("enviar")' => /\ NaEtapa("enviar") /\ trabalho'.espera = trabalho.espera
                                   /\ trabalho'.mensagem = trabalho.mensagem,
             NaEtapa("passo")' =>
               \/ NaEtapa("passo") /\ trabalho'.mensagem = trabalho.mensagem
               \/ ~trabalho'.mensagem
      PROVE  DaAberta'
  BY <1>0, <1>3 DEF DaAberta
<1>4. CASE RenovarPrazo \/ VencerPrazo \/ RegistrarResposta
  <2>1. execucao'.status = execucao.status /\ execucao'.espera = execucao.espera
    BY <1>0, <1>4 DEF RenovarPrazo, VencerPrazo, RegistrarResposta, Execucao
  <2> QED
    BY <1>0, <1>3, <1>4, <2>1
    DEF RenovarPrazo, VencerPrazo, RegistrarResposta, Segue, NaEtapa, Trabalho
<1>5. CASE LerExecucao \/ Queda \/ Religar \/ PerderFila \/ LerPendentes \/ ReenfileirarPendentes
  BY <1>3, <1>5
  DEF LerExecucao, Queda, Religar, PerderFila, LerPendentes, ReenfileirarPendentes, NaEtapa
<1>6. ASSUME NEW j \in Jobs, Enfileirar(j) PROVE DaAberta'
  BY <1>3, <1>6 DEF Enfileirar, NaEtapa
<1>9. ASSUME NEW j \in Jobs, Pegar(j) PROVE DaAberta'
  <2>1. trabalho'.etapa = "passo" /\ trabalho'.mensagem = FALSE
    BY <1>9 DEF Pegar
  <2> QED
    BY <1>3, <1>9, <2>1 DEF Pegar, NaEtapa
<1>7. CASE RetomarConclusao \/ IgnorarJob \/ Devolver \/ Finalmente \/ LancaErro
  BY <1>0, <1>3, <1>7
  DEF RetomarConclusao, IgnorarJob, Devolver, Finalmente, LancaErro, Lanca, SoConcluir, Sair,
      NaEtapa, Trabalho
<1>8. CASE Enviar \/ Mandar \/ EnvioFalhar
  <2>1. /\ trabalho \in Trabalho /\ trabalho'.etapa \in {"mandar", "depois", "finalmente"}
        /\ UNCHANGED <<execucao, detida>>
    BY <1>0, <1>8 DEF Enviar, Mandar, EnvioFalhar, Segue, NaEtapa, Trabalho
  <2> QED
    BY <1>3, <2>1 DEF NaEtapa
<1>10. CASE EntregarOuEncerrar \/ NadaDepois \/ DepoisFalhar
  <2>1. trabalho \in Trabalho /\ trabalho'.etapa = "finalmente" /\ execucao' = execucao
    BY <1>0, <1>10 DEF EntregarOuEncerrar, NadaDepois, DepoisFalhar, Segue, NaEtapa, Trabalho
  <2>2. detida' => detida
    BY <1>10 DEF EntregarOuEncerrar, NadaDepois, DepoisFalhar
  <2> QED
    BY <1>3, <2>1, <2>2 DEF NaEtapa
<1> QED
  BY <1>1, <1>2, <1>4, <1>5, <1>6, <1>7, <1>8, <1>9, <1>10 DEF Next, Worker, Passo, AposOCommit

LEMMA InicioDoMotor == Init => IMotor
<1> SUFFICES ASSUME Init PROVE IMotor
  OBVIOUS
<1>1. TypeOK
  BY TipoInicialMotor
<1>2. Coerente /\ SaiDaEsperaComMotivo
  BY DEF Init, Coerente, SaiDaEsperaComMotivo, Esperas
<1>3. JobsComResposta
  BY DEF Init, JobsComResposta, Retoma, JobsNaFila, Inicio
<1>4. AEnviar /\ NaoRepeteEnvio
  BY DEF Init, AEnviar, NaoRepeteEnvio, PorMandar, NaEtapa, Esperas
<1>5. DaAberta
  BY DEF Init, DaAberta, NaEtapa
<1> QED
  BY <1>1, <1>2, <1>3, <1>4, <1>5 DEF IMotor

LEMMA MotorIndutivo ==
  ASSUME IMotor, [Next]_vars
  PROVE  IMotor'
<1>1. CASE Next
  <2>1. TypeOK'
    BY <1>1, TipoNosPassos DEF IMotor
  <2> QED
    BY <1>1, <2>1, CoerenteNosPassos, JobsNosPassos, MotivoNosPassos, EnvioNosPassos,
       AbertaNosPassos
    DEF IMotor
<1>2. CASE UNCHANGED vars
  <2> USE <1>2 DEF vars, historia
  <2>1. TypeOK' /\ Coerente'
    BY DEF IMotor, TypeOK, Coerente
  <2>2. JobsComResposta'
    BY DEF IMotor, JobsComResposta, Retoma, JobsNaFila
  <2>3. AEnviar' /\ SaiDaEsperaComMotivo' /\ NaoRepeteEnvio'
    BY DEF IMotor, AEnviar, PorMandar, NaEtapa, SaiDaEsperaComMotivo, NaoRepeteEnvio
  <2>4. DaAberta'
    BY DEF IMotor, DaAberta, NaEtapa
  <2> QED
    BY <2>1, <2>2, <2>3, <2>4 DEF IMotor
<1> QED
  BY <1>1, <1>2

LEMMA IMotorSempre == Spec => []IMotor
BY InicioDoMotor, MotorIndutivo, PTL DEF Spec

--------------------------------------------------------------------------------
(* The properties *)

\* The variables of the execution keep their types, whatever the bounds on
\* questions, failures, crashes and losses.
THEOREM TipoDoMotor == Spec => []TypeOK
<1>1. IMotor => TypeOK
  BY DEF IMotor
<1> QED
  BY <1>1, IMotorSempre, PTL

\* A flow leaves a question by the reply branch only with a registered reply and by
\* the no-reply branch only without one, in whatever order jobs, replies and
\* deadlines arrive and however often they are repeated.
THEOREM MotivoSempre == Spec => []SaiDaEsperaComMotivo
<1>1. IMotor => SaiDaEsperaComMotivo
  BY DEF IMotor
<1> QED
  BY <1>1, IMotorSempre, PTL

\* No message of a flow goes out twice: neither a retry, nor a stalled job, nor a job
\* enqueued again repeats a sending.
THEOREM NuncaRepeteEnvio == Spec => []NaoRepeteEnvio
<1>1. IMotor => NaoRepeteEnvio
  BY DEF IMotor
<1> QED
  BY <1>1, IMotorSempre, PTL

\* What has ended is not revived nor ended in another way: a reply, a renewal of the
\* deadline, a take-over or a late job leaves a terminal status as it is.
THEOREM TerminalSempre == Spec => TerminalEhPermanente
<1>1. ASSUME IMotor, [Next]_vars
      PROVE  [execucao.status \in Terminais => execucao'.status = execucao.status]_vars
  <2> SUFFICES ASSUME Next, execucao.status \in Terminais
               PROVE  execucao'.status = execucao.status
    BY <1>1
  <2>1. execucao \in Execucao /\ execucao.status \notin Vivas
    BY <1>1 DEF IMotor, TypeOK, Vivas, Terminais
  <2>2. CASE Alheios \/ LerExecucao \/ Queda
    BY <2>2, AlheiosNaoEscrevem DEF LerExecucao, Queda
  <2>3. CASE AbortarPasso \/ ExecutarPasso
    BY <2>1, <2>3 DEF AbortarPasso, ExecutarPasso, Pendente
  <2>4. CASE RenovarPrazo \/ VencerPrazo
    BY <2>1, <2>4 DEF RenovarPrazo, VencerPrazo, Vivas
  <2>5. CASE RegistrarResposta
    BY <2>1, <2>5 DEF RegistrarResposta, Execucao
  <2>6. CASE Interromper
    BY <2>1, <2>6, AbortadaTermina DEF Interromper
  <2> QED
    BY <2>2, <2>3, <2>4, <2>5, <2>6, PassosDoMotor
<1> QED
  BY <1>1, IMotorSempre, PTL DEF Spec, TerminalEhPermanente

--------------------------------------------------------------------------------
(* The dialogue *)

LEMMA InicioDoDialogo == Init => Conversa!Init
BY DEF Init, Conversa!Init, SituacaoDaExecucao, MensagemSaindo, NaEtapa, Esperas, Vivas

\* A step the customer does not see; a message on its way may be lost at it.
LEMMA NaoSeVe ==
  ASSUME execucao'.status = execucao.status, execucao'.espera = execucao.espera,
         execucao'.resposta = execucao.resposta, caminho' = caminho, enviadas' = enviadas,
         NaEtapa("mandar")' => NaEtapa("mandar") /\ trabalho'.espera = trabalho.espera
  PROVE  Conversa!Perder \/ UNCHANGED Conversa!vars
<1>1. SituacaoDaExecucao' = SituacaoDaExecucao
  BY DEF SituacaoDaExecucao
<1>2. MensagemSaindo' \in {MensagemSaindo, {}}
  BY DEF MensagemSaindo
<1> QED
  BY <1>1, <1>2 DEF Conversa!Perder, Conversa!vars

\* The message on its way goes out.
LEMMA Sai ==
  ASSUME IMotor, NaEtapa("mandar"), Mandada, ~NaEtapa("mandar")',
         execucao' = execucao, caminho' = caminho
  PROVE  Conversa!Next
<1>1. trabalho \in Trabalho /\ trabalho.espera \in 0 .. MaxEsperas
  BY DEF IMotor, TypeOK, NaEtapa, Trabalho
<1>2. MensagemSaindo = {trabalho.espera} /\ MensagemSaindo' = {}
  BY DEF MensagemSaindo
<1>3. Conversa!Mandar(trabalho.espera)
  BY <1>2 DEF Conversa!Mandar, Mandada, SituacaoDaExecucao
<1> QED
  BY <1>1, <1>3 DEF Conversa!Next

\* The worker's step is the next question or the end, and leaves the open question by
\* the branch its reply, or the lack of one, chose.
LEMMA PassoSegueODialogo ==
  ASSUME IMotor, ExecutarPasso
  PROVE  Conversa!Next
<1>0. /\ trabalho \in Trabalho /\ trabalho.job \in Jobs /\ execucao \in Execucao
      /\ Vale(trabalho.job, execucao) /\ execucao.status \in Vivas
  BY DEF IMotor, TypeOK, ExecutarPasso, NaEtapa, Trabalho, Pendente
<1>1. Conversa!Deixa
  <2>1. CASE execucao.status = "running"
    <3>1. execucao.espera = 0 /\ caminho' = caminho
      BY <2>1 DEF ExecutarPasso, IMotor, DaAberta
    <3> QED
      BY <3>1 DEF Conversa!Deixa
  <2>2. CASE execucao.status = "suspended"
    <3>1. execucao.espera \in Esperas /\ execucao.espera # 0
          /\ (execucao.resposta <=> respostas[execucao.espera] = "registrada")
      BY <2>2 DEF IMotor, Coerente, Esperas
    <3>2. /\ trabalho.job.tipo \in {"resume", "timeout"}
          /\ trabalho.job.token = execucao.espera
          /\ trabalho.job.tipo = "timeout" => ~execucao.resposta
      BY <1>0, <2>2 DEF Vale, Jobs
    <3>3. trabalho.job.tipo = "resume" => execucao.resposta
      BY <3>1, <3>2 DEF ExecutarPasso, NaEtapa, IMotor, JobsComResposta, Retoma
    <3>4. trabalho.job.tipo = IF execucao.resposta THEN "resume" ELSE "timeout"
      BY <3>2, <3>3
    <3>5. caminho' = [caminho EXCEPT ![execucao.espera] = trabalho.job.tipo]
      BY <2>2 DEF ExecutarPasso
    <3> QED
      BY <3>1, <3>4, <3>5 DEF Conversa!Deixa
  <2> QED
    BY <1>0, <2>1, <2>2 DEF Vivas
<1>2. /\ SituacaoDaExecucao = "emCurso"
      /\ MensagemSaindo = {} /\ MensagemSaindo' = {} /\ enviadas' = enviadas
  <2>1. trabalho'.etapa = "enviar"
    BY <1>0 DEF ExecutarPasso, Trabalho
  <2> QED
    BY <1>0, <2>1 DEF SituacaoDaExecucao, MensagemSaindo, NaEtapa, ExecutarPasso
<1>3. CASE execucao.espera < MaxEsperas /\ \E prazo : execucao' = Suspende(execucao, prazo)
  <2>1. /\ execucao'.espera = execucao.espera + 1 /\ execucao'.resposta = FALSE
        /\ SituacaoDaExecucao' = "emCurso"
    BY <1>3 DEF Suspende, SituacaoDaExecucao, Vivas
  <2>2. Conversa!Perguntar
    BY <1>1, <1>2, <1>3, <2>1 DEF Conversa!Perguntar
  <2> QED
    BY <2>2 DEF Conversa!Next
<1>4. ASSUME NEW st \in {"completed", "failed"}, execucao' = Termina(execucao, st)
      PROVE  Conversa!Next
  <2>1. /\ execucao'.espera = execucao.espera /\ execucao'.resposta = FALSE
        /\ execucao'.status = st
    BY <1>0, <1>4 DEF Termina, Execucao
  <2>2. SituacaoDaExecucao' = st
    BY <2>1 DEF SituacaoDaExecucao, Vivas
  <2>3. Conversa!Acabar
    BY <1>1, <1>2, <2>1, <2>2 DEF Conversa!Acabar
  <2> QED
    BY <2>3 DEF Conversa!Next
<1> QED
  BY <1>3, <1>4 DEF ExecutarPasso

\* A message is prepared only about the open question, or at the end, and once.
LEMMA EnviarSegueODialogo ==
  ASSUME IMotor, Enviar
  PROVE  Conversa!Next \/ UNCHANGED Conversa!vars
<1>0. trabalho \in Trabalho /\ execucao \in Execucao
  BY DEF IMotor, TypeOK, Enviar, NaEtapa
<1>1. CASE ~PodeMandar
  <2>1. trabalho'.etapa = "depois"
    BY <1>0, <1>1 DEF Enviar, Segue, Trabalho
  <2> QED
    BY <1>1, <2>1, NaoSeVe DEF Enviar, historia, NaEtapa, Conversa!Next
<1>2. CASE PodeMandar /\ trabalho' # Nada
  <2>1. trabalho' # Nada /\ trabalho'.etapa = "mandar" /\ trabalho'.espera = trabalho.espera
    BY <1>0, <1>2 DEF Enviar, Segue, Trabalho
  <2>2. MensagemSaindo = {} /\ MensagemSaindo' = {trabalho.espera}
    BY <2>1 DEF MensagemSaindo, NaEtapa, Enviar
  <2>3. /\ trabalho.espera \in 0 .. MaxEsperas /\ trabalho.espera \in {0, execucao.espera}
        /\ enviadas[trabalho.espera] = 0
    BY <1>0 DEF IMotor, AEnviar, PorMandar, Enviar, Trabalho
  <2>4. execucao.status = IF trabalho.espera = 0 THEN "completed" ELSE "suspended"
    BY <1>2 DEF IMotor, DaAberta, Enviar, PodeMandar, Permitida
  <2>5. /\ trabalho.espera # 0 => SituacaoDaExecucao = "emCurso"
        /\ trabalho.espera = 0 => SituacaoDaExecucao = "completed"
    BY <2>4 DEF SituacaoDaExecucao, Vivas
  <2>6. UNCHANGED <<SituacaoDaExecucao, execucao.espera, execucao.resposta, caminho, enviadas>>
    BY DEF Enviar, historia, SituacaoDaExecucao
  <2>7. Conversa!Preparar(trabalho.espera)
    BY <2>2, <2>3, <2>5, <2>6 DEF Conversa!Preparar
  <2> QED
    BY <2>3, <2>7 DEF Conversa!Next
<1>3. CASE trabalho' = Nada
  BY <1>3, NaoSeVe DEF Enviar, historia, NaEtapa, Conversa!Next
<1> QED
  BY <1>1, <1>2, <1>3

\* An attendant, a switch or a step that finds the chat taken ends what is under way, once.
LEMMA InterrupcaoSegueODialogo ==
  ASSUME IMotor, AbortarPasso \/ Interromper
  PROVE  Conversa!Next \/ UNCHANGED Conversa!vars
<1>0. /\ execucao \in Execucao /\ execucao' = Abortada(execucao)
      /\ caminho' = caminho /\ enviadas' = enviadas
  BY DEF IMotor, TypeOK, AbortarPasso, Interromper, historia
<1>1. MensagemSaindo' = MensagemSaindo
      /\ (NaEtapa("mandar")' => NaEtapa("mandar") /\ trabalho'.espera = trabalho.espera)
  <2>1. CASE Interromper
    BY <2>1 DEF Interromper, MensagemSaindo, NaEtapa
  <2>2. CASE AbortarPasso
    <3>1. trabalho.etapa = "passo" /\ trabalho'.etapa = "devolver"
      BY <2>2 DEF IMotor, TypeOK, AbortarPasso, Segue, NaEtapa, Trabalho
    <3> QED
      BY <3>1 DEF MensagemSaindo, NaEtapa
  <2> QED
    BY <2>1, <2>2
<1>2. CASE execucao.status \in Vivas
  <2>1. /\ execucao'.status = "aborted" /\ execucao'.espera = execucao.espera
        /\ execucao'.resposta = FALSE
    BY <1>0, <1>2 DEF Abortada, Execucao
  <2>2. SituacaoDaExecucao = "emCurso" /\ SituacaoDaExecucao' = "aborted"
    BY <1>2, <2>1 DEF SituacaoDaExecucao, Vivas
  <2>3. Conversa!Interromper
    BY <1>0, <1>1, <2>1, <2>2 DEF Conversa!Interromper
  <2> QED
    BY <2>3 DEF Conversa!Next
<1>3. CASE execucao.status \notin Vivas
  <2>1. execucao' = execucao
    BY <1>0, <1>3 DEF Abortada
  <2> QED
    BY <1>0, <1>1, <2>1, NaoSeVe DEF Conversa!Next
<1> QED
  BY <1>2, <1>3

\* A reply is taken once, while its question is open; one that lost its row is not.
LEMMA RespostaSegueODialogo ==
  ASSUME IMotor, RegistrarResposta
  PROVE  Conversa!Next \/ UNCHANGED Conversa!vars
<1>0. /\ execucao \in Execucao /\ execucao.status = "suspended" /\ ~execucao.resposta
      /\ execucao.espera # 0
  BY DEF IMotor, TypeOK, Coerente, RegistrarResposta, Esperas
<1>1. UNCHANGED <<trabalho, caminho, enviadas>>
  BY DEF RegistrarResposta
<1>2. MensagemSaindo' = MensagemSaindo
  BY <1>1 DEF MensagemSaindo, NaEtapa
<1>3. CASE execucao.versao = webhook
  <2>1. /\ execucao'.status = execucao.status /\ execucao'.espera = execucao.espera
        /\ execucao'.resposta = TRUE
    BY <1>0, <1>3 DEF RegistrarResposta, Execucao
  <2>2. SituacaoDaExecucao = "emCurso" /\ SituacaoDaExecucao' = "emCurso"
    BY <1>0, <2>1 DEF SituacaoDaExecucao, Vivas
  <2>3. Conversa!Responder
    BY <1>0, <1>1, <1>2, <2>1, <2>2 DEF Conversa!Responder
  <2> QED
    BY <2>3 DEF Conversa!Next
<1>4. CASE execucao.versao # webhook
  <2>1. execucao' = execucao
    BY <1>4 DEF RegistrarResposta
  <2> QED
    BY <1>1, <2>1, NaoSeVe DEF NaEtapa, Conversa!Next
<1> QED
  BY <1>3, <1>4

\* Every step is one of the dialogue, or the customer does not see it.
LEMMA PassoDoDialogo ==
  ASSUME IMotor, [Next]_vars
  PROVE  [Conversa!Next]_Conversa!vars
<1> USE DEF historia
<1>0. /\ trabalho # Nada => trabalho \in Trabalho
      /\ execucao \in Execucao
  BY DEF IMotor, TypeOK
<1>n. ASSUME execucao'.status = execucao.status, execucao'.espera = execucao.espera,
             execucao'.resposta = execucao.resposta, caminho' = caminho, enviadas' = enviadas,
             NaEtapa("mandar")' => NaEtapa("mandar") /\ trabalho'.espera = trabalho.espera
      PROVE  [Conversa!Next]_Conversa!vars
  BY <1>n, NaoSeVe DEF Conversa!Next
<1>1. CASE UNCHANGED vars
  BY <1>1, <1>n DEF vars, NaEtapa
<1>2. CASE ExecutarPasso
  BY <1>2, PassoSegueODialogo
<1>3. CASE Enviar
  BY <1>3, EnviarSegueODialogo
<1>4. CASE Mandar
  <2>1. ~NaEtapa("mandar")'
    BY <1>0, <1>4 DEF Mandar, Segue, NaEtapa, Trabalho
  <2> QED
    BY <1>4, <2>1, Sai DEF Mandar
<1>5. CASE EnvioFalhar
  <2>5. trabalho \in Trabalho
    BY <1>0, <1>5 DEF EnvioFalhar, NaEtapa
  <2>6. trabalho'.etapa \in {"depois", "finalmente"}
    BY <1>5, <2>5 DEF EnvioFalhar, Trabalho
  <2>1. ~NaEtapa("mandar")'
    BY <2>6 DEF NaEtapa
  <2>2. UNCHANGED <<execucao, caminho>>
    BY <1>5 DEF EnvioFalhar
  <2>3. CASE enviadas' = enviadas
    BY <1>n, <2>1, <2>2, <2>3
  <2>4. CASE NaEtapa("mandar") /\ Mandada
    BY <2>1, <2>2, <2>4, Sai
  <2> QED
    BY <1>5, <2>3, <2>4 DEF EnvioFalhar
<1>6. CASE RegistrarResposta
  BY <1>6, RespostaSegueODialogo
<1>7. CASE AbortarPasso \/ Interromper
  BY <1>7, InterrupcaoSegueODialogo
<1>8. CASE RenovarPrazo
  <2>1. /\ execucao'.status = execucao.status /\ execucao'.espera = execucao.espera
        /\ execucao'.resposta = execucao.resposta
    BY <1>0, <1>8 DEF RenovarPrazo, Execucao
  <2>2. trabalho'.etapa = "finalmente"
    BY <1>0, <1>8 DEF RenovarPrazo, Segue, NaEtapa, Trabalho
  <2> QED
    BY <1>8, <1>n, <2>1, <2>2 DEF RenovarPrazo, NaEtapa
<1>9. CASE VencerPrazo
  <2>1. /\ execucao'.status = execucao.status /\ execucao'.espera = execucao.espera
        /\ execucao'.resposta = execucao.resposta
    BY <1>0, <1>9 DEF VencerPrazo, Execucao
  <2> QED
    BY <1>9, <1>n, <2>1 DEF VencerPrazo, NaEtapa
<1>10. CASE LerExecucao \/ Religar \/ PerderFila \/ LerPendentes \/ ReenfileirarPendentes \/ Queda
  BY <1>10, <1>n
  DEF LerExecucao, Religar, PerderFila, LerPendentes, ReenfileirarPendentes, Queda, NaEtapa
<1>11. ASSUME NEW j \in Jobs, Enfileirar(j) PROVE [Conversa!Next]_Conversa!vars
  BY <1>11, <1>n DEF Enfileirar, NaEtapa
<1>12. ASSUME NEW j \in Jobs, Pegar(j) PROVE [Conversa!Next]_Conversa!vars
  <2>1. trabalho'.etapa = "passo"
    BY <1>12 DEF Pegar
  <2> QED
    BY <1>12, <1>n, <2>1 DEF Pegar, NaEtapa
<1>13. CASE IgnorarJob \/ Devolver \/ Finalmente \/ LancaErro
  <2>1. trabalho' = Nada /\ UNCHANGED <<execucao, caminho, enviadas>>
    BY <1>13 DEF IgnorarJob, Devolver, Finalmente, LancaErro, Lanca, Sair
  <2> QED
    BY <1>n, <2>1 DEF NaEtapa
<1>14. CASE RetomarConclusao \/ EntregarOuEncerrar \/ NadaDepois \/ DepoisFalhar
  <2>1. trabalho'.etapa = "finalmente" /\ UNCHANGED <<execucao, caminho, enviadas>>
    BY <1>0, <1>14
    DEF RetomarConclusao, SoConcluir, EntregarOuEncerrar, NadaDepois, DepoisFalhar, Segue, NaEtapa,
        Trabalho
  <2> QED
    BY <1>n, <2>1 DEF NaEtapa
<1> QED
  BY <1>1, <1>2, <1>3, <1>4, <1>5, <1>6, <1>7, <1>8, <1>9, <1>10, <1>11, <1>12, <1>13, <1>14
  DEF Next, Worker, Passo, AposOCommit

\* What the customer of a flow sees is a run of the dialogue, for any number of questions
\* and whatever fails, crashes or is lost in queue and worker: questions in order, each
\* left for its reason, each message once and about the open question, the end for good,
\* and after an interruption at most the message that was on its way.
THEOREM ImplementaODialogo == Spec => SegueODialogo
BY InicioDoDialogo, PassoDoDialogo, IMotorSempre, PTL DEF Spec, SegueODialogo, Conversa!Spec

--------------------------------------------------------------------------------
(* The contract with who else writes the chat *)

\* What step has in memory is true of the row until the chat is taken: it owes the letting
\* go of a chat only if the execution has ended, and if it owes nothing, an execution that
\* ended meanwhile has cost the bot the chat.
Devedor ==
  /\ NaEtapa("passo") => ~trabalho.terminal
  /\ trabalho # Nada =>
       /\ trabalho.terminal \/ trabalho.etapa = "devolver" => execucao.status \in Terminais
       /\ trabalho.acao \in {"encaminhar", "encerrar"} => trabalho.terminal
       /\ /\ trabalho.etapa \notin {"passo", "devolver"} /\ ~trabalho.terminal
          /\ execucao.status \in Terminais
          => ~detida

\* What an ended execution and a committed step leave as they are.
LEMMA FimFica ==
  ASSUME IMotor, Next, execucao.status \in Terminais
  PROVE  execucao'.status = execucao.status
<1>1. execucao \in Execucao /\ execucao.status \notin Vivas
  BY DEF IMotor, TypeOK, Vivas, Terminais
<1>2. CASE Alheios \/ LerExecucao \/ Queda
  BY <1>2, AlheiosNaoEscrevem DEF LerExecucao, Queda
<1>3. CASE AbortarPasso \/ ExecutarPasso
  BY <1>1, <1>3 DEF AbortarPasso, ExecutarPasso, Pendente
<1>4. CASE RenovarPrazo \/ VencerPrazo
  BY <1>1, <1>4 DEF RenovarPrazo, VencerPrazo, Vivas
<1>5. CASE RegistrarResposta
  BY <1>1, <1>5 DEF RegistrarResposta, Execucao
<1>6. CASE Interromper
  BY <1>1, <1>6, AbortadaTermina DEF Interromper
<1> QED
  BY <1>2, <1>3, <1>4, <1>5, <1>6, PassosDoMotor

LEMMA DevedorNosPassos ==
  ASSUME IMotor, Devedor, Next
  PROVE  Devedor'
<1> USE DEF historia
<1>0. /\ trabalho # Nada => trabalho \in Trabalho
      /\ execucao \in Execucao
  BY DEF IMotor, TypeOK
\* The worker idle, or beginning a job.
<1>1. CASE trabalho' = Nada
  BY <1>1 DEF Devedor, NaEtapa
<1>2. ASSUME NEW j \in Jobs, Pegar(j) PROVE Devedor'
  <2>1. /\ trabalho'.etapa = "passo" /\ trabalho'.terminal = FALSE /\ trabalho'.acao = "nada"
    BY <1>2 DEF Pegar
  <2> QED
    BY <2>1 DEF Devedor, NaEtapa
\* The same job, its execution ended only with the chat lost, and no more in hand.
<1>3. ASSUME trabalho' # Nada, trabalho # Nada,
             trabalho'.etapa = trabalho.etapa \/ trabalho'.etapa \in {"mandar", "depois", "finalmente"},
             trabalho.etapa \in {"passo", "devolver"} => trabalho' = trabalho,
             trabalho'.terminal = trabalho.terminal, trabalho'.acao = trabalho.acao,
             detida' => detida,
             execucao'.status \in Terminais /\ execucao.status \notin Terminais => ~detida'
      PROVE  Devedor'
  <2>1. execucao.status \in Terminais => execucao'.status \in Terminais
    BY FimFica
  <2> QED
    BY <1>3, <2>1 DEF Devedor, NaEtapa
<1>4. CASE ExecutarPasso
  <2>0. trabalho \in Trabalho /\ ~trabalho.terminal
    BY <1>0, <1>4 DEF ExecutarPasso, NaEtapa, Devedor
  <2>1. trabalho.acao \in Acoes /\ trabalho'.etapa = "enviar"
    BY <2>0, <1>4 DEF ExecutarPasso, Trabalho
  <2>2. \/ /\ \E prazo \in {"sem", "correndo"} : execucao' = Suspende(execucao, prazo)
           /\ trabalho'.terminal = FALSE /\ trabalho'.acao \in {"nada", "renovar"}
        \/ /\ \E st \in {"completed", "failed"} : execucao' = Termina(execucao, st)
           /\ trabalho'.terminal = TRUE
    BY <1>4, <2>0 DEF ExecutarPasso, Trabalho
  <2>3. /\ \A prazo : Suspende(execucao, prazo).status = "suspended"
        /\ \A st \in {"completed", "failed"} : Termina(execucao, st).status = st
    BY <1>0 DEF Suspende, Termina, Execucao
  <2> QED
    BY <2>1, <2>2, <2>3 DEF Devedor, NaEtapa, Terminais
<1>5. CASE AbortarPasso
  <2>1. /\ trabalho \in Trabalho /\ ~trabalho.terminal
        /\ trabalho'.etapa = "devolver" /\ trabalho'.terminal = FALSE
        /\ trabalho'.acao = trabalho.acao
    BY <1>0, <1>5 DEF AbortarPasso, Segue, NaEtapa, Devedor, Trabalho
  <2>2. execucao'.status \in Terminais
    BY <1>0, <1>5, AbortadaTermina DEF AbortarPasso
  <2> QED
    BY <1>5, <2>1, <2>2 DEF Devedor, NaEtapa, AbortarPasso
<1>6. CASE RetomarConclusao
  <2>1. /\ trabalho \in Trabalho /\ execucao.status \in Terminais /\ execucao' = execucao
        /\ trabalho'.etapa = "finalmente" /\ trabalho'.terminal = TRUE
    BY <1>0, <1>6 DEF RetomarConclusao, ConclusaoPendente, SoConcluir, NaEtapa, Trabalho
  <2> QED
    BY <2>1 DEF Devedor, NaEtapa
<1>7. CASE IgnorarJob \/ Devolver \/ Finalmente \/ LancaErro \/ Queda
  BY <1>1, <1>7 DEF IgnorarJob, Devolver, Finalmente, LancaErro, Lanca, Sair, Queda
<1>8. CASE Interromper
  <2>1. ~detida' /\ trabalho' = trabalho
    BY <1>8 DEF Interromper
  <2> QED
    BY <1>1, <1>3, <2>1
<1>9. CASE Enviar \/ Mandar \/ EnvioFalhar \/ NadaDepois \/ DepoisFalhar \/ EntregarOuEncerrar
  <2>1. /\ trabalho # Nada
        /\ trabalho.etapa \in {"enviar", "mandar", "depois"}
        /\ execucao' = execucao
    BY <1>9
    DEF Enviar, Mandar, EnvioFalhar, NadaDepois, DepoisFalhar, EntregarOuEncerrar, NaEtapa
  <2>2. trabalho \in Trabalho
    BY <1>0, <2>1
  <2>3. detida' => detida
    <3>1. CASE EntregarOuEncerrar
      BY <3>1 DEF EntregarOuEncerrar
    <3> QED
      BY <1>9, <3>1 DEF Enviar, Mandar, EnvioFalhar, NadaDepois, DepoisFalhar
  <2>4. /\ trabalho'.etapa \in {"mandar", "depois", "finalmente"}
        /\ trabalho'.terminal = trabalho.terminal /\ trabalho'.acao = trabalho.acao
    BY <1>9, <2>2
    DEF Enviar, Mandar, EnvioFalhar, NadaDepois, DepoisFalhar, EntregarOuEncerrar, Segue, Trabalho
  <2>5. CASE trabalho' # Nada
    BY <1>3, <2>1, <2>3, <2>4, <2>5 DEF Terminais
  <2> QED
    BY <1>1, <2>5
<1>10. CASE RenovarPrazo
  <2>1. trabalho \in Trabalho /\ trabalho.etapa = "depois" /\ trabalho # Nada
    BY <1>0, <1>10 DEF RenovarPrazo, NaEtapa
  <2>2. /\ execucao'.status = execucao.status /\ detida' = detida
        /\ trabalho'.etapa = "finalmente"
        /\ trabalho'.terminal = trabalho.terminal /\ trabalho'.acao = trabalho.acao
    BY <1>0, <1>10, <2>1 DEF RenovarPrazo, Segue, Execucao, Trabalho
  <2> QED
    BY <1>1, <1>3, <2>1, <2>2
<1>11. CASE VencerPrazo \/ RegistrarResposta
  <2>1. execucao'.status = execucao.status /\ UNCHANGED <<trabalho, detida>>
    BY <1>0, <1>11 DEF VencerPrazo, RegistrarResposta, Execucao
  <2> QED
    BY <1>1, <1>3, <2>1
<1>12. CASE LerExecucao \/ Religar \/ PerderFila \/ LerPendentes \/ ReenfileirarPendentes
  <2>1. UNCHANGED <<execucao, trabalho, detida>>
    BY <1>12 DEF LerExecucao, Religar, PerderFila, LerPendentes, ReenfileirarPendentes
  <2> QED
    BY <2>1 DEF Devedor, NaEtapa
<1>13. ASSUME NEW j \in Jobs, Enfileirar(j) PROVE Devedor'
  BY <1>13 DEF Enfileirar, Devedor, NaEtapa
<1> QED
  BY <1>2, <1>4, <1>5, <1>6, <1>7, <1>8, <1>9, <1>10, <1>11, <1>12, <1>13
  DEF Next, Worker, Passo, AposOCommit

LEMMA DevedorSempre == Spec => []Devedor
<1>1. Init => Devedor
  BY DEF Init, Devedor, NaEtapa
<1>2. IMotor /\ Devedor /\ [Next]_vars => Devedor'
  <2>1. UNCHANGED vars /\ Devedor => Devedor'
    BY DEF vars, Devedor, NaEtapa
  <2> QED
    BY <2>1, DevedorNosPassos
<1> QED
  BY <1>1, <1>2, IMotorSempre, PTL DEF Spec

\* One step of the execution, of who holds the chat and of who owes its letting go.
Conduzida ==
  \/ execucao'.status = execucao.status /\ (detida' <=> detida)
  \/ /\ execucao'.status = execucao.status /\ detida /\ ~detida'
     /\ execucao.status \notin Vivas \/ Devida = "ambas"
  \/ /\ execucao.status \in Vivas /\ detida /\ detida' /\ Devida = "nada"
     /\ \/ execucao'.status = "suspended"
        \/ execucao'.status \in {"completed", "failed"} /\ Devida' = Fase
  \/ /\ execucao.status \in Vivas /\ execucao'.status = "aborted"
     /\ detida' => detida /\ Devida = "nada" /\ Devida' = "ambas"

Deve ==
  \/ Devida' \in {Devida, "nada"}
  \/ /\ Devida = "nada" /\ Devida' \in {Fase, "ambas"} /\ execucao'.status \in Terminais

LEMMA PassoDoContrato ==
  ASSUME execucao' \in Execucao, Conduzida, Deve
  PROVE  Contrato!Next
<1>1. Contrato!Dever(Fase)
  BY DEF Deve, Contrato!Dever, Contrato!Fases, Contrato!Vivas, Contrato!Terminais, Terminais
<1>2. ASSUME NEW f \in Contrato!Fases, f # Fase PROVE Contrato!Ficar(Fase, f)
  BY <1>2 DEF Contrato!Ficar, Contrato!Fases
<1>3. \/ Contrato!Ficar(Fase, Fase) \/ Contrato!Soltar(Fase, Fase)
      \/ Contrato!Suspender(Fase, Fase) \/ Contrato!Acabar(Fase, Fase)
      \/ Contrato!Abortar(Fase, Fase)
  BY DEF Conduzida, Contrato!Ficar, Contrato!Soltar, Contrato!Suspender, Contrato!Acabar,
         Contrato!Abortar, Contrato!Vivas, Vivas
<1> QED
  BY <1>1, <1>2, <1>3 DEF Contrato!Next

LEMMA Alheio ==
  ASSUME execucao'.status = execucao.status, detida' = detida, Devida' \in {Devida, "nada"}
  PROVE  Conduzida /\ Deve
BY DEF Conduzida, Deve

LEMMA ConducaoNosPassos ==
  ASSUME IMotor, Devedor, Next
  PROVE  Conduzida /\ Deve
<1> USE DEF historia
<1>0. /\ trabalho # Nada => trabalho \in Trabalho
      /\ execucao \in Execucao
  BY DEF IMotor, TypeOK
\* What neither writes the execution nor touches the chat.
<1>1. ASSUME execucao'.status = execucao.status, detida' = detida,
             trabalho' = Nada \/ trabalho' = trabalho
      PROVE  Conduzida /\ Deve
  BY <1>1, Alheio DEF Devida, NaEtapa
<1>2. ASSUME NEW j \in Jobs, Pegar(j) PROVE Conduzida /\ Deve
  <2>1. trabalho'.etapa = "passo" /\ trabalho'.terminal = FALSE
    BY <1>2 DEF Pegar
  <2>2. Devida' = "nada"
    BY <2>1 DEF Devida, NaEtapa
  <2> QED
    BY <1>2, <2>2, Alheio DEF Pegar
<1>3. CASE ExecutarPasso
  <2>1. trabalho \in Trabalho /\ Devida = "nada" /\ trabalho # Nada
    BY <1>0, <1>3 DEF ExecutarPasso, NaEtapa, Devedor, Devida
  <2>2. detida /\ detida' = detida /\ execucao.status \in Vivas
    BY <1>3 DEF ExecutarPasso, Permitida, Pendente
  <2>3. trabalho'.etapa = "enviar"
    BY <1>3, <2>1 DEF ExecutarPasso, Trabalho
  <2>4. \/ /\ \E prazo \in {"sem", "correndo"} : execucao' = Suspende(execucao, prazo)
           /\ trabalho'.terminal = FALSE
        \/ /\ \E st \in {"completed", "failed"} : execucao' = Termina(execucao, st)
           /\ trabalho'.terminal = TRUE
    BY <1>3, <2>1 DEF ExecutarPasso, Trabalho, Devedor, NaEtapa
  <2>5. /\ \A prazo : Suspende(execucao, prazo).status = "suspended"
        /\ \A st \in {"completed", "failed"} : Termina(execucao, st).status = st
    BY <1>0 DEF Suspende, Termina, Execucao
  <2>6. CASE execucao'.status = "suspended" /\ trabalho'.terminal = FALSE
    <3>1. Devida' = "nada"
      BY <2>3, <2>6 DEF Devida, NaEtapa
    <3> QED
      BY <2>1, <2>2, <2>6, <3>1 DEF Conduzida, Deve
  <2>7. CASE execucao'.status \in {"completed", "failed"} /\ trabalho'.terminal = TRUE
    <3>1. Devida' \in {Fase, "nada"}
      BY <2>3, <2>7 DEF Devida, NaEtapa
    <3>2. trabalho' \in Trabalho
      BY <1>3, TrabalhoDoPasso DEF IMotor
    <3>3. Devida' = Fase
      BY <2>3, <2>7, <3>2, NadaEhNada DEF Devida, NaEtapa
    <3> QED
      BY <2>1, <2>2, <2>7, <3>3 DEF Conduzida, Deve, Terminais
  <2> QED
    BY <2>4, <2>5, <2>6, <2>7
<1>4. CASE AbortarPasso
  <2>1. trabalho \in Trabalho /\ Devida = "nada" /\ execucao.status \in Vivas
    BY <1>0, <1>4 DEF AbortarPasso, NaEtapa, Devedor, Devida, Pendente
  <2>2. execucao'.status = "aborted" /\ detida' = detida
    BY <1>0, <1>4, <2>1 DEF AbortarPasso, Abortada, Execucao
  <2>3. trabalho' = [trabalho EXCEPT !.etapa = "devolver"]
    BY <1>4 DEF AbortarPasso, Segue
  <2>4. trabalho' \in Trabalho /\ trabalho'.etapa = "devolver"
    BY <2>1, <2>3 DEF Trabalho, Etapas
  <2>5. Devida' = "ambas"
    BY <2>4, NadaEhNada DEF Devida, NaEtapa
  <2> QED
    BY <2>1, <2>2, <2>5 DEF Conduzida, Deve, Terminais
<1>5. CASE RetomarConclusao
  <2>1. trabalho \in Trabalho /\ Devida = "nada" /\ execucao.status \in Terminais
    BY <1>0, <1>5 DEF RetomarConclusao, ConclusaoPendente, NaEtapa, Devedor, Devida
  <2>2. trabalho'.etapa = "finalmente"
    BY <1>5, <2>1 DEF RetomarConclusao, SoConcluir, Trabalho
  <2>3. Devida' \in {Fase, "nada"}
    BY <2>2 DEF Devida, NaEtapa
  <2> QED
    BY <1>5, <2>1, <2>3 DEF RetomarConclusao, Conduzida, Deve
<1>6. CASE Devolver \/ Finalmente
  <2>1. trabalho' = Nada /\ execucao' = execucao /\ Devida' = "nada"
    BY <1>6 DEF Devolver, Finalmente, Sair, Devida, NaEtapa
  <2>2. detida' => detida
    BY <1>6 DEF Devolver, Finalmente
  <2>3. ASSUME detida, ~detida' PROVE execucao.status \notin Vivas
    BY <1>6, <2>3 DEF Devolver, Finalmente, Devedor, NaEtapa, Terminais, Vivas
  <2> QED
    BY <2>1, <2>2, <2>3 DEF Conduzida, Deve
\* After the commit the row stays, and a chat is only let go after the end.
<1>7. CASE Enviar \/ Mandar \/ EnvioFalhar \/ NadaDepois \/ DepoisFalhar \/ EntregarOuEncerrar \/ RenovarPrazo
  <2>1. /\ trabalho # Nada
        /\ trabalho.etapa \in {"enviar", "mandar", "depois"}
        /\ execucao'.status = execucao.status
    BY <1>0, <1>7
    DEF Enviar, Mandar, EnvioFalhar, NadaDepois, DepoisFalhar, EntregarOuEncerrar, RenovarPrazo,
        NaEtapa, Execucao
  <2>2. trabalho \in Trabalho
    BY <1>0, <2>1
  <2>3. /\ trabalho' \in Trabalho
        /\ trabalho'.etapa \in {"mandar", "depois", "finalmente"}
        /\ trabalho'.terminal = trabalho.terminal
    BY <1>7, <2>2
    DEF Enviar, Mandar, EnvioFalhar, NadaDepois, DepoisFalhar, EntregarOuEncerrar, RenovarPrazo,
        Segue, Trabalho, Etapas
  <2>4. Devida' = Devida
    BY <2>1, <2>3, NadaEhNada DEF Devida, NaEtapa
  <2>5. CASE EntregarOuEncerrar
    <3>1. execucao.status \notin Vivas /\ detida \in BOOLEAN /\ detida' \in BOOLEAN
      BY <2>1, <2>5 DEF EntregarOuEncerrar, Devedor, Terminais, Vivas, IMotor, TypeOK
    <3> QED
      BY <2>1, <2>4, <2>5, <3>1 DEF EntregarOuEncerrar, Conduzida, Deve
  <2> QED
    BY <1>7, <2>1, <2>4, <2>5, Alheio
    DEF Enviar, Mandar, EnvioFalhar, NadaDepois, DepoisFalhar, RenovarPrazo
<1>8. CASE Interromper
  <2>1. detida /\ ~detida' /\ Devida' = Devida
    BY <1>8 DEF Interromper, Devida, NaEtapa
  <2>2. execucao' = Abortada(execucao)
    BY <1>8 DEF Interromper
  <2>3. CASE execucao.status \in Vivas
    <3>1. execucao'.status = "aborted"
      BY <1>0, <2>2, <2>3 DEF Abortada, Execucao
    <3> QED
      BY <2>1, <2>3, <3>1 DEF Conduzida, Deve
  <2>4. CASE execucao.status \notin Vivas
    BY <2>1, <2>2, <2>4 DEF Abortada, Conduzida, Deve
  <2> QED
    BY <2>3, <2>4
<1>9. CASE VencerPrazo \/ RegistrarResposta
  BY <1>0, <1>1, <1>9 DEF VencerPrazo, RegistrarResposta, Execucao
<1>10. CASE LerExecucao \/ Religar \/ PerderFila \/ LerPendentes \/ ReenfileirarPendentes \/ Queda
  BY <1>1, <1>10
  DEF LerExecucao, Religar, PerderFila, LerPendentes, ReenfileirarPendentes, Queda
<1>11. ASSUME NEW j \in Jobs, Enfileirar(j) PROVE Conduzida /\ Deve
  BY <1>1, <1>11 DEF Enfileirar
<1>12. CASE IgnorarJob \/ LancaErro
  BY <1>1, <1>12 DEF IgnorarJob, LancaErro, Lanca, Sair
<1> QED
  BY <1>2, <1>3, <1>4, <1>5, <1>6, <1>7, <1>8, <1>9, <1>10, <1>11, <1>12
  DEF Next, Worker, Passo, AposOCommit

LEMMA InicioDoContrato == Init => Contrato!Init
<1> SUFFICES ASSUME Init PROVE Contrato!Init
  OBVIOUS
<1>1. Devida = "nada"
  BY DEF Init, Devida, NaEtapa
<1>2. execucao.status = "running" /\ detida = TRUE
  BY DEF Init
<1> DEFINE doMotor == [c \in {Fase} |-> [f \in {"entrada", "saida"} |->
                         IF f = Fase THEN execucao.status ELSE "inexistente"]]
           daFase == [c \in {Fase} |-> {f \in {"entrada", "saida"} : f = Fase /\ detida}]
<1>3. doMotor \in [{Fase} -> [{"entrada", "saida"} -> {"inexistente", "running"}]]
  BY <1>2
<1>4. daFase[Fase] = {f \in {"entrada", "saida"} : doMotor[Fase][f] = "running"}
  BY <1>2
<1> QED
  BY <1>1, <1>3, <1>4 DEF Contrato!Init, Contrato!Fases

\* Whatever queue, cron and crashes do, the worker and the transactions that take the chat
\* keep to the contract that Atendimento keeps from the side of the chats: the execution
\* goes on only while the chat is the bot's, taking the chat ends it in the same step, and
\* the worker lets go of the chat only once the execution has ended.
THEOREM ImplementaAConducao == Spec => SegueAConducao
<1>1. IMotor /\ IMotor' /\ Devedor /\ [Next]_vars => [Contrato!Next]_Contrato!vars
  <2>1. UNCHANGED vars => UNCHANGED Contrato!vars
    BY DEF vars, Contrato!vars, Devida, NaEtapa
  <2>2. IMotor' => execucao' \in Execucao
    BY DEF IMotor, TypeOK
  <2> QED
    BY <2>1, <2>2, ConducaoNosPassos, PassoDoContrato
<1> QED
  BY <1>1, InicioDoContrato, IMotorSempre, DevedorSempre, PTL
  DEF Spec, SegueAConducao, Contrato!Spec

--------------------------------------------------------------------------------
(* The chat of an exit flow that has ended *)

\* A job that was tried before: taken again, it finds the execution ended and concludes.
Repetido(x) == x # Nada /\ (x.tentativas > 0 \/ x.paradas > 0)

Solta(j) ==
  /\ fila[j] # Nada
  /\ \/ Repetido(fila[j])
     \/ trabalho # Nada /\ trabalho.job = j /\ (trabalho.terminal \/ trabalho.etapa = "devolver")

\* An ended exit flow leaves the chat with the bot only while a job in the queue is
\* bound to let go of it.
PosseTemQuemSolte ==
  Fase = "saida" /\ execucao.status \in Terminais /\ detida => \E j \in Jobs : Solta(j)

\* Attempts and stalls are counted against the failures and crashes there were, and the
\* job being processed is in the queue.
Contados ==
  /\ trabalho # Nada => fila[trabalho.job] # Nada
  /\ \A j \in Jobs : fila[j] # Nada =>
       /\ fila[j].paradas <= problemas.quedas
       /\ fila[j].tentativas <= problemas.falhas
       /\ trabalho # Nada /\ trabalho.job = j /\ trabalho.falhou =>
            fila[j].tentativas + 1 <= problemas.falhas

\* What the steps do to the queue and the job in hand, when Redis loses nothing.
FilaCresce ==
  /\ trabalho' = trabalho
  /\ \A j \in Jobs : \/ fila'[j] = fila[j]
                     \/ fila[j] = Nada /\ fila'[j] = [tentativas |-> 0, paradas |-> 0]
  /\ problemas'.quedas = problemas.quedas
  /\ problemas'.falhas \in {problemas.falhas, problemas.falhas + 1}

Continua ==
  /\ trabalho # Nada /\ trabalho' \in Trabalho /\ trabalho'.job = trabalho.job /\ fila' = fila
  /\ trabalho.etapa # "devolver" /\ (trabalho.terminal => trabalho'.terminal)
  /\ problemas'.quedas = problemas.quedas
  /\ \/ problemas' = problemas /\ trabalho'.falhou = trabalho.falhou
     \/ problemas'.falhas = problemas.falhas + 1

Larga ==
  /\ trabalho # Nada /\ trabalho' = Nada /\ problemas' = problemas
  /\ fila' = [fila EXCEPT ![trabalho.job] = Nada]
  /\ IgnorarJob \/ Devolver \/ Finalmente

Fracassa ==
  /\ trabalho # Nada /\ trabalho' = Nada
  /\ fila' = [fila EXCEPT ![trabalho.job] = Falhado(@)]
  /\ problemas'.quedas = problemas.quedas
  /\ \/ problemas' = problemas /\ trabalho.falhou
     \/ problemas'.falhas = problemas.falhas + 1

LEMMA FilaNosPassos ==
  ASSUME TypeOK, Next, MaxPerdas = 0
  PROVE  \/ FilaCresce \/ Continua \/ Larga \/ Fracassa \/ Queda
         \/ \E j \in Jobs : Pegar(j)
<1> USE DEF historia
<1>0. /\ trabalho # Nada => trabalho \in Trabalho
      /\ problemas \in [falhas : 0 .. MaxFalhas, quedas : 0 .. MaxQuedas, perdas : 0 .. MaxPerdas]
      /\ DOMAIN fila = Jobs
  BY DEF TypeOK
<1>f. Falha => problemas'.quedas = problemas.quedas /\ problemas'.falhas = problemas.falhas + 1
  BY <1>0 DEF Falha
<1>1. ASSUME NEW j \in Jobs, Enfileirar(j) PROVE FilaCresce
  BY <1>0, <1>1, <1>f DEF Enfileirar, ComJobs, FilaCresce
<1>2. ASSUME ReenfileirarPendentes PROVE FilaCresce
  BY <1>0, <1>2, <1>f DEF ReenfileirarPendentes, ComJobs, FilaCresce
<1>3. CASE \/ LerPendentes \/ LerExecucao \/ RegistrarResposta \/ VencerPrazo \/ Interromper
           \/ Religar
  <2>1. UNCHANGED <<trabalho, fila, problemas>>
    BY <1>3
    DEF LerPendentes, LerExecucao, RegistrarResposta, VencerPrazo, Interromper, Religar
  <2> QED
    BY <1>0, <2>1 DEF FilaCresce
<1>4. CASE PerderFila
  BY <1>0, <1>4 DEF PerderFila
<1>5. CASE RetomarConclusao \/ AbortarPasso
  <2>1. trabalho \in Trabalho /\ trabalho # Nada /\ trabalho.etapa = "passo"
    BY <1>0, <1>5 DEF RetomarConclusao, AbortarPasso, NaEtapa
  <2> QED
    BY <1>5, <2>1 DEF RetomarConclusao, SoConcluir, AbortarPasso, Segue, Continua, Trabalho, Etapas
<1>6. CASE ExecutarPasso
  <2>1. trabalho \in Trabalho /\ trabalho # Nada /\ trabalho.etapa = "passo"
    BY <1>0, <1>6 DEF ExecutarPasso, NaEtapa
  <2>2. /\ trabalho'.job = trabalho.job /\ trabalho'.falhou = trabalho.falhou
        /\ trabalho.terminal => trabalho'.terminal
    BY <1>6, <2>1 DEF ExecutarPasso, Trabalho
  <2> QED
    BY <1>6, <2>1, <2>2, TrabalhoDoPasso DEF ExecutarPasso, Continua
<1>7. CASE Enviar \/ Mandar \/ NadaDepois \/ EntregarOuEncerrar \/ RenovarPrazo
  <2>1. trabalho # Nada /\ trabalho.etapa # "devolver" /\ UNCHANGED <<fila, problemas>>
    BY <1>7 DEF Enviar, Mandar, NadaDepois, EntregarOuEncerrar, RenovarPrazo, NaEtapa, Segue
  <2>2. /\ trabalho'.job = trabalho.job /\ trabalho'.falhou = trabalho.falhou
        /\ trabalho'.terminal = trabalho.terminal /\ trabalho' \in Trabalho
    BY <1>0, <1>7, <2>1
    DEF Enviar, Mandar, NadaDepois, EntregarOuEncerrar, RenovarPrazo, Segue, Trabalho, Etapas
  <2> QED
    BY <2>1, <2>2 DEF Continua
<1>8. CASE EnvioFalhar \/ DepoisFalhar
  <2>1. trabalho # Nada /\ trabalho.etapa # "devolver" /\ fila' = fila /\ Falha
    BY <1>8 DEF EnvioFalhar, DepoisFalhar, NaEtapa
  <2>2. /\ trabalho'.job = trabalho.job /\ trabalho'.terminal = trabalho.terminal
        /\ trabalho' \in Trabalho
    BY <1>0, <1>8, <2>1 DEF EnvioFalhar, DepoisFalhar, Trabalho, Etapas
  <2> QED
    BY <1>f, <2>1, <2>2 DEF Continua
<1>9. CASE IgnorarJob \/ Devolver
  BY <1>9 DEF IgnorarJob, Devolver, NaEtapa, Sair, Larga
<1>10. CASE Finalmente
  BY <1>10 DEF Finalmente, NaEtapa, Sair, Larga, Fracassa
<1>11. CASE LancaErro
  BY <1>f, <1>11 DEF LancaErro, Lanca, NaEtapa, Sair, Fracassa
<1> QED
  BY <1>1, <1>2, <1>3, <1>4, <1>5, <1>6, <1>7, <1>8, <1>9, <1>10, <1>11
  DEF Next, Worker, Passo, AposOCommit

LEMMA ContadosNosPassos ==
  ASSUME TypeOK, Contados, Next, MaxPerdas = 0
  PROVE  Contados'
<1>0. /\ trabalho # Nada => trabalho.job \in Jobs
      /\ problemas \in [falhas : 0 .. MaxFalhas, quedas : 0 .. MaxQuedas, perdas : 0 .. MaxPerdas]
      /\ fila \in [Jobs -> NaFila \cup {Nada}]
  BY DEF TypeOK, Trabalho
<1>n. NaFila \subseteq [tentativas : Nat, paradas : Nat]
  BY DEF NaFila
<1>1. CASE FilaCresce
  <2>1. ASSUME NEW j \in Jobs, fila[j] = Nada, fila'[j] # Nada
        PROVE  fila'[j].tentativas = 0 /\ fila'[j].paradas = 0
    BY <1>1, <2>1 DEF FilaCresce
  <2>2. ASSUME NEW j \in Jobs, fila[j] # Nada PROVE fila'[j] = fila[j]
    BY <1>1, <2>2 DEF FilaCresce
  <2> QED
    BY <1>0, <1>1, <1>n, <2>1, <2>2 DEF FilaCresce, Contados
<1>2. CASE Continua
  BY <1>0, <1>2, <1>n DEF Continua, Contados
<1>3. CASE Larga
  BY <1>0, <1>3 DEF Larga, Contados
<1>4. CASE Fracassa
  <2>1. ASSUME NEW x \in NaFila, Falhado(x) # Nada
        PROVE  Falhado(x).tentativas = x.tentativas + 1 /\ Falhado(x).paradas = x.paradas
    BY <2>1 DEF Falhado, NaFila
  <2>2. \A j \in Jobs \ {trabalho.job} : fila'[j] = fila[j]
    BY <1>0, <1>4 DEF Fracassa
  <2>3. fila'[trabalho.job] = Falhado(fila[trabalho.job])
    BY <1>0, <1>4 DEF Fracassa
  <2>4. Falhado(Nada) = Nada
    BY DEF Falhado
  <2> QED
    BY <1>0, <1>4, <1>n, <2>1, <2>2, <2>3, <2>4 DEF Fracassa, Contados
<1>5. CASE Queda
  <2>1. ASSUME NEW x \in NaFila, Parado(x) # Nada
        PROVE  Parado(x).paradas = x.paradas + 1 /\ Parado(x).tentativas = x.tentativas
    BY <2>1 DEF Parado, NaFila
  <2>2. problemas'.quedas = problemas.quedas + 1 /\ problemas'.falhas = problemas.falhas
    BY <1>0, <1>5 DEF Queda
  <2>3. \A j \in Jobs : fila'[j] = fila[j] \/ fila'[j] = Parado(fila[j])
    BY <1>0, <1>5 DEF Queda
  <2>4. Parado(Nada) = Nada /\ trabalho' = Nada
    BY <1>5 DEF Parado, Queda
  <2> QED
    BY <1>0, <1>n, <2>1, <2>2, <2>3, <2>4 DEF Contados
<1>6. ASSUME NEW j \in Jobs, Pegar(j) PROVE Contados'
  <2>1. /\ trabalho'.job = j /\ trabalho'.falhou = FALSE /\ fila[j] # Nada
        /\ fila' = fila /\ problemas' = problemas
    BY <1>6 DEF Pegar
  <2> QED
    BY <2>1 DEF Contados
<1> QED
  BY <1>1, <1>2, <1>3, <1>4, <1>5, <1>6, FilaNosPassos

\* A chat is never put back into the bot's hands.
LEMMA DetidaSoCai ==
  ASSUME TypeOK, Next, detida'
  PROVE  detida
<1>1. CASE Devolver \/ Finalmente \/ EntregarOuEncerrar \/ Interromper
  BY <1>1 DEF Devolver, Finalmente, EntregarOuEncerrar, Interromper
<1>2. CASE \/ LerPendentes \/ ReenfileirarPendentes \/ RetomarConclusao \/ IgnorarJob \/ AbortarPasso
           \/ ExecutarPasso \/ Enviar \/ Mandar \/ EnvioFalhar \/ RenovarPrazo
  BY <1>2
  DEF LerPendentes, ReenfileirarPendentes, RetomarConclusao, IgnorarJob, AbortarPasso, ExecutarPasso,
      Enviar, Mandar, EnvioFalhar, RenovarPrazo
<1>3. CASE \/ NadaDepois \/ DepoisFalhar \/ LancaErro \/ LerExecucao \/ RegistrarResposta
           \/ VencerPrazo \/ Religar \/ Queda \/ PerderFila
  BY <1>3
  DEF NadaDepois, DepoisFalhar, LancaErro, Lanca, LerExecucao, RegistrarResposta, VencerPrazo,
      Religar, Queda, PerderFila
<1>4. ASSUME NEW j \in Jobs, Enfileirar(j) \/ Pegar(j) PROVE detida
  BY <1>4 DEF Enfileirar, Pegar
<1> QED
  BY <1>1, <1>2, <1>3, <1>4 DEF Next, Worker, Passo, AposOCommit

\* Who ends the execution and leaves the chat with the bot is the worker, whose job in
\* hand then lets go of it.
LEMMA FimComPosse ==
  ASSUME IMotor, Contados, Next, execucao.status \notin Terminais, execucao'.status \in Terminais,
         detida'
  PROVE  \E j \in Jobs : Solta(j)'
<1>0. execucao \in Execucao /\ (trabalho # Nada => trabalho \in Trabalho)
  BY DEF IMotor, TypeOK
<1>1. AbortarPasso \/ ExecutarPasso
  <2>1. CASE Alheios \/ LerExecucao \/ Queda
    BY <2>1, AlheiosNaoEscrevem DEF LerExecucao, Queda
  <2>2. CASE RenovarPrazo \/ VencerPrazo \/ RegistrarResposta
    BY <1>0, <2>2 DEF RenovarPrazo, VencerPrazo, RegistrarResposta, Execucao
  <2>3. CASE Interromper
    BY <2>3 DEF Interromper
  <2> QED
    BY <2>1, <2>2, <2>3, PassosDoMotor
<1>2. trabalho # Nada /\ trabalho \in Trabalho /\ fila[trabalho.job] # Nada
  BY <1>0, <1>1 DEF AbortarPasso, ExecutarPasso, NaEtapa, Contados
<1>j. PICK j \in Jobs : j = trabalho.job
  BY <1>2 DEF Trabalho
<1>3. CASE AbortarPasso
  <2>1. /\ trabalho' = [trabalho EXCEPT !.etapa = "devolver"] /\ fila' = fila
    BY <1>3 DEF AbortarPasso, Segue
  <2>2. trabalho' \in Trabalho /\ trabalho'.etapa = "devolver" /\ trabalho'.job = trabalho.job
    BY <1>2, <2>1 DEF Trabalho, Etapas
  <2>3. Solta(j)'
    BY <1>2, <1>j, <2>1, <2>2, NadaEhNada DEF Solta
  <2> QED
    BY <2>3
<1>4. CASE ExecutarPasso
  <2>1. trabalho' \in Trabalho /\ fila' = fila
    BY <1>4, TrabalhoDoPasso DEF ExecutarPasso, IMotor
  <2>2. \A prazo : Suspende(execucao, prazo).status = "suspended"
    BY DEF Suspende
  <2>3. trabalho'.terminal /\ trabalho'.job = trabalho.job
    BY <1>2, <1>4, <2>2 DEF ExecutarPasso, Trabalho, Terminais
  <2>4. Solta(j)'
    BY <1>2, <1>j, <2>1, <2>3, NadaEhNada DEF Solta
  <2> QED
    BY <2>4
<1> QED
  BY <1>1, <1>3, <1>4

LEMMA PosseNosPassos ==
  ASSUME IMotor, Devedor, Contados, PosseTemQuemSolte, Next,
         MaxFalhas < Tentativas, MaxQuedas <= Paradas, MaxPerdas = 0
  PROVE  PosseTemQuemSolte'
<1> SUFFICES ASSUME Fase = "saida", execucao'.status \in Terminais, detida'
             PROVE  \E j \in Jobs : Solta(j)'
  BY DEF PosseTemQuemSolte
<1>0. /\ trabalho # Nada => trabalho.job \in Jobs
      /\ problemas \in [falhas : 0 .. MaxFalhas, quedas : 0 .. MaxQuedas, perdas : 0 .. MaxPerdas]
      /\ fila \in [Jobs -> NaFila \cup {Nada}]
      /\ detida
  BY DetidaSoCai DEF IMotor, TypeOK, Trabalho
<1>n. NaFila \subseteq [tentativas : Nat, paradas : Nat]
  BY DEF NaFila
<1>t. problemas' \in [falhas : 0 .. MaxFalhas, quedas : 0 .. MaxQuedas, perdas : 0 .. MaxPerdas]
  BY TipoNosPassos DEF IMotor, TypeOK
<1>1. CASE execucao.status \notin Terminais
  BY <1>1, FimComPosse
<1>2. CASE execucao.status \in Terminais
  <2>1. PICK j \in Jobs : Solta(j)
    BY <1>0, <1>2 DEF PosseTemQuemSolte
  <2>2. CASE FilaCresce
    BY <2>1, <2>2 DEF FilaCresce, Solta, Repetido
  <2>3. CASE Continua
    <3>1. trabalho' # Nada /\ trabalho'.job = trabalho.job /\ fila' = fila
      BY <2>3, NadaEhNada DEF Continua
    <3>2. trabalho.terminal \/ trabalho.etapa = "devolver" => trabalho'.terminal
      BY <2>3 DEF Continua
    <3> QED
      BY <2>1, <3>1, <3>2 DEF Solta, Repetido
  <2>4. ASSUME NEW k \in Jobs, Pegar(k) PROVE Solta(j)'
    BY <2>1, <2>4 DEF Pegar, Solta, Repetido
  <2>5. CASE Larga
    <3>1. trabalho.job # j
      <4>1. CASE Devolver \/ Finalmente
        BY <1>2, <4>1 DEF Devolver, Finalmente, Devedor, NaEtapa
      <4>2. CASE IgnorarJob
        BY <1>2, <2>1, <4>2
        DEF IgnorarJob, ConclusaoPendente, Recuperando, Solta, Repetido, Devedor, NaEtapa
      <4> QED
        BY <2>5, <4>1, <4>2 DEF Larga
    <3> QED
      BY <1>0, <2>1, <2>5, <3>1 DEF Larga, Solta, Repetido
  <2>6. CASE Fracassa
    <3>1. CASE trabalho.job = j
      <4>1. fila[j] \in NaFila /\ fila'[j] = Falhado(fila[j])
        BY <1>0, <2>1, <2>6, <3>1 DEF Fracassa, Solta
      <4>2. fila[j].tentativas + 1 < Tentativas
        BY <1>0, <1>n, <1>t, <2>6, <3>1, <4>1, NadaEhNada DEF Fracassa, Contados, Tentativas
      <4>3. Falhado(fila[j]) = [fila[j] EXCEPT !.tentativas = @ + 1]
        BY <4>1, <4>2, NadaEhNada DEF Falhado, NaFila, Tentativas
      <4>4. Falhado(fila[j]) \in NaFila /\ Falhado(fila[j]).tentativas > 0
        BY <4>1, <4>2, <4>3 DEF NaFila, Tentativas
      <4> QED
        BY <4>1, <4>4, NadaEhNada DEF Solta, Repetido
    <3>2. CASE trabalho.job # j
      BY <1>0, <2>1, <2>6, <3>2 DEF Fracassa, Solta, Repetido
    <3> QED
      BY <3>1, <3>2
  <2>7. CASE Queda
    <3>1. CASE trabalho # Nada /\ trabalho.job = j
      <4>1. fila[j] \in NaFila /\ fila'[j] = Parado(fila[j])
        BY <1>0, <2>1, <2>7, <3>1 DEF Queda, Solta
      <4>2. fila[j].paradas = 0
        BY <1>0, <1>n, <2>7, <4>1, NadaEhNada DEF Queda, Contados, Paradas
      <4>3. Parado(fila[j]) \in NaFila /\ Parado(fila[j]).paradas > 0
        BY <4>1, <4>2, NadaEhNada DEF Parado, NaFila, Paradas
      <4> QED
        BY <4>1, <4>3, NadaEhNada DEF Solta, Repetido
    <3>2. CASE trabalho = Nada \/ trabalho.job # j
      BY <1>0, <2>1, <2>7, <3>2 DEF Queda, Solta, Repetido
    <3> QED
      BY <3>1, <3>2
  <2> QED
    BY <2>2, <2>3, <2>4, <2>5, <2>6, <2>7, FilaNosPassos DEF IMotor
<1> QED
  BY <1>1, <1>2

\* As long as failures are fewer than a job's attempts, crashes no more than the stalls
\* BullMQ forgives, and Redis loses nothing, an exit flow that has ended leaves no chat
\* reserved that nobody will release: some job in the queue is bound to.  With one failure
\* more it may.  (What ChatLiberado waits for is then there to happen.)
THEOREM ReservaTemQuemSolte ==
  ASSUME MaxFalhas < Tentativas, MaxQuedas <= Paradas, MaxPerdas = 0
  PROVE  Spec => []PosseTemQuemSolte
<1>1. Init => Contados /\ PosseTemQuemSolte
  BY DEF Init, Contados, PosseTemQuemSolte, Terminais
<1>2. IMotor /\ Devedor /\ Contados /\ PosseTemQuemSolte /\ [Next]_vars
        => (Contados /\ PosseTemQuemSolte)'
  <2>1. UNCHANGED vars /\ Contados /\ PosseTemQuemSolte => (Contados /\ PosseTemQuemSolte)'
    BY DEF vars, Contados, PosseTemQuemSolte, Solta, Repetido
  <2>2. IMotor => TypeOK
    BY DEF IMotor
  <2> QED
    BY <2>1, <2>2, ContadosNosPassos, PosseNosPassos
<1> QED
  BY <1>1, <1>2, IMotorSempre, DevedorSempre, PTL DEF Spec

================================================================================
