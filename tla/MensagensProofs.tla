---------------------------- MODULE MensagensProofs ----------------------------
(****************************************************************************)
(* Proofs about Mensagens: its type, and what the step-by-step writes of the *)
(* send and of the webhook worker may never do to a recorded message.        *)
(****************************************************************************)
EXTENDS Mensagens, TLAPS

--------------------------------------------------------------------------------
(* Rows and entities *)

LEMMA AplicaDaLinha ==
  ASSUME NEW base \in Linha, NEW m \in Entidade
  PROVE  Aplica(base, m) \in Linha
BY DEF Entidade, Linha, Aplica, Colunas

LEMMA DiferencasDaEntidade ==
  ASSUME NEW base \in Linha, NEW m \in Entidade
  PROVE  Diferencas(m, base) \in Entidade
BY DEF Entidade, Linha, Diferencas, Colunas

LEMMA NenhumaEhEntidade == Nenhuma \in Entidade
BY DEF Entidade, Nenhuma, Colunas

LEMMA ComUmaColuna ==
  ASSUME NEW m \in Entidade
  PROVE  /\ \A v \in Conversas : [m EXCEPT !.conversa = v] \in Entidade
         /\ \A v \in {"envio", "eco"} : [m EXCEPT !.posicao = v] \in Entidade
         /\ \A v \in Acks : [m EXCEPT !.ack = v] \in Entidade
         /\ [m EXCEPT !.conteudo = "original"] \in Entidade
         /\ [m EXCEPT !.editada = FALSE] \in Entidade
         /\ [m EXCEPT !.apagada = FALSE] \in Entidade
<1>1. \A v \in Conversas : [m EXCEPT !.conversa = v] \in Entidade
  BY DEF Entidade
<1>2. \A v \in {"envio", "eco"} : [m EXCEPT !.posicao = v] \in Entidade
  BY DEF Entidade
<1>3. \A v \in Acks : [m EXCEPT !.ack = v] \in Entidade
  BY DEF Entidade
<1>4. [m EXCEPT !.conteudo = "original"] \in Entidade
  BY DEF Entidade
<1>5. [m EXCEPT !.editada = FALSE] \in Entidade /\ [m EXCEPT !.apagada = FALSE] \in Entidade
  BY DEF Entidade
<1> QED BY <1>1, <1>2, <1>3, <1>4, <1>5

LEMMA OQueSeGrava ==
  /\ Recebida \in Entidade /\ Enviada \in Entidade
  /\ \A n \in Acks : [Nenhuma EXCEPT !.ack = n] \in Entidade
<1> DEFINE r1 == [Nenhuma EXCEPT !.conversa = Aberta]
           r2 == [r1 EXCEPT !.posicao = "eco"]
           r3 == [r2 EXCEPT !.ack = 1]
           r4 == [r3 EXCEPT !.conteudo = "original"]
           e1 == [Nenhuma EXCEPT !.conversa = "propria"]
           e2 == [e1 EXCEPT !.posicao = "envio"]
           e3 == [e2 EXCEPT !.ack = 0]
           e4 == [e3 EXCEPT !.conteudo = "original"]
           e5 == [e4 EXCEPT !.editada = FALSE]
           e6 == [e5 EXCEPT !.apagada = FALSE]
<1>1. Aberta \in Conversas /\ "propria" \in Conversas /\ 0 \in Acks /\ 1 \in Acks
  BY DEF Aberta, Conversas, Acks
<1>2. r1 \in Entidade /\ e1 \in Entidade
  BY <1>1, NenhumaEhEntidade, ComUmaColuna
<1>3. r2 \in Entidade /\ e2 \in Entidade
  BY <1>2, ComUmaColuna
<1>4. r3 \in Entidade /\ e3 \in Entidade
  BY <1>1, <1>3, ComUmaColuna
<1>5. r4 \in Entidade /\ e4 \in Entidade
  BY <1>4, ComUmaColuna
<1>6. e6 \in Entidade
  BY <1>5, ComUmaColuna
<1>7. \A n \in Acks : [Nenhuma EXCEPT !.ack = n] \in Entidade
  BY NenhumaEhEntidade, ComUmaColuna
<1> QED BY <1>5, <1>6, <1>7, Zenon DEF Recebida, Enviada

LEMMA PadraoEhLinha == Padrao \in Linha
BY DEF Padrao, Linha, Conversas, Acks, SemReacao

LEMMA LinhaEhEntidade == Linha \subseteq Entidade
BY DEF Linha, Entidade

LEMMA MesclaDaEntidade ==
  ASSUME NEW base \in Linha, NEW m \in Entidade, NEW q
  PROVE  Mescla(m, base, q) \in Entidade
<1> DEFINE p == [m EXCEPT !.posicao = base.posicao]
<1> DEFINE c == [p EXCEPT !.conversa = IF q = "envio" THEN m.conversa ELSE base.conversa]
<1>1. p \in Entidade /\ p.conversa = m.conversa /\ p.reacoes = m.reacoes
  BY DEF Entidade, Linha
<1>2. c \in Entidade /\ c.reacoes = m.reacoes
  <2> HIDE DEF p
  <2> QED BY <1>1 DEF Entidade, Linha
<1>3. [c EXCEPT !.reacoes = IF m.reacoes \in {Nada, SemReacao}
                            THEN base.reacoes ELSE m.reacoes] \in Entidade
  <2> HIDE DEF c
  <2> QED BY <1>2 DEF Entidade, Linha
<1> QED BY <1>1, <1>2, <1>3, Zenon DEF Mescla

--------------------------------------------------------------------------------
(* Types *)

\* What is not in TypeOK: a process that has yet to write holds an entity, it updates only
\* a row that is there, and a busy worker holds a report whose job has attempts left.
ComEntidade == {"travar", "ler", "comparar", "inserir", "atualizar"}
ComRelato ==
  EmPasso("webhook", "parado") \/
    (ocupado["webhook"].evento \in Eventos /\ restam[ocupado["webhook"].evento] > 0)
Apto ==
  /\ \A q \in Processos : ocupado[q].passo \in ComEntidade => ocupado[q].entidade \in Entidade
  /\ \A q \in Processos : ocupado[q].passo \in {"comparar", "atualizar"} => linha # Nada
  /\ ComRelato
  /\ ~EmPasso("webhook", "fim")
Tipado == TypeOK /\ Apto

LEMMA EventosSaoEventos == Eventos \subseteq TodosEventos /\ Nada \notin Eventos
BY ConstantesDasMensagens, NadaEhOutraCoisa DEF Eventos

LEMMA TipoInicial == Init => Tipado
BY ConstantesDasMensagens DEF Init, Tipado, Apto, ComRelato, TypeOK, EmPasso, Livre, Processo,
   Passos, Processos, ComEntidade, Tentativas

LEMMA TipoNoGravador ==
  ASSUME Tipado, NEW q \in Processos, Grava(q)
  PROVE  Tipado'
<1> USE DEF Tipado, TypeOK, EmPasso
<1> DEFINE o == ocupado[q]
<1>0. o \in Processo /\ "webhook" \in Processos
  BY DEF Processos
<1>1. CASE Travar(q)
  <2>1. ocupado' \in [Processos -> Processo] /\ trava' \in Processos \cup {Nada}
    BY <1>0, <1>1 DEF Travar, Vai, Processo, Passos
  <2>2. Apto'
    BY <1>0, <1>1 DEF Travar, Vai, Processo, Apto, ComEntidade, ComRelato
  <2> QED BY <1>1, <2>1, <2>2 DEF Travar
<1>2. CASE LerExistente(q)
  <2>1. CASE linha = Nada
    <3>1. ocupado' \in [Processos -> Processo]
      BY <1>0, <1>2, <2>1 DEF LerExistente, Vai, Processo, Passos
    <3>2. Apto'
      BY <1>0, <1>2, <2>1 DEF LerExistente, Vai, Processo, Apto, ComEntidade, ComRelato
    <3> QED BY <1>2, <3>1, <3>2 DEF LerExistente
  <2>2. CASE linha # Nada
    <3>0. o.entidade \in Entidade
      BY <1>0, <1>2 DEF LerExistente, Apto, ComEntidade
    <3>1. Mescla(o.entidade, linha, q) \in Entidade
      BY <2>2, <3>0, MesclaDaEntidade
    <3>2. ocupado' = [ocupado EXCEPT ![q] = [o EXCEPT !.passo = "comparar",
                                               !.entidade = Mescla(o.entidade, linha, q)]]
      BY <1>0, <1>2, <2>2 DEF LerExistente, Processo
    <3>3. ocupado' \in [Processos -> Processo]
      BY <1>0, <3>1, <3>2 DEF Processo, Passos
    <3>4. /\ ocupado'[q].entidade \in Entidade /\ ocupado'[q].passo = "comparar"
          /\ ocupado'[q].evento = o.evento /\ o.passo = "ler"
          /\ \A r \in Processos \ {q} : ocupado'[r] = ocupado[r]
      BY <1>0, <1>2, <3>1, <3>2 DEF LerExistente, Processo
    <3>5. Apto'
      BY <1>0, <1>2, <2>2, <3>4 DEF LerExistente, Apto, ComEntidade, ComRelato
    <3> QED BY <1>2, <3>3, <3>5 DEF LerExistente
  <2> QED BY <2>1, <2>2
<1>3. CASE Comparar(q)
  <2>0. o.entidade \in Entidade /\ linha \in Linha
    BY <1>0, <1>3 DEF Comparar, Apto, ComEntidade
  <2>1. Diferencas(o.entidade, linha) \in Entidade
    BY <2>0, DiferencasDaEntidade
  <2>2. ocupado' = [ocupado EXCEPT ![q] = [o EXCEPT !.passo = "atualizar",
                                             !.entidade = Diferencas(o.entidade, linha)]]
    BY <1>0, <1>3 DEF Comparar, Processo
  <2>3. ocupado' \in [Processos -> Processo]
    BY <1>0, <2>1, <2>2 DEF Processo, Passos
  <2>4. Apto'
    BY <1>0, <1>3, <2>1, <2>2 DEF Comparar, Processo, Apto, ComEntidade, ComRelato
  <2> QED BY <1>3, <2>3, <2>4 DEF Comparar
<1>4. CASE Gravar(q)
  <2> DEFINE base == IF linha = Nada THEN Padrao ELSE linha
  <2>0. o.entidade \in Entidade /\ base \in Linha
    BY <1>0, <1>4, PadraoEhLinha DEF Gravar, Apto, ComEntidade
  <2>1. Aplica(base, o.entidade) \in Linha
    BY <2>0, AplicaDaLinha
  <2>2. tx' \in [quem : Processos, linha : Linha]
    BY <1>4, <2>1 DEF Gravar
  <2>3. ocupado' \in [Processos -> Processo]
    BY <1>0, <1>4 DEF Gravar, Processo, Passos
  <2>4. Apto'
    BY <1>0, <1>4 DEF Gravar, Processo, Apto, ComEntidade, ComRelato
  <2>5. trava' \in Processos \cup {Nada}
    BY <1>4 DEF Gravar, Destravada
  <2> QED BY <1>4, <2>2, <2>3, <2>4, <2>5 DEF Gravar
<1> QED BY <1>1, <1>2, <1>3, <1>4 DEF Grava

LEMMA TipoNaConfirmacao ==
  ASSUME Tipado, ConfirmarEnvio \/ ConfirmarWebhook
  PROVE  Tipado'
<1> USE DEF Tipado, TypeOK, EmPasso
<1>0. {"envio", "webhook"} = Processos
  BY DEF Processos
<1>1. linha' \in Linha /\ linha' # Nada /\ tx' = Nada
  BY NadaEhOutraCoisa DEF ConfirmarEnvio, ConfirmarWebhook, Confirma
<1>2. ocupado' \in [Processos -> Processo]
  <2>1. CASE ConfirmarEnvio
    BY <1>0, <2>1 DEF ConfirmarEnvio, Vai, Processo, Passos
  <2>2. CASE ConfirmarWebhook
    <3>1. Livre \in Processo
      BY DEF Livre, Processo, Passos
    <3> QED BY <1>0, <2>2, <3>1 DEF ConfirmarWebhook
  <2> QED BY <2>1, <2>2
<1>3. restam' \in [Eventos -> 0 .. Tentativas]
  BY DEF ConfirmarEnvio, ConfirmarWebhook, JobPronto, Tentativas
<1>4. Apto'
  BY <1>0, <1>1 DEF ConfirmarEnvio, ConfirmarWebhook, Vai, Livre, Processo, Apto, ComEntidade,
     ComRelato
<1> QED BY <1>1, <1>2, <1>3, <1>4 DEF ConfirmarEnvio, ConfirmarWebhook

LEMMA TipoNaFalha ==
  ASSUME Tipado, FalharEnvio \/ FalharWebhook
  PROVE  Tipado'
<1> USE DEF Tipado, TypeOK, EmPasso
<1>0. {"envio", "webhook"} = Processos
  BY DEF Processos
<1>1. ocupado' \in [Processos -> Processo]
  <2>1. Livre \in Processo /\ [Livre EXCEPT !.passo = "fim"] \in Processo
    BY DEF Livre, Processo, Passos
  <2> QED BY <1>0, <2>1 DEF FalharEnvio, FalharWebhook
<1>2. restam' \in [Eventos -> 0 .. Tentativas]
  BY DEF FalharEnvio, FalharWebhook, JobFalho, Tentativas, Apto, ComRelato, Ativos, Duplicada
<1>3. Apto'
  BY <1>0 DEF FalharEnvio, FalharWebhook, Livre, Processo, Apto, ComEntidade, ComRelato
<1>4. falhas' \in [envio : 0 .. FalhasEnvio, webhook : 0 .. FalhasWebhook]
  BY ConstantesDasMensagens DEF FalharEnvio, FalharWebhook
<1>5. trava' \in Processos \cup {Nada} /\ tx' \in {Nada} \cup [quem : Processos, linha : Linha]
  BY DEF FalharEnvio, FalharWebhook, Destravada
<1> QED BY <1>1, <1>2, <1>3, <1>4, <1>5 DEF FalharEnvio, FalharWebhook

LEMMA TipoNaChegada ==
  ASSUME Tipado, NEW e \in Eventos, Recebe(e) \/ Colidir(e)
  PROVE  Tipado'
<1> USE DEF Tipado, TypeOK, EmPasso
<1>0. {"envio", "webhook"} = Processos /\ e \in TodosEventos
  BY EventosSaoEventos DEF Processos
<1>1. ASSUME NEW p \in {"travar", "atualizar"}, NEW m \in Entidade, Ocupa(e, p, m),
             Chegou(e), p = "atualizar" => linha # Nada
      PROVE  Tipado'
  <2>1. ocupado' \in [Processos -> Processo]
    BY <1>0, <1>1 DEF Ocupa, Livre, Processo, Passos
  <2>2. Apto'
    BY <1>0, <1>1 DEF Ocupa, Livre, Chegou, Processo, Apto, ComEntidade, ComRelato
  <2> QED BY <1>1, <2>1, <2>2 DEF Ocupa
<1>2. CASE ReceberEco(e)
  <2> QED BY <1>1, <1>2, OQueSeGrava DEF ReceberEco, Pega, Disponivel
<1>3. CASE ReceberAck(e)
  <2>0. e.tipo = "ack" /\ Interessa(e)
    BY <1>3 DEF ReceberAck, Pega
  <2>1. e \in [tipo : {"ack"}, autor : {Nada}, numero : 1 .. 4, por : {FALSE}]
    BY <1>0, <2>0 DEF TodosEventos
  <2>3. e.numero \in Acks
    BY <2>1 DEF Acks
  <2>2. linha # Nada
    BY <2>0 DEF Interessa
  <2> QED BY <1>1, <1>3, <2>2, <2>3, OQueSeGrava DEF ReceberAck, Pega, Disponivel
<1>4. CASE ReceberReacao(e) \/ ReceberEdicao(e) \/ ReceberRevogacao(e)
  <2>1. linha \in Linha
    BY <1>4 DEF ReceberReacao, ReceberEdicao, ReceberRevogacao, Pega, Interessa, Revogavel
  <2>2. CASE ReceberReacao(e)
    <3>1. e.autor \in Autores /\ e.por \in BOOLEAN
      BY <1>0, <2>2 DEF ReceberReacao, Pega, TodosEventos
    <3>2. [linha EXCEPT !.reacoes = ComReacao(@, e)] \in Entidade
      BY <2>1, <3>1, LinhaEhEntidade DEF Linha, Entidade, ComReacao
    <3> QED BY <1>1, <2>2, <3>2 DEF ReceberReacao, Pega, Disponivel
  <2>3. CASE ReceberEdicao(e)
    <3>1. [linha EXCEPT !.conteudo = "editado", !.editada = TRUE] \in Entidade
      BY <2>1 DEF Linha, Entidade
    <3> QED BY <1>1, <2>3, <3>1 DEF ReceberEdicao, Pega, Disponivel
  <2>4. CASE ReceberRevogacao(e)
    <3>1. [linha EXCEPT !.apagada = TRUE] \in Entidade
      BY <2>1 DEF Linha, Entidade
    <3> QED BY <1>1, <2>4, <3>1 DEF ReceberRevogacao, Pega, Disponivel
  <2> QED BY <1>4, <2>2, <2>3, <2>4
<1>5. CASE EdicaoPerdida(e) \/ Ignorar(e) \/ Colidir(e)
  <2>1. restam' \in [Eventos -> 0 .. Tentativas]
    BY <1>5 DEF EdicaoPerdida, Ignorar, Colidir, Disponivel, Chegou, JobFalho, JobPronto,
       Tentativas
  <2>2. Apto'
    BY <1>5 DEF EdicaoPerdida, Ignorar, Colidir, Disponivel, JobFalho, JobPronto, Apto,
       ComEntidade, ComRelato
  <2> QED BY <1>5, <2>1, <2>2 DEF EdicaoPerdida, Ignorar, Colidir
<1> QED BY <1>2, <1>3, <1>4, <1>5 DEF Recebe

LEMMA TipoPreservado == Tipado /\ [Next]_vars => Tipado'
<1> SUFFICES ASSUME Tipado, [Next]_vars PROVE Tipado'
  OBVIOUS
<1> USE DEF Tipado, TypeOK, EmPasso
<1>0. {"envio", "webhook"} = Processos
  BY DEF Processos
<1>1. CASE Enviar
  <2>1. Enviada \in Entidade
    BY OQueSeGrava
  <2>2. ocupado' \in [Processos -> Processo]
    BY <1>0, <1>1, <2>1 DEF Enviar, Livre, Processo, Passos
  <2>3. Apto'
    BY <1>0, <1>1, <2>1 DEF Enviar, Livre, Processo, Apto, ComEntidade, ComRelato
  <2> QED BY <1>1, <2>2, <2>3 DEF Enviar
<1>2. CASE Envio
  BY <1>0, <1>2, TipoNoGravador, TipoNaConfirmacao, TipoNaFalha DEF Envio
<1>3. CASE Webhook
  BY <1>0, <1>3, TipoNoGravador, TipoNaConfirmacao, TipoNaFalha, TipoNaChegada DEF Webhook
<1>4. CASE \E e \in Eventos : Colidir(e)
  BY <1>4, TipoNaChegada
<1>5. CASE Expirar
  BY <1>5 DEF Expirar, Apto, ComRelato
<1>6. CASE Ocultar
  <2>1. linha' \in Linha
    BY <1>6 DEF Ocultar, Linha
  <2>2. linha' # Nada
    BY <2>1, NadaEhOutraCoisa
  <2> QED BY <1>6, <2>1, <2>2 DEF Ocultar, Apto, ComRelato
<1>7. CASE FecharConversa
  BY <1>7 DEF FecharConversa, Apto, ComRelato
<1>8. CASE UNCHANGED vars
  BY <1>8 DEF vars, Apto, ComRelato
<1> QED BY <1>1, <1>2, <1>3, <1>4, <1>5, <1>6, <1>7, <1>8 DEF Next

\* Every variable of the message model keeps its type, for any set of authors, any
\* reports of the provider and any number of failures.
THEOREM TipoDasMensagens == Spec => []TypeOK
<1>1. Tipado => TypeOK
  BY DEF Tipado
<1> QED BY TipoInicial, TipoPreservado, <1>1, PTL DEF Spec

--------------------------------------------------------------------------------
(* The inductive invariant of the safety properties *)

\* The write that holds the row belongs to the process that is about to commit it.
Exclusivo ==
  \A q \in Processos : EmPasso(q, "confirmar") <=> (tx # Nada /\ tx.quem = q)

\* From the merge on, nobody carries another position than the row's.
PosicaoDaLinha ==
  linha # Nada =>
    /\ tx # Nada => tx.linha.posicao = linha.posicao
    /\ \A q \in Processos :
         /\ EmPasso(q, "comparar") => ocupado[q].entidade.posicao = linha.posicao
         /\ EmPasso(q, "atualizar") => ocupado[q].entidade.posicao \in {Nada, linha.posicao}

\* The send never marks a message as edited.
EnvioNaoEdita ==
  /\ ~nossa => EmPasso("envio", "parado")
  /\ ocupado["envio"].passo \in ComEntidade =>
       ocupado["envio"].entidade.editada \in {Nada, FALSE}
  /\ tx # Nada /\ tx.quem = "envio" /\ linha # Nada /\ tx.linha.editada => linha.editada

Tratando(tipo) ==
  ocupado["webhook"].passo \in Ativos /\ ocupado["webhook"].evento.tipo = tipo

\* The worker handles the echo of a recorded message only once the send is over, and
\* carries no other chat than the row's.
EcoSozinho ==
  Tratando("eco") =>
    /\ nossa => ~EmPasso("envio", "parado")
    /\ linha # Nada =>
         /\ ocupado["envio"].passo \notin Ativos
         /\ EmPasso("webhook", "comparar") =>
              ocupado["webhook"].entidade.conversa = linha.conversa
         /\ EmPasso("webhook", "atualizar") =>
              ocupado["webhook"].entidade.conversa \in {Nada, linha.conversa}
         /\ EmPasso("webhook", "confirmar") => tx.linha.conversa = linha.conversa

RevogaSoNaoEditada == Tratando("revogacao") => linha # Nada /\ ~linha.editada

\* The map of reactions on its way to the row differs from it in the author's alone.
Outros == Autores \ {ocupado["webhook"].evento.autor}
ReacaoSozinha ==
  ~nossa /\ Tratando("reacao") =>
    /\ linha # Nada
    /\ ocupado["webhook"].passo \in {"travar", "ler", "comparar"} =>
         \A a \in Outros : ocupado["webhook"].entidade.reacoes[a] = linha.reacoes[a]
    /\ EmPasso("webhook", "atualizar") /\ ocupado["webhook"].entidade.reacoes # Nada =>
         \A a \in Outros : ocupado["webhook"].entidade.reacoes[a] = linha.reacoes[a]
    /\ EmPasso("webhook", "confirmar") => \A a \in Outros : tx.linha.reacoes[a] = linha.reacoes[a]

Invariante ==
  /\ Tipado
  /\ Exclusivo /\ PosicaoDaLinha /\ EnvioNaoEdita
  /\ EcoSozinho /\ RevogaSoNaoEditada /\ ReacaoSozinha

\* What changes neither the row nor a process keeps every part.
LEMMA ParadoMantem ==
  ASSUME Invariante, Tipado', UNCHANGED <<nossa, linha, tx, ocupado>>
  PROVE  Invariante'
<1> USE DEF EmPasso
<1>1. Exclusivo' /\ PosicaoDaLinha' /\ EnvioNaoEdita'
  <2>1. Exclusivo'
    BY DEF Invariante, Exclusivo
  <2>2. PosicaoDaLinha'
    BY DEF Invariante, PosicaoDaLinha
  <2>3. EnvioNaoEdita'
    BY DEF Invariante, EnvioNaoEdita
  <2> QED BY <2>1, <2>2, <2>3
<1>2. EcoSozinho' /\ RevogaSoNaoEditada' /\ ReacaoSozinha'
  <2>1. EcoSozinho'
    BY DEF Invariante, EcoSozinho, Tratando
  <2>2. RevogaSoNaoEditada'
    BY DEF Invariante, RevogaSoNaoEditada, Tratando
  <2>3. ReacaoSozinha'
    BY DEF Invariante, ReacaoSozinha, Tratando, Outros
  <2> QED BY <2>1, <2>2, <2>3
<1> QED BY <1>1, <1>2 DEF Invariante

LEMMA CamposDaMescla ==
  ASSUME NEW base \in Linha, NEW m \in Entidade, NEW q
  PROVE  /\ Mescla(m, base, q).posicao = base.posicao
         /\ Mescla(m, base, q).editada = m.editada
         /\ q # "envio" => Mescla(m, base, q).conversa = base.conversa
         /\ Mescla(m, base, q).reacoes = IF m.reacoes \in {Nada, SemReacao}
                                         THEN base.reacoes ELSE m.reacoes
BY DEF Mescla, Entidade

LEMMA CamposDasDiferencas ==
  ASSUME NEW base, NEW m, NEW k \in Colunas
  PROVE  Diferencas(m, base)[k] = IF m[k] = Nada \/ m[k] = base[k] THEN Nada ELSE m[k]
BY DEF Diferencas

LEMMA CamposAplicados ==
  ASSUME NEW base, NEW m, NEW k \in Colunas
  PROVE  Aplica(base, m)[k] = IF m[k] = Nada THEN base[k] ELSE m[k]
BY DEF Aplica

LEMMA InvarianteInicial == Init => Invariante
<1> SUFFICES ASSUME Init PROVE Invariante
  OBVIOUS
<1>1. Tipado
  BY TipoInicial
<1>2. \A q \in Processos : ocupado[q].passo = "parado"
  BY DEF Init, Livre
<1>3. tx = Nada /\ linha = Nada
  BY DEF Init
<1>4. Exclusivo /\ PosicaoDaLinha /\ EnvioNaoEdita
  BY <1>2, <1>3 DEF Exclusivo, PosicaoDaLinha, EnvioNaoEdita, EmPasso, Processos, ComEntidade
<1>5. EcoSozinho /\ RevogaSoNaoEditada /\ ReacaoSozinha
  BY <1>2 DEF EcoSozinho, RevogaSoNaoEditada, ReacaoSozinha, Tratando, Ativos, Processos
<1> QED BY <1>1, <1>4, <1>5 DEF Invariante

LEMMA InvarianteNoTravar ==
  ASSUME Invariante, NEW q \in Processos, Travar(q)
  PROVE  Invariante'
<1> USE DEF EmPasso
<1>1. Tipado' /\ ocupado \in [Processos -> Processo] /\ Processos = {"envio", "webhook"}
  BY TipoNoGravador DEF Invariante, Tipado, TypeOK, Grava, Processos
<1>2. /\ ocupado[q].passo = "travar" /\ ocupado'[q].passo = "ler"
      /\ ocupado'[q].entidade = ocupado[q].entidade
      /\ ocupado'[q].evento = ocupado[q].evento
      /\ \A r \in Processos \ {q} : ocupado'[r] = ocupado[r]
  BY <1>1 DEF Travar, Vai, Processo
<1>3. UNCHANGED <<nossa, linha, tx>>
  BY DEF Travar
<1>4. Exclusivo' /\ PosicaoDaLinha' /\ EnvioNaoEdita'
  <2>1. Exclusivo'
    BY <1>1, <1>2, <1>3 DEF Invariante, Exclusivo
  <2>2. PosicaoDaLinha'
    BY <1>1, <1>2, <1>3 DEF Invariante, PosicaoDaLinha
  <2>3. EnvioNaoEdita'
    BY <1>1, <1>2, <1>3 DEF Invariante, EnvioNaoEdita, ComEntidade
  <2> QED BY <2>1, <2>2, <2>3
<1>5. EcoSozinho' /\ RevogaSoNaoEditada' /\ ReacaoSozinha'
  BY <1>1, <1>2, <1>3 DEF Invariante, EcoSozinho, RevogaSoNaoEditada, ReacaoSozinha, Tratando,
     Outros, Ativos, Passos
<1> QED BY <1>1, <1>4, <1>5 DEF Invariante

LEMMA InvarianteAoLer ==
  ASSUME Invariante, NEW q \in Processos, LerExistente(q)
  PROVE  Invariante'
<1> USE DEF EmPasso
<1>1. /\ Tipado' /\ ocupado \in [Processos -> Processo] /\ Processos = {"envio", "webhook"}
      /\ ocupado[q].entidade \in Entidade /\ (linha # Nada => linha \in Linha)
  BY TipoNoGravador
     DEF Invariante, Tipado, TypeOK, Apto, ComEntidade, Grava, Processos, LerExistente
<1>2. /\ ocupado[q].passo = "ler" /\ ocupado'[q].evento = ocupado[q].evento
      /\ \A r \in Processos \ {q} : ocupado'[r] = ocupado[r]
  BY <1>1 DEF LerExistente, Vai, Processo
<1>3. UNCHANGED <<nossa, linha, tx>>
  BY DEF LerExistente
<1>4. CASE linha = Nada
  <2>1. ocupado'[q].passo = "inserir" /\ ocupado'[q].entidade = ocupado[q].entidade
    BY <1>1, <1>4 DEF LerExistente, Vai, Processo
  <2>2. Exclusivo' /\ PosicaoDaLinha' /\ EnvioNaoEdita'
    <3>1. Exclusivo'
      BY <1>1, <1>2, <1>3, <1>4, <2>1 DEF Invariante, Exclusivo
    <3>2. PosicaoDaLinha'
      BY <1>1, <1>2, <1>3, <1>4, <2>1 DEF Invariante, PosicaoDaLinha
    <3>3. EnvioNaoEdita'
      BY <1>1, <1>2, <1>3, <1>4, <2>1 DEF Invariante, EnvioNaoEdita, ComEntidade
    <3> QED BY <3>1, <3>2, <3>3
  <2>3. EcoSozinho' /\ RevogaSoNaoEditada' /\ ReacaoSozinha'
    BY <1>1, <1>2, <1>3, <1>4, <2>1 DEF Invariante, EcoSozinho, RevogaSoNaoEditada,
       ReacaoSozinha, Tratando, Outros, Ativos, Passos
  <2> QED BY <1>1, <2>2, <2>3 DEF Invariante
<1>5. CASE linha # Nada
  <2> DEFINE nova == Mescla(ocupado[q].entidade, linha, q)
  <2>1. ocupado'[q].passo = "comparar" /\ ocupado'[q].entidade = nova
    BY <1>1, <1>5 DEF LerExistente, Processo
  <2>2. /\ nova.posicao = linha.posicao /\ nova.editada = ocupado[q].entidade.editada
        /\ q = "webhook" => nova.conversa = linha.conversa
        /\ nova.reacoes = IF ocupado[q].entidade.reacoes \in {Nada, SemReacao}
                          THEN linha.reacoes ELSE ocupado[q].entidade.reacoes
    BY <1>1, <1>5, CamposDaMescla
  <2> HIDE DEF nova
  <2>3. Exclusivo' /\ PosicaoDaLinha' /\ EnvioNaoEdita'
    <3>1. Exclusivo'
      BY <1>1, <1>2, <1>3, <2>1, <2>2 DEF Invariante, Exclusivo
    <3>2. PosicaoDaLinha'
      BY <1>1, <1>2, <1>3, <2>1, <2>2 DEF Invariante, PosicaoDaLinha
    <3>3. EnvioNaoEdita'
      BY <1>1, <1>2, <1>3, <2>1, <2>2 DEF Invariante, EnvioNaoEdita, ComEntidade
    <3> QED BY <3>1, <3>2, <3>3
  <2>4. EcoSozinho' /\ RevogaSoNaoEditada' /\ ReacaoSozinha'
    BY SMTT(30), <1>1, <1>2, <1>3, <2>1, <2>2 DEF Invariante, EcoSozinho, RevogaSoNaoEditada,
       ReacaoSozinha, Tratando, Outros, Ativos, Passos
  <2> QED BY <1>1, <2>3, <2>4 DEF Invariante
<1> QED BY <1>4, <1>5

LEMMA InvarianteAoComparar ==
  ASSUME Invariante, NEW q \in Processos, Comparar(q)
  PROVE  Invariante'
<1> USE DEF EmPasso
<1> DEFINE m == ocupado[q].entidade
           nova == Diferencas(m, linha)
<1>1. Tipado' /\ ocupado \in [Processos -> Processo] /\ Processos = {"envio", "webhook"}
  BY TipoNoGravador DEF Invariante, Tipado, TypeOK, Grava, Processos
<1>2. /\ ocupado[q].passo = "comparar" /\ ocupado'[q].passo = "atualizar"
      /\ ocupado'[q].entidade = nova /\ ocupado'[q].evento = ocupado[q].evento
      /\ \A r \in Processos \ {q} : ocupado'[r] = ocupado[r]
  BY <1>1 DEF Comparar, Processo
<1>3. UNCHANGED <<nossa, linha, tx>>
  BY DEF Comparar
<1>4. /\ nova.posicao \in {Nada, m.posicao} /\ (m.posicao = linha.posicao => nova.posicao = Nada)
      /\ nova.editada \in {Nada, m.editada}
      /\ nova.conversa \in {Nada, m.conversa}
      /\ nova.reacoes \in {Nada, m.reacoes}
  BY CamposDasDiferencas DEF Colunas
<1> HIDE DEF nova
<1>5. Exclusivo' /\ PosicaoDaLinha' /\ EnvioNaoEdita'
  <2>1. Exclusivo'
    BY <1>1, <1>2, <1>3, <1>4 DEF Invariante, Exclusivo
  <2>2. PosicaoDaLinha'
    BY <1>1, <1>2, <1>3, <1>4 DEF Invariante, PosicaoDaLinha
  <2>3. EnvioNaoEdita'
    BY <1>1, <1>2, <1>3, <1>4 DEF Invariante, EnvioNaoEdita, ComEntidade
  <2> QED BY <2>1, <2>2, <2>3
<1>6. EcoSozinho' /\ RevogaSoNaoEditada' /\ ReacaoSozinha'
  BY <1>1, <1>2, <1>3, <1>4 DEF Invariante, EcoSozinho, RevogaSoNaoEditada,
     ReacaoSozinha, Tratando, Outros, Ativos, Passos
<1> QED BY <1>1, <1>5, <1>6 DEF Invariante

LEMMA InvarianteAoGravar ==
  ASSUME Invariante, NEW q \in Processos, Gravar(q)
  PROVE  Invariante'
<1> USE DEF EmPasso
<1> DEFINE m == ocupado[q].entidade
           base == IF linha = Nada THEN Padrao ELSE linha
           nova == Aplica(base, m)
<1>1. Tipado' /\ ocupado \in [Processos -> Processo] /\ Processos = {"envio", "webhook"}
  BY TipoNoGravador DEF Invariante, Tipado, TypeOK, Grava, Processos
<1>2. /\ ocupado[q].passo \in {"inserir", "atualizar"} /\ ocupado'[q].passo = "confirmar"
      /\ ocupado[q].passo = "inserir" => linha = Nada
      /\ ocupado'[q].evento = ocupado[q].evento
      /\ \A r \in Processos \ {q} : ocupado'[r] = ocupado[r]
  BY <1>1 DEF Gravar, Processo
<1>3. /\ UNCHANGED <<nossa, linha>> /\ tx = Nada /\ tx' # Nada
      /\ tx'.quem = q /\ tx'.linha = nova
  <2>1. tx' = [quem |-> q, linha |-> nova] /\ tx = Nada /\ UNCHANGED <<nossa, linha>>
    BY DEF Gravar
  <2>2. tx' \in [quem : Processos, linha : Linha] \cup {Nada} /\ nova \in Linha
    <3>1. m \in Entidade /\ base \in Linha
      BY <1>1, <1>2, PadraoEhLinha DEF Invariante, Tipado, TypeOK, Apto, ComEntidade
    <3> QED BY <1>1, <3>1, AplicaDaLinha DEF Tipado, TypeOK
  <2> QED BY <2>1, <2>2, NadaEhOutraCoisa
<1>4. linha # Nada =>
        /\ nova.posicao = IF m.posicao = Nada THEN linha.posicao ELSE m.posicao
        /\ nova.editada = IF m.editada = Nada THEN linha.editada ELSE m.editada
        /\ nova.conversa = IF m.conversa = Nada THEN linha.conversa ELSE m.conversa
        /\ nova.reacoes = IF m.reacoes = Nada THEN linha.reacoes ELSE m.reacoes
  BY CamposAplicados DEF Colunas
<1> HIDE DEF nova
<1>5. Exclusivo' /\ PosicaoDaLinha' /\ EnvioNaoEdita'
  <2>1. Exclusivo'
    BY <1>1, <1>2, <1>3, <1>4 DEF Invariante, Exclusivo
  <2>2. PosicaoDaLinha'
    BY <1>1, <1>2, <1>3, <1>4 DEF Invariante, PosicaoDaLinha
  <2>3. EnvioNaoEdita'
    BY <1>1, <1>2, <1>3, <1>4 DEF Invariante, EnvioNaoEdita, ComEntidade
  <2> QED BY <2>1, <2>2, <2>3
<1>6. EcoSozinho' /\ RevogaSoNaoEditada' /\ ReacaoSozinha'
  <2>1. EcoSozinho'
    BY <1>1, <1>2, <1>3, <1>4 DEF Invariante, EcoSozinho, Tratando, Ativos, Passos
  <2>2. RevogaSoNaoEditada'
    BY <1>1, <1>2, <1>3 DEF Invariante, RevogaSoNaoEditada, Tratando, Ativos, Passos
  <2>3. ReacaoSozinha'
    <3>1. ~nossa => q = "webhook"
      BY <1>1, <1>2 DEF Invariante, EnvioNaoEdita
    <3> QED BY <1>1, <1>2, <1>3, <1>4, <3>1
            DEF Invariante, ReacaoSozinha, Tratando, Outros, Ativos, Passos
  <2> QED BY <2>1, <2>2, <2>3
<1> QED BY <1>1, <1>5, <1>6 DEF Invariante

LEMMA InvarianteNaConfirmacao ==
  ASSUME Invariante, NEW q \in Processos, Confirma(q),
         q = "envio" => ConfirmarEnvio, q = "webhook" => ConfirmarWebhook
  PROVE  Invariante'
<1> USE DEF EmPasso
<1>1. Tipado' /\ ocupado \in [Processos -> Processo] /\ Processos = {"envio", "webhook"}
  BY TipoNaConfirmacao DEF Invariante, Tipado, TypeOK, Processos
<1>2. /\ ocupado[q].passo = "confirmar" /\ ocupado'[q].passo \in {"parado", "fim"}
      /\ q = "envio" => ocupado'[q].passo = "fim"
      /\ \A r \in Processos \ {q} : ocupado'[r] = ocupado[r]
      /\ nossa' = nossa
  BY <1>1 DEF ConfirmarEnvio, ConfirmarWebhook, Confirma, Vai, Livre, Processo
<1>3. tx # Nada /\ tx.quem = q /\ linha' = tx.linha /\ tx' = Nada
  BY DEF Confirma
<1>4. linha = Nada => \A r \in Processos : ocupado[r].passo \notin {"comparar", "atualizar"}
  BY DEF Invariante, Tipado, Apto
<1>5. Exclusivo'
  BY <1>1, <1>2, <1>3 DEF Invariante, Exclusivo
<1>6. PosicaoDaLinha'
  BY <1>1, <1>2, <1>3, <1>4 DEF Invariante, PosicaoDaLinha
<1>7. EnvioNaoEdita'
  BY <1>1, <1>2, <1>3 DEF Invariante, EnvioNaoEdita, ComEntidade
<1>8. EcoSozinho'
  BY <1>1, <1>2, <1>3, <1>4 DEF Invariante, Exclusivo, EcoSozinho, Tratando, Ativos, Passos
<1>9. RevogaSoNaoEditada'
  <2>1. linha' # Nada
    BY <1>3, NadaEhOutraCoisa DEF Invariante, Tipado, TypeOK
  <2>2. CASE q = "webhook"
    BY <1>2, <2>2 DEF RevogaSoNaoEditada, Tratando, Ativos
  <2>3. CASE q = "envio"
    BY <1>1, <1>2, <1>3, <2>1, <2>3
       DEF Invariante, RevogaSoNaoEditada, EnvioNaoEdita, Tratando
  <2> QED BY <1>1, <2>2, <2>3
<1>10. ReacaoSozinha'
  BY <1>1, <1>2, <1>3 DEF Invariante, EnvioNaoEdita, ReacaoSozinha, Tratando, Ativos, Passos
<1> QED BY <1>1, <1>5, <1>6, <1>7, <1>8, <1>9, <1>10 DEF Invariante

LEMMA InvarianteNaFalha ==
  ASSUME Invariante, NEW q \in Processos,
         q = "envio" => FalharEnvio, q = "webhook" => FalharWebhook
  PROVE  Invariante'
<1> USE DEF EmPasso
<1>1. Tipado' /\ ocupado \in [Processos -> Processo] /\ Processos = {"envio", "webhook"}
  BY TipoNaFalha DEF Invariante, Tipado, TypeOK, Processos
<1>2. /\ ocupado[q].passo \in Ativos /\ ocupado'[q].passo \in {"parado", "fim"}
      /\ q = "envio" => ocupado'[q].passo = "fim"
      /\ \A r \in Processos \ {q} : ocupado'[r] = ocupado[r]
  BY <1>1 DEF FalharEnvio, FalharWebhook, Duplicada, Ativos, Passos, Livre, Processo
<1>3. /\ UNCHANGED <<nossa, linha>>
      /\ tx' = IF ocupado[q].passo = "confirmar" THEN Nada ELSE tx
  BY <1>1 DEF FalharEnvio, FalharWebhook
<1>4. Exclusivo'
  BY <1>1, <1>2, <1>3 DEF Invariante, Exclusivo
<1>5. PosicaoDaLinha'
  BY <1>1, <1>2, <1>3 DEF Invariante, PosicaoDaLinha
<1>6. EnvioNaoEdita'
  BY <1>1, <1>2, <1>3 DEF Invariante, EnvioNaoEdita, ComEntidade, Ativos
<1>7. EcoSozinho'
  BY <1>1, <1>2, <1>3 DEF Invariante, Exclusivo, EcoSozinho, Tratando, Ativos, Passos
<1>8. RevogaSoNaoEditada' /\ ReacaoSozinha'
  BY <1>1, <1>2, <1>3 DEF Invariante, EnvioNaoEdita, Exclusivo, RevogaSoNaoEditada,
     ReacaoSozinha, Tratando, Outros, Ativos, Passos
<1> QED BY <1>1, <1>4, <1>5, <1>6, <1>7, <1>8 DEF Invariante

LEMMA InvarianteNaChegada ==
  ASSUME Invariante, NEW e \in Eventos, Recebe(e) \/ Colidir(e)
  PROVE  Invariante'
<1> USE DEF EmPasso
<1>1. Tipado' /\ ocupado \in [Processos -> Processo] /\ Processos = {"envio", "webhook"}
  BY TipoNaChegada DEF Invariante, Tipado, TypeOK, Processos
<1>2. ASSUME NEW p \in {"travar", "atualizar"}, NEW m, Ocupa(e, p, m), Disponivel(e),
             p = "atualizar" => m.posicao = Nada /\ e.tipo = "ack",
             e.tipo = "eco" => p = "travar" /\ (nossa => linha = Nada),
             e.tipo = "revogacao" => linha # Nada /\ ~linha.editada,
             e.tipo = "reacao" => linha # Nada /\ p = "travar"
                 /\ \A a \in Autores \ {e.autor} : m.reacoes[a] = linha.reacoes[a]
      PROVE  Invariante'
  <2>1. /\ ocupado["webhook"].passo = "parado"
        /\ ocupado'["webhook"].passo = p /\ ocupado'["webhook"].entidade = m
        /\ ocupado'["webhook"].evento = e
        /\ \A r \in Processos \ {"webhook"} : ocupado'[r] = ocupado[r]
        /\ UNCHANGED <<nossa, linha, tx>>
        /\ nossa => ocupado["envio"].passo # "parado"
    BY <1>1, <1>2 DEF Ocupa, Disponivel, Chegou, Livre
  <2>2. Exclusivo'
    BY <1>1, <1>2, <2>1 DEF Invariante, Exclusivo
  <2>3. PosicaoDaLinha'
    BY <1>1, <1>2, <2>1 DEF Invariante, PosicaoDaLinha
  <2>4. EnvioNaoEdita'
    BY <1>1, <1>2, <2>1 DEF Invariante, EnvioNaoEdita, ComEntidade
  <2>5. EcoSozinho'
    BY <1>1, <1>2, <2>1 DEF Invariante, EcoSozinho, Tratando, Ativos, Passos, EnvioNaoEdita
  <2>6. RevogaSoNaoEditada'
    BY <1>1, <1>2, <2>1 DEF RevogaSoNaoEditada, Tratando
  <2>7. ReacaoSozinha'
    BY <1>1, <1>2, <2>1 DEF ReacaoSozinha, Tratando, Outros
  <2> QED BY <1>1, <2>2, <2>3, <2>4, <2>5, <2>6, <2>7 DEF Invariante
<1>3. CASE ReceberEco(e)
  BY <1>2, <1>3 DEF ReceberEco, Pega, Interessa
<1>4. CASE ReceberAck(e)
  <2>1. [Nenhuma EXCEPT !.ack = e.numero].posicao = Nada
    BY DEF Nenhuma, Colunas
  <2> QED BY <1>2, <1>4, <2>1 DEF ReceberAck, Pega
<1>5. CASE ReceberReacao(e)
  <2>1. linha \in Linha
    BY <1>5 DEF ReceberReacao, Pega, Interessa, Invariante, Tipado, TypeOK
  <2>2. \A a \in Autores \ {e.autor} :
          [linha EXCEPT !.reacoes = ComReacao(@, e)].reacoes[a] = linha.reacoes[a]
    BY <2>1 DEF Linha, ComReacao
  <2> QED BY <1>2, <1>5, <2>1, <2>2, NadaEhOutraCoisa DEF ReceberReacao, Pega
<1>6. CASE ReceberEdicao(e)
  BY <1>2, <1>6 DEF ReceberEdicao, Pega
<1>7. CASE ReceberRevogacao(e)
  BY <1>2, <1>7 DEF ReceberRevogacao, Pega, Interessa, Revogavel
<1>8. CASE EdicaoPerdida(e) \/ Ignorar(e) \/ Colidir(e)
  <2>1. UNCHANGED <<nossa, linha, tx, ocupado>>
    BY <1>8 DEF EdicaoPerdida, Ignorar, Colidir
  <2> QED BY <1>1, <2>1, ParadoMantem
<1> QED BY <1>3, <1>4, <1>5, <1>6, <1>7, <1>8 DEF Recebe

LEMMA InvarianteSempre == Invariante /\ [Next]_vars => Invariante'
<1> SUFFICES ASSUME Invariante, [Next]_vars PROVE Invariante'
  OBVIOUS
<1> USE DEF EmPasso
<1>1. /\ Tipado' /\ ocupado \in [Processos -> Processo] /\ Processos = {"envio", "webhook"}
  BY TipoPreservado DEF Invariante, Tipado, TypeOK, Processos
<1>2. ASSUME NEW q \in Processos, Grava(q) PROVE Invariante'
  BY <1>2, InvarianteNoTravar, InvarianteAoLer, InvarianteAoComparar, InvarianteAoGravar
     DEF Grava
<1>3. CASE Enviar
  <2>1. /\ nossa /\ ocupado["envio"].passo = "parado" /\ ocupado'["envio"].passo = "travar"
        /\ ocupado'["envio"].entidade = Enviada
        /\ ocupado'["webhook"] = ocupado["webhook"]
        /\ UNCHANGED <<nossa, linha, tx>>
    BY <1>1, <1>3 DEF Enviar, Livre
  <2>2. Enviada.editada = FALSE
    BY DEF Enviada, Nenhuma, Colunas
  <2>3. Exclusivo' /\ PosicaoDaLinha'
    BY <1>1, <2>1 DEF Invariante, Exclusivo, PosicaoDaLinha
  <2>4. EnvioNaoEdita'
    BY <2>1, <2>2 DEF Invariante, EnvioNaoEdita
  <2>5. EcoSozinho' /\ RevogaSoNaoEditada' /\ ReacaoSozinha'
    BY <2>1 DEF Invariante, EcoSozinho, RevogaSoNaoEditada, ReacaoSozinha, Tratando, Outros
  <2> QED BY <1>1, <2>3, <2>4, <2>5 DEF Invariante
<1>4. CASE Envio
  BY <1>1, <1>2, <1>4, InvarianteNaConfirmacao, InvarianteNaFalha DEF Envio, ConfirmarEnvio
<1>5. CASE Webhook
  BY <1>1, <1>2, <1>5, InvarianteNaConfirmacao, InvarianteNaFalha, InvarianteNaChegada
     DEF Webhook, ConfirmarWebhook
<1>6. CASE \E e \in Eventos : Colidir(e)
  BY <1>6, InvarianteNaChegada
<1>7. CASE Ocultar
  <2>1. /\ linha' # Nada /\ linha # Nada /\ tx = Nada /\ UNCHANGED <<nossa, tx, ocupado>>
        /\ linha'.posicao = linha.posicao /\ linha'.conversa = linha.conversa
        /\ linha'.editada = linha.editada /\ linha'.reacoes = linha.reacoes
    <3>1. linha \in Linha /\ linha' \in Linha \cup {Nada}
      BY <1>1, <1>7 DEF Ocultar, Invariante, Tipado, TypeOK
    <3>2. linha' \in Linha
      BY <1>7, <3>1 DEF Ocultar, Linha
    <3> QED BY <1>7, <3>1, <3>2, NadaEhOutraCoisa DEF Ocultar, Linha
  <2>2. Exclusivo' /\ PosicaoDaLinha' /\ EnvioNaoEdita'
    BY <2>1 DEF Invariante, Exclusivo, PosicaoDaLinha, EnvioNaoEdita
  <2>3. EcoSozinho'
    BY <1>1, <2>1 DEF Invariante, Exclusivo, EcoSozinho, Tratando
  <2>4. RevogaSoNaoEditada'
    BY <2>1 DEF Invariante, RevogaSoNaoEditada, Tratando
  <2>5. ReacaoSozinha'
    BY <1>1, <2>1 DEF Invariante, Exclusivo, ReacaoSozinha, Tratando, Outros
  <2> QED BY <1>1, <2>2, <2>3, <2>4, <2>5 DEF Invariante
<1>8. CASE Expirar \/ FecharConversa \/ UNCHANGED vars
  <2>1. UNCHANGED <<nossa, linha, tx, ocupado>>
    BY <1>8 DEF Expirar, FecharConversa, vars
  <2> QED BY <1>1, <2>1, ParadoMantem
<1> QED BY <1>3, <1>4, <1>5, <1>6, <1>7, <1>8 DEF Next

LEMMA InvarianteDasMensagens == Spec => []Invariante
<1> QED BY InvarianteInicial, InvarianteSempre, PTL DEF Spec

--------------------------------------------------------------------------------
(* The safety properties *)

\* The row changes when a process commits, and when the attendant hides it.
LEMMA QuemMudaALinha ==
  ASSUME [Next]_vars
  PROVE  linha' = linha \/ Ocultar \/ ConfirmarEnvio \/ ConfirmarWebhook
<1>1. ASSUME NEW q \in Processos, Grava(q) PROVE linha' = linha
  BY <1>1 DEF Grava, Travar, LerExistente, Comparar, Gravar
<1>2. ASSUME NEW e \in Eventos, Recebe(e) PROVE linha' = linha
  BY <1>2 DEF Recebe, ReceberEco, ReceberAck, ReceberReacao, ReceberEdicao, ReceberRevogacao,
     EdicaoPerdida, Ignorar, Ocupa
<1>3. Envio => linha' = linha \/ ConfirmarEnvio
  BY <1>1 DEF Envio, FalharEnvio, Processos
<1>4. Webhook => linha' = linha \/ ConfirmarWebhook
  BY <1>1, <1>2 DEF Webhook, FalharWebhook, Processos
<1>5. Enviar \/ Expirar \/ FecharConversa \/ UNCHANGED vars => linha' = linha
  BY DEF Enviar, Expirar, FecharConversa, vars
<1>6. ASSUME NEW e \in Eventos, Colidir(e) PROVE linha' = linha
  BY <1>6 DEF Colidir
<1> QED BY <1>3, <1>4, <1>5, <1>6 DEF Next

\* A recorded message keeps its place in the conversation, whatever the order of the send,
\* its echo, the failures and the expired locks.
THEOREM PosicaoNuncaMuda == Spec => PosicaoFixa
<1>1. Invariante /\ [Next]_vars =>
        [linha # Nada => linha' # Nada /\ linha'.posicao = linha.posicao]_vars
  <2> SUFFICES ASSUME Invariante, [Next]_vars, linha # Nada
               PROVE  linha' # Nada /\ linha'.posicao = linha.posicao
    OBVIOUS
  <2>1. CASE Ocultar
    <3>1. linha \in Linha
      BY DEF Invariante, Tipado, TypeOK
    <3>2. linha' \in Linha /\ linha'.posicao = linha.posicao
      BY <2>1, <3>1 DEF Ocultar, Linha
    <3> QED BY <3>2, NadaEhOutraCoisa
  <2>2. CASE ConfirmarEnvio \/ ConfirmarWebhook
    <3>1. tx # Nada /\ linha' = tx.linha
      BY <2>2 DEF ConfirmarEnvio, ConfirmarWebhook, Confirma
    <3>2. tx.linha \in Linha
      BY <3>1 DEF Invariante, Tipado, TypeOK
    <3> QED BY <3>1, <3>2, NadaEhOutraCoisa DEF Invariante, PosicaoDaLinha
  <2> QED BY <2>1, <2>2, QuemMudaALinha
<1> QED BY <1>1, InvarianteDasMensagens, PTL DEF Spec, PosicaoFixa

LEMMA ConfirmaEhTratar ==
  ASSUME Invariante, NEW tipo, ConfirmaWebhook(tipo)
  PROVE  /\ Tratando(tipo) /\ EmPasso("webhook", "confirmar")
         /\ tx # Nada /\ linha' = tx.linha
BY DEF ConfirmaWebhook, Tratando, EmPasso, Ativos, Passos

\* The echo of a recorded message never moves it to another chat.
THEOREM EcoNuncaRedecide == Spec => EcoNaoRedecide
<1>1. Invariante /\ [Next]_vars =>
        [linha # Nada /\ ConfirmaWebhook("eco") => linha'.conversa = linha.conversa]_vars
  BY ConfirmaEhTratar DEF Invariante, EcoSozinho
<1> QED BY <1>1, InvarianteDasMensagens, PTL DEF Spec, EcoNaoRedecide

\* A revocation that was tested before an edit is not written after it.
THEOREM RevogacaoNuncaAlcancaEdicao == Spec => EditadaNaoApagada
<1>1. Invariante /\ [Next]_vars =>
        [linha # Nada /\ ConfirmaWebhook("revogacao") => ~linha.editada]_vars
  BY ConfirmaEhTratar DEF Invariante, RevogaSoNaoEditada
<1> QED BY <1>1, InvarianteDasMensagens, PTL DEF Spec, EditadaNaoApagada

\* On a message of the customer, a reaction changes its author's entry and no other.
THEOREM ReacaoSoDoAutor == Spec => ReacoesDosOutros
<1>1. Invariante /\ [Next]_vars =>
        [~nossa /\ linha # Nada /\ ConfirmaWebhook("reacao") =>
           \A a \in Autores \ {ocupado["webhook"].evento.autor} :
             linha.reacoes[a] => linha'.reacoes[a]]_vars
  BY ConfirmaEhTratar DEF Invariante, ReacaoSozinha, Outros
<1> QED BY <1>1, InvarianteDasMensagens, PTL DEF Spec, ReacoesDosOutros

\* Only the process that holds the lock frees it, other than by the lock's own expiry.
THEOREM TravaSoDoDono == Spec => TravaDeQuemPegou
<1>1. Invariante /\ [Next]_vars =>
        [\A q \in Processos :
           trava = q /\ trava' # q /\ ocupado' # ocupado => ocupado'[q] # ocupado[q]]_vars
  <2> SUFFICES ASSUME Invariante, [Next]_vars, NEW q \in Processos,
                      trava = q, trava' # q, ocupado' # ocupado
               PROVE  ocupado'[q] # ocupado[q]
    OBVIOUS
  <2>0. /\ Processos = {"envio", "webhook"} /\ trava # Nada
        /\ ocupado \in [Processos -> Processo]
    BY NadaEhOutraCoisa DEF Invariante, Tipado, TypeOK, Processos
  <2>1. ASSUME NEW r \in Processos, Grava(r) PROVE ocupado'[q] # ocupado[q]
    <3>1. Gravar(r) /\ trava = r
      BY <2>0, <2>1 DEF Grava, Travar, LerExistente, Comparar, Gravar, Destravada
    <3>2. q = r /\ ocupado'[r].passo = "confirmar" /\ ocupado[r].passo # "confirmar"
      BY <2>0, <3>1 DEF Gravar, Processo, EmPasso
    <3> QED BY <3>2
  <2>2. CASE FalharEnvio \/ FalharWebhook
    <3>1. PICK r \in Processos : /\ trava' = Destravada(r) /\ ocupado[r].passo \in Ativos
                                /\ ocupado'[r].passo \in {"fim", "parado"}
      BY <2>0, <2>2 DEF FalharEnvio, FalharWebhook, Duplicada, EmPasso, Ativos, Passos, Livre,
         Processo
    <3>2. q = r
      BY <3>1 DEF Destravada
    <3> QED BY <3>1, <3>2 DEF Ativos
  <2>3. ASSUME NEW e \in Eventos, Recebe(e) PROVE FALSE
    BY <2>3 DEF Recebe, ReceberEco, ReceberAck, ReceberReacao, ReceberEdicao,
       ReceberRevogacao, EdicaoPerdida, Ignorar, Ocupa
  <2>4. ~(Enviar \/ Expirar \/ FecharConversa \/ Ocultar \/ UNCHANGED vars)
    BY DEF Enviar, Expirar, FecharConversa, Ocultar, vars
  <2>5. ~(ConfirmarEnvio \/ ConfirmarWebhook)
    BY DEF ConfirmarEnvio, ConfirmarWebhook
  <2>6. ASSUME NEW e \in Eventos, Colidir(e) PROVE FALSE
    BY <2>6 DEF Colidir
  <2>7. Envio \/ Webhook => ocupado'[q] # ocupado[q]
    BY <2>0, <2>1, <2>2, <2>3, <2>5 DEF Envio, Webhook
  <2> QED BY <2>4, <2>6, <2>7 DEF Next
<1> QED BY <1>1, InvarianteDasMensagens, PTL DEF Spec, TravaDeQuemPegou

================================================================================
