----------------------------- MODULE VinculosProofs -----------------------------
(****************************************************************************)
(* Proofs about Vinculos: the registration of channels, chatbots and         *)
(* departments keeps together whatever requests run at the same time.  And   *)
(* at the end the scan for inactivity of a channel: nobody who was followed  *)
(* is closed unwarned, or warned twice.                                      *)
(****************************************************************************)
EXTENDS Vinculos, Inatividade, FiniteSetTheorems, TLAPS

--------------------------------------------------------------------------------
(* Types *)

\* The default that validaSetorPadrao accepts is one of the departments it looked at.
LEMMA PadraoEntreOsOlhados ==
    ASSUME TypeOKVinculos, NEW c \in Canais, NEW setores \in {SemValor} \cup SUBSET Setores,
           NEW padrao \in {SemValor} \cup Setores, Padrao(c, setores, padrao).ok
    PROVE  Padrao(c, setores, padrao).valor \in Considerados(c, setores) \cup {SemValor}
<1> DEFINE ids == Considerados(c, setores)
           querido == IF padrao = SemValor THEN vinculo[c].padrao ELSE padrao
<1>1. CASE ids = {}
  BY <1>1 DEF Padrao
<1>2. CASE ids # {} /\ ids \cap extintos # {}
  BY <1>2 DEF Padrao
<1>3. CASE ids # {} /\ ids \cap extintos = {} /\ Cardinality(ids) = 1
  BY <1>3 DEF Padrao
<1>4. CASE ids # {} /\ ids \cap extintos = {} /\ Cardinality(ids) # 1
  BY <1>4 DEF Padrao
<1> QED BY <1>1, <1>2, <1>3, <1>4

LEMMA VersoesFinitas ==
    ASSUME TypeOKVinculos, NEW b \in Bots
    PROVE  IsFiniteSet(VersoesDe(b))
BY FS_Subset DEF VersoesDe, TypeOKVinculos

LEMMA LivreEhRequisicao == SemRequisicao \in Requisicao
BY DEF Requisicao

LEMMA TipoInicialDosVinculos == InitVinculos => TypeOKVinculos
<1> SUFFICES ASSUME InitVinculos PROVE TypeOKVinculos
  OBVIOUS
<1>1. vinculo \in [Canais -> [setores : SUBSET Setores, padrao : Setores \cup {SemValor},
                              bots : SUBSET Bots]]
  BY DEF InitVinculos
<1>2. bot \in [Bots -> LinhaDoBot]
  BY DEF InitVinculos, LinhaDoBot
<1>3. req \in [Requisicoes -> Requisicao]
  BY LivreEhRequisicao DEF InitVinculos
<1>4. versoes = {} /\ extintos = {} /\ corrida = {} /\ descuido = {} /\ feitas = 0
  BY DEF InitVinculos
<1>5. feitas \in 0 .. MaxRequisicoes
  BY <1>4, VinculosAssumption
<1>6. IsFiniteSet(versoes)
  BY <1>4, FS_EmptySet
<1>7. /\ extintos \subseteq Setores /\ corrida \subseteq Canais /\ descuido \subseteq Canais
      /\ versoes \in SUBSET [bot : Bots, numero : Nat \ {0}, grafo : Grafos]
  BY <1>4
<1> QED BY <1>1, <1>2, <1>3, <1>5, <1>6, <1>7 DEF TypeOKVinculos

LEMMA TipoPreservadoDosVinculos ==
    TypeOKVinculos /\ [NextVinculos]_varsVinculos => TypeOKVinculos'
<1> SUFFICES ASSUME TypeOKVinculos, [NextVinculos]_varsVinculos PROVE TypeOKVinculos'
  OBVIOUS
<1>0. feitas < MaxRequisicoes => feitas + 1 \in 0 .. MaxRequisicoes
  BY VinculosAssumption DEF TypeOKVinculos
<1>1. ASSUME NEW r \in Requisicoes, NEW c \in Canais, NEW setores \in {SemValor} \cup SUBSET Setores,
             NEW padrao \in {SemValor} \cup Setores, NEW e \in Escolhas,
             PedeCanal(r, c, setores, padrao, e.tipos, e.liga)
      PROVE  TypeOKVinculos'
  <2>1. e.tipos \in SUBSET {"entrada", "saida"} /\ e.liga \in SUBSET Bots
    BY DEF Escolhas, TipoDe
  <2>2. Considerados(c, setores) \in SUBSET Setores
    BY DEF Considerados, TypeOKVinculos
  <2>3. Padrao(c, setores, padrao).valor \in Setores \cup {SemValor}
    BY <1>1, <2>2, PadraoEntreOsOlhados DEF PedeCanal
  <2>4. req'[r] \in Requisicao
    BY <1>1, <2>1, <2>2, <2>3 DEF PedeCanal, Requisicao, Considerados, TypeOKVinculos
  <2> QED BY <1>0, <1>1, <2>4 DEF PedeCanal, TypeOKVinculos
<1>2. ASSUME NEW r \in Requisicoes, GravaCanal(r) PROVE TypeOKVinculos'
  <2> DEFINE q == req[r]
  <2>1. q \in [op : {"pede_canal"}, canal : Canais, setores : {SemValor} \cup SUBSET Setores,
          padrao : Setores \cup {SemValor}, tipos : SUBSET {"entrada", "saida"},
          liga : SUBSET Bots, olhados : SUBSET Setores]
    BY <1>2 DEF GravaCanal, Requisicao, TypeOKVinculos, SemRequisicao
  <2>2. req'[r] \in Requisicao
    BY <1>2, <2>1, LivreEhRequisicao DEF GravaCanal, Requisicao, TypeOKVinculos
  <2> QED BY <1>2, <2>2 DEF GravaCanal, TypeOKVinculos
<1>3. ASSUME NEW r \in Requisicoes, ConfirmaCanal(r) PROVE TypeOKVinculos'
  <2> DEFINE q == req[r]
  <2>1. q \in [op : {"grava_canal"}, canal : Canais, setores : SUBSET Setores, troca : BOOLEAN,
          padrao : Setores \cup {SemValor}, olhados : SUBSET Setores, novos : SUBSET Bots,
          apagados : SUBSET Bots]
    BY <1>3 DEF ConfirmaCanal, Requisicao, TypeOKVinculos, SemRequisicao
  <2>2. vinculo'[q.canal] \in [setores : SUBSET Setores, padrao : Setores \cup {SemValor},
                               bots : SUBSET Bots]
    BY <1>3, <2>1 DEF ConfirmaCanal, TypeOKVinculos
  <2> QED BY <1>3, <2>1, <2>2, LivreEhRequisicao DEF ConfirmaCanal, TypeOKVinculos
<1>4. ASSUME NEW r \in Requisicoes, NEW b \in Bots, Publica(r, b) PROVE TypeOKVinculos'
  <2>1. ProximaVersao(b) \in Nat \ {0}
    BY VersoesFinitas, FS_CardinalityType DEF ProximaVersao
  <2>2. req'[r] \in Requisicao
    BY <1>4, <2>1 DEF Publica, Requisicao, TypeOKVinculos, LinhaDoBot
  <2> QED BY <1>0, <1>4, <2>2 DEF Publica, TypeOKVinculos
<1>5. ASSUME NEW r \in Requisicoes, NEW b \in Bots, NEW ativo \in BOOLEAN,
             PedeEdicao(r, b, ativo)
      PROVE  TypeOKVinculos'
  <2>1. req'[r] \in Requisicao
    BY <1>5 DEF PedeEdicao, Requisicao, TypeOKVinculos
  <2> QED BY <1>0, <1>5, <2>1 DEF PedeEdicao, TypeOKVinculos
<1>6. ASSUME NEW r \in Requisicoes, ConfirmaPublicacao(r) PROVE TypeOKVinculos'
  <2> DEFINE q == req[r]
  <2>1. q \in [op : {"publica"}, bot : Bots, grafo : Grafos, numero : Nat \ {0}]
    BY <1>6 DEF ConfirmaPublicacao, Requisicao, TypeOKVinculos, SemRequisicao
  <2>2. bot' \in [Bots -> LinhaDoBot]
    BY <1>6, <2>1 DEF ConfirmaPublicacao, TypeOKVinculos, LinhaDoBot
  <2>3. IsFiniteSet(versoes')
    <3>1. PICK v : versoes' = versoes \cup {v}
      BY <1>6 DEF ConfirmaPublicacao
    <3> QED BY <3>1, FS_AddElement DEF TypeOKVinculos
  <2>4. versoes' \in SUBSET [bot : Bots, numero : Nat \ {0}, grafo : Grafos]
    BY <1>6, <2>1 DEF ConfirmaPublicacao, TypeOKVinculos
  <2> QED BY <1>6, <2>2, <2>3, <2>4, LivreEhRequisicao DEF ConfirmaPublicacao, TypeOKVinculos
<1>7. ASSUME NEW r \in Requisicoes, ConfirmaEdicao(r) PROVE TypeOKVinculos'
  <2> DEFINE q == req[r]
  <2>1. q \in [op : {"edita"}, bot : Bots, lido : LinhaDoBot, ativo : BOOLEAN]
    BY <1>7 DEF ConfirmaEdicao, Requisicao, TypeOKVinculos, SemRequisicao
  <2>2. bot' \in [Bots -> LinhaDoBot]
    BY <1>7, <2>1 DEF ConfirmaEdicao, SoOCampo, TypeOKVinculos, LinhaDoBot
  <2> QED BY <1>7, <2>2, LivreEhRequisicao DEF ConfirmaEdicao, TypeOKVinculos
<1>8. ASSUME NEW s \in Setores, RemoveSetor(s) PROVE TypeOKVinculos'
  BY <1>0, <1>8 DEF RemoveSetor, TypeOKVinculos
<1>9. ASSUME NEW b \in Bots, SalvaFluxo(b) \/ Despublica(b) \/ RemoveBot(b)
      PROVE  TypeOKVinculos'
  <2>1. \E novo \in LinhaDoBot : MudaBot(b, novo)
    BY <1>9 DEF SalvaFluxo, Despublica, RemoveBot, TypeOKVinculos, LinhaDoBot
  <2> QED BY <1>0, <2>1 DEF MudaBot, TypeOKVinculos
<1>10. CASE UNCHANGED varsVinculos
  BY <1>10 DEF varsVinculos, TypeOKVinculos
<1> QED BY <1>1, <1>2, <1>3, <1>4, <1>5, <1>6, <1>7, <1>8, <1>9, <1>10 DEF NextVinculos

\* The state keeps its type whatever requests meet, and a chatbot's numbers stay positive.
THEOREM TipoDosVinculos == SpecVinculos => []TypeOKVinculos
BY TipoInicialDosVinculos, TipoPreservadoDosVinculos, PTL DEF SpecVinculos

--------------------------------------------------------------------------------
(* The inductive invariant *)

Grava(r) == req[r].op = "grava_canal"
Em(r, op) == req[r].op = op

\* Two open transactions never hold the same row.
Travas ==
    /\ \A r, t \in Requisicoes : r # t /\ Grava(r) /\ Grava(t) => req[r].canal # req[t].canal
    /\ \A r, t \in Requisicoes : Grava(r) /\ Em(t, "publica") => req[t].bot \notin req[r].novos
    /\ \A r, t \in Requisicoes :
          r # t /\ Em(r, "publica") /\ Em(t, "publica") => req[r].bot # req[t].bot

\* The versions of a chatbot are numbered without a gap or a repetition, and the number a
\* publication carries is still the next one.
Numeradas ==
    /\ VersaoUnica
    /\ \A v \in versoes : v.numero <= Cardinality(VersoesDe(v.bot))
    /\ \A r \in Requisicoes : Em(r, "publica") => req[r].numero = ProximaVersao(req[r].bot)
    /\ \A b \in Bots : bot[b].vigente # 0 => \E v \in VersoesDe(b) : v.numero = bot[b].vigente

\* What a request about a channel may have read before its transaction.
OsPedidos ==
    \A r \in Requisicoes : Em(r, "pede_canal") =>
        /\ req[r].padrao \in req[r].olhados \cup {SemValor}
        /\ \A b, k \in req[r].liga : TipoDe(b) = TipoDe(k) => b = k
        /\ \A b \in req[r].liga : TipoDe(b) \in req[r].tipos

\* What its transaction keeps true until it commits, by the rows it holds.
EmCursoDe(r) ==
    /\ req[r].padrao \in req[r].olhados \cup {SemValor}
    /\ \A b, k \in req[r].novos : TipoDe(b) = TipoDe(k) => b = k
    /\ \A b \in vinculo[req[r].canal].bots \ req[r].apagados, k \in req[r].novos :
          TipoDe(b) # TipoDe(k)
    /\ ~req[r].troca => req[r].setores = vinculo[req[r].canal].setores
EmCurso == \A r \in Requisicoes : Grava(r) => EmCursoDe(r)

NovosAceitos ==
    \A r \in Requisicoes : Grava(r) =>
        \A b \in req[r].novos :
            /\ ~bot[b].removido
            /\ bot[b].vigente # 0 => GrafoVigente(b).define \subseteq req[r].setores

\* A flow about to be in production fits the channels that have the chatbot.
APublicar ==
    \A r \in Requisicoes : Em(r, "publica") =>
        \A c \in CanaisDe(req[r].bot) \ descuido :
            req[r].grafo.define \cup req[r].grafo.encaminha \subseteq vinculo[c].setores

InvVinculos ==
    /\ TypeOKVinculos
    /\ Travas /\ Numeradas /\ OsPedidos /\ EmCurso /\ NovosAceitos /\ APublicar
    /\ CanalCoerente /\ SetorForaSoPorDescuido

LEMMA InvInicialDosVinculos == InitVinculos => InvVinculos
<1> SUFFICES ASSUME InitVinculos PROVE InvVinculos
  OBVIOUS
<1>1. /\ versoes = {} /\ \A r \in Requisicoes : req[r].op = "nenhuma"
      /\ \A b \in Bots : bot[b].vigente = 0
      /\ \A c \in Canais : /\ vinculo[c].bots = {}
                           /\ vinculo[c].padrao \in vinculo[c].setores \cup {SemValor}
  BY DEF InitVinculos, SemRequisicao
<1>2. Travas /\ OsPedidos /\ EmCurso /\ NovosAceitos /\ APublicar
  BY <1>1 DEF Travas, OsPedidos, EmCurso, NovosAceitos, APublicar, Grava, Em
<1>3. Numeradas
  BY <1>1 DEF Numeradas, VersaoUnica, Em
<1>4. CanalCoerente /\ SetorForaSoPorDescuido
  BY <1>1 DEF CanalCoerente, UmPorTipo, PadraoForaSoPorCorrida, SetorForaSoPorDescuido
<1> QED BY <1>2, <1>3, <1>4, TipoInicialDosVinculos DEF InvVinculos

\* The version a chatbot has in production is the one with that number.
LEMMA OVigente ==
    ASSUME Numeradas, NEW b \in Bots, NEW v \in VersoesDe(b), v.numero = bot[b].vigente
    PROVE  GrafoVigente(b) = v.grafo
<1>1. \A w \in VersoesDe(b) : w.numero = bot[b].vigente => w = v
  BY DEF Numeradas, VersaoUnica, VersoesDe
<1> QED BY <1>1 DEF GrafoVigente

\* A step that leaves the rows and the versions alone, and turns a request into one that
\* holds no row.
LEMMA SoOPedido ==
    ASSUME InvVinculos, TypeOKVinculos', NEW r \in Requisicoes, NEW x,
           req' = [req EXCEPT ![r] = x], x.op \notin {"grava_canal", "publica"},
           UNCHANGED <<vinculo, bot, versoes, corrida, descuido>>,
           x.op = "pede_canal" =>
             /\ x.padrao \in x.olhados \cup {SemValor}
             /\ \A b, k \in x.liga : TipoDe(b) = TipoDe(k) => b = k
             /\ \A b \in x.liga : TipoDe(b) \in x.tipos
    PROVE  InvVinculos'
<1>1. req'[r] = x /\ \A t \in Requisicoes \ {r} : req'[t] = req[t]
  BY DEF InvVinculos, TypeOKVinculos
<1>2. Travas'
  BY <1>1 DEF InvVinculos, Travas, Grava, Em
<1>3. Numeradas'
  BY SMTT(30), <1>1 DEF InvVinculos, Numeradas, VersaoUnica, VersoesDe, ProximaVersao, Em
<1>4. OsPedidos'
  BY <1>1 DEF InvVinculos, OsPedidos, Em
<1>5. EmCurso'
  BY <1>1 DEF InvVinculos, EmCurso, EmCursoDe, Grava
<1>6. NovosAceitos'
  BY <1>1 DEF InvVinculos, NovosAceitos, Grava, GrafoVigente, VersoesDe
<1>7. APublicar'
  BY <1>1 DEF InvVinculos, APublicar, Em, CanaisDe
<1>8. CanalCoerente' /\ SetorForaSoPorDescuido'
  <2>1. CanalCoerente'
    BY DEF InvVinculos, CanalCoerente, UmPorTipo, PadraoForaSoPorCorrida
  <2>2. SetorForaSoPorDescuido'
    BY DEF InvVinculos, SetorForaSoPorDescuido, GrafoVigente, VersoesDe
  <2> QED BY <2>1, <2>2
<1> QED BY <1>2, <1>3, <1>4, <1>5, <1>6, <1>7, <1>8 DEF InvVinculos

\* The channel's transaction begins.
LEMMA InvAoGravar ==
    ASSUME InvVinculos, TypeOKVinculos', NEW r \in Requisicoes, GravaCanal(r)
    PROVE  InvVinculos'
<1> DEFINE q == req[r]
           setores == IF q.setores = SemValor THEN vinculo[q.canal].setores ELSE q.setores \ extintos
           x == [op |-> "grava_canal", canal |-> q.canal, setores |-> setores,
                 troca |-> q.setores # SemValor, padrao |-> q.padrao,
                 olhados |-> q.olhados, novos |-> q.liga,
                 apagados |-> {b \in vinculo[q.canal].bots : TipoDe(b) \in q.tipos}]
<1>1. UNCHANGED <<vinculo, bot, versoes, extintos, corrida, descuido>>
  BY DEF GravaCanal
<1>2. CASE \A b \in q.liga : AceitaBot(b, setores)
  <2>1. req' = [req EXCEPT ![r] = x]
    BY <1>2 DEF GravaCanal
  <2>2. /\ x.op = "grava_canal" /\ x.canal = q.canal /\ x.novos = q.liga /\ x.setores = setores
        /\ x.padrao = q.padrao /\ x.olhados = q.olhados /\ x.troca = (q.setores # SemValor)
        /\ x.apagados = {b \in vinculo[q.canal].bots : TipoDe(b) \in q.tipos}
    OBVIOUS
  <2> HIDE DEF x
  <2>3. req'[r] = x /\ \A t \in Requisicoes \ {r} : req'[t] = req[t]
    BY <2>1 DEF InvVinculos, TypeOKVinculos
  <2>4. q.op = "pede_canal"
    BY DEF GravaCanal
  <2>5. Travas'
    <3>1. \A t \in Requisicoes : Grava(t) => req[t].canal # q.canal
      BY DEF GravaCanal, CanalLivre, Grava
    <3>2. \A t \in Requisicoes : Em(t, "publica") => req[t].bot \notin q.liga
      BY DEF GravaCanal, Publicando, Em
    <3> QED BY <2>2, <2>3, <2>4, <3>1, <3>2 DEF InvVinculos, Travas, Grava, Em
  <2>6. Numeradas'
    <3>1. \A b : VersoesDe(b)' = VersoesDe(b) /\ ProximaVersao(b)' = ProximaVersao(b)
      BY <1>1 DEF VersoesDe, ProximaVersao
    <3>2. \A t \in Requisicoes : Em(t, "publica")' => Em(t, "publica") /\ req'[t] = req[t]
      BY <2>2, <2>3 DEF Em
    <3>3. Numeradas
      BY DEF InvVinculos
    <3> QED BY <1>1, <3>1, <3>2, <3>3 DEF Numeradas, VersaoUnica
  <2>7. OsPedidos'
    BY <2>2, <2>3 DEF InvVinculos, OsPedidos, Em
  <2>8. EmCurso'
    <3> SUFFICES ASSUME NEW t \in Requisicoes, Grava(t)'
                 PROVE  EmCursoDe(t)'
      BY DEF EmCurso
    <3>1. CASE t # r
      BY <1>1, <2>3, <3>1 DEF InvVinculos, EmCurso, EmCursoDe, Grava
    <3>2. CASE t = r
      <4>1. x.padrao \in x.olhados \cup {SemValor} /\ \A b, k \in x.novos : TipoDe(b) = TipoDe(k) => b = k
        BY <2>2, <2>4 DEF InvVinculos, OsPedidos, Em
      <4>2. \A b \in vinculo[x.canal].bots \ x.apagados, k \in x.novos : TipoDe(b) # TipoDe(k)
        BY <2>2, <2>4 DEF InvVinculos, OsPedidos, Em
      <4>3. ~x.troca => x.setores = vinculo[x.canal].setores
        BY <2>2
      <4> QED BY <1>1, <2>3, <3>2, <4>1, <4>2, <4>3 DEF EmCursoDe
    <3> QED BY <3>1, <3>2
  <2>9. NovosAceitos'
    BY <1>1, <1>2, <2>2, <2>3
       DEF InvVinculos, NovosAceitos, Grava, GrafoVigente, VersoesDe, AceitaBot
  <2>10. APublicar'
    BY <1>1, <2>2, <2>3 DEF InvVinculos, APublicar, Em, CanaisDe
  <2>11. CanalCoerente' /\ SetorForaSoPorDescuido'
    BY <1>1 DEF InvVinculos, CanalCoerente, UmPorTipo, PadraoForaSoPorCorrida,
       SetorForaSoPorDescuido, GrafoVigente, VersoesDe
  <2> QED BY <2>5, <2>6, <2>7, <2>8, <2>9, <2>10, <2>11 DEF InvVinculos
<1>3. CASE ~\A b \in q.liga : AceitaBot(b, setores)
  <2>1. req' = [req EXCEPT ![r] = SemRequisicao]
    BY <1>3 DEF GravaCanal
  <2> QED BY <1>1, <2>1, SoOPedido DEF SemRequisicao
<1> QED BY <1>2, <1>3

\* The channel's transaction commits.
LEMMA InvAoConfirmarCanal ==
    ASSUME InvVinculos, TypeOKVinculos', NEW r \in Requisicoes, ConfirmaCanal(r)
    PROVE  InvVinculos'
<1> DEFINE q == req[r]
           c == q.canal
<1>1. /\ Grava(r) /\ c \in Canais /\ UNCHANGED <<bot, versoes>>
      /\ q.novos \in SUBSET Bots
  BY DEF ConfirmaCanal, Grava, InvVinculos, TypeOKVinculos, Requisicao, SemRequisicao
<1>2. /\ req'[r].op = "nenhuma" /\ \A t \in Requisicoes \ {r} : req'[t] = req[t]
      /\ vinculo'[c].setores = q.setores /\ vinculo'[c].padrao = q.padrao
      /\ vinculo'[c].bots = (vinculo[c].bots \ q.apagados) \cup q.novos
      /\ \A k \in Canais \ {c} : vinculo'[k] = vinculo[k]
  BY <1>1 DEF ConfirmaCanal, InvVinculos, TypeOKVinculos, SemRequisicao
<1>3. /\ q.setores # q.olhados => c \in corrida'
      /\ \A k \in Canais \ {c} : (k \in corrida' <=> k \in corrida) /\ (k \in descuido' <=> k \in descuido)
  BY DEF ConfirmaCanal
<1>4. c \notin descuido' =>
        /\ q.troca => vinculo'[c].bots = q.novos
        /\ ~q.troca => c \notin descuido
        /\ \A b \in q.novos : bot[b].vigente # 0 => GrafoVigente(b).encaminha \subseteq q.setores
  BY DEF ConfirmaCanal
<1>5. Travas'
  BY <1>2 DEF InvVinculos, Travas, Grava, Em
<1>6. Numeradas'
  BY <1>1, <1>2 DEF InvVinculos, Numeradas, VersaoUnica, VersoesDe, ProximaVersao, Em
<1>7. OsPedidos'
  BY <1>2 DEF InvVinculos, OsPedidos, Em
<1>8. EmCurso'
  <2> SUFFICES ASSUME NEW t \in Requisicoes, Grava(t)'
               PROVE  EmCursoDe(t)'
    BY DEF EmCurso
  <2>1. t # r /\ req'[t] = req[t] /\ Grava(t)
    BY <1>2 DEF Grava
  <2>2. req[t].canal # c
    BY <1>1, <2>1 DEF InvVinculos, Travas
  <2>3. req[t].canal \in Canais
    BY <2>1 DEF Grava, InvVinculos, TypeOKVinculos, Requisicao, SemRequisicao
  <2> QED BY <1>2, <2>1, <2>2, <2>3 DEF InvVinculos, EmCurso, EmCursoDe
<1>9. NovosAceitos'
  BY <1>1, <1>2 DEF InvVinculos, NovosAceitos, Grava, GrafoVigente, VersoesDe
<1>10. APublicar'
  <2> SUFFICES ASSUME NEW t \in Requisicoes, Em(t, "publica")',
                      NEW k \in (CanaisDe(req[t].bot) \ descuido)'
               PROVE  (req[t].grafo.define \cup req[t].grafo.encaminha)' \subseteq vinculo'[k].setores
    BY DEF APublicar
  <2>1. t # r /\ req'[t] = req[t] /\ Em(t, "publica") /\ req[t].bot \notin q.novos
    BY <1>1, <1>2 DEF Em, InvVinculos, Travas
  <2>2. CASE k # c
    BY <1>2, <1>3, <2>1, <2>2 DEF InvVinculos, APublicar, CanaisDe
  <2>3. CASE k = c
    <3>1. ~q.troca /\ c \notin descuido /\ req[t].bot \in vinculo[c].bots
      BY <1>1, <1>2, <1>4, <2>1, <2>3 DEF CanaisDe
    <3>2. q.setores = vinculo[c].setores
      BY <1>1, <3>1 DEF InvVinculos, EmCurso, EmCursoDe
    <3> QED BY <1>1, <1>2, <2>1, <2>3, <3>1, <3>2 DEF InvVinculos, APublicar, CanaisDe
  <2> QED BY <2>2, <2>3
<1>11. CanalCoerente'
  <2>1. UmPorTipo'
    <3> SUFFICES ASSUME NEW k \in Canais, NEW b1 \in vinculo'[k].bots, NEW b2 \in vinculo'[k].bots,
                        TipoDe(b1) = TipoDe(b2)
                 PROVE  b1 = b2
      BY DEF UmPorTipo
    <3>1. CASE k # c
      BY <1>2, <3>1 DEF InvVinculos, CanalCoerente, UmPorTipo
    <3>2. CASE k = c
      BY <1>1, <1>2, <3>2 DEF InvVinculos, CanalCoerente, UmPorTipo, EmCurso, EmCursoDe
    <3> QED BY <3>1, <3>2
  <2>2. PadraoForaSoPorCorrida'
    BY <1>1, <1>2, <1>3 DEF InvVinculos, CanalCoerente, PadraoForaSoPorCorrida, EmCurso, EmCursoDe
  <2> QED BY <2>1, <2>2 DEF CanalCoerente
<1>12. SetorForaSoPorDescuido'
  <2> SUFFICES ASSUME NEW k \in Canais \ descuido', NEW b \in vinculo'[k].bots,
                      ~bot[b].removido, bot[b].vigente # 0
               PROVE  GrafoVigente(b).define \cup GrafoVigente(b).encaminha \subseteq vinculo'[k].setores
    BY <1>1 DEF SetorForaSoPorDescuido, GrafoVigente, VersoesDe
  <2>1. CASE k # c
    BY <1>2, <1>3, <2>1 DEF InvVinculos, SetorForaSoPorDescuido
  <2>2. CASE k = c /\ b \in q.novos
    BY <1>1, <1>2, <1>4, <2>2 DEF InvVinculos, NovosAceitos
  <2>3. CASE k = c /\ b \notin q.novos
    <3>1. ~q.troca /\ c \notin descuido /\ b \in vinculo[c].bots
      BY <1>2, <1>4, <2>3
    <3>2. q.setores = vinculo[c].setores
      BY <1>1, <3>1 DEF InvVinculos, EmCurso, EmCursoDe
    <3> QED BY <1>1, <1>2, <2>3, <3>1, <3>2 DEF InvVinculos, SetorForaSoPorDescuido
  <2> QED BY <2>1, <2>2, <2>3
<1> QED BY <1>5, <1>6, <1>7, <1>8, <1>9, <1>10, <1>11, <1>12 DEF InvVinculos

\* A publication begins: the chatbot's row is locked and its draft checked.
LEMMA InvAoPublicar ==
    ASSUME InvVinculos, TypeOKVinculos', NEW r \in Requisicoes, NEW b \in Bots, Publica(r, b)
    PROVE  InvVinculos'
<1> DEFINE g == bot[b].rascunho
           x == [op |-> "publica", bot |-> b, grafo |-> g, numero |-> ProximaVersao(b)]
<1>1. /\ req[r].op = "nenhuma" /\ req' = [req EXCEPT ![r] = x]
      /\ UNCHANGED <<vinculo, bot, versoes, extintos, corrida, descuido>>
      /\ BotLivre(b) /\ Publicavel(b, g)
  BY DEF Publica, SemRequisicao
<1>2. /\ req'[r] = x /\ \A t \in Requisicoes \ {r} : req'[t] = req[t]
  BY <1>1 DEF InvVinculos, TypeOKVinculos
<1>3. x.op = "publica" /\ x.bot = b /\ x.grafo = g /\ x.numero = ProximaVersao(b)
  OBVIOUS
<1> HIDE DEF x
<1>4. Travas'
  <2>1. \A t \in Requisicoes : Grava(t) => b \notin req[t].novos
    BY <1>1 DEF BotLivre, Compartilha, Grava
  <2>2. \A t \in Requisicoes : Em(t, "publica") => req[t].bot # b
    BY <1>1 DEF BotLivre, Publicando, Em
  <2> QED BY <1>2, <1>3, <2>1, <2>2 DEF InvVinculos, Travas, Grava, Em
<1>5. Numeradas'
  <2>1. \A k \in Bots : VersoesDe(k)' = VersoesDe(k)
    BY <1>1 DEF VersoesDe
  <2>2. ASSUME NEW t \in Requisicoes, Em(t, "publica")'
        PROVE  req'[t].numero = ProximaVersao(req[t].bot)'
    <3>1. CASE t = r
      BY <1>2, <1>3, <2>1, <3>1 DEF ProximaVersao
    <3>2. CASE t # r
      BY <1>1, <1>2, <2>2, <3>2 DEF InvVinculos, Numeradas, ProximaVersao, VersoesDe, Em
    <3> QED BY <3>1, <3>2
  <2>3. VersaoUnica' /\ \A v \in versoes' : v.numero <= Cardinality(VersoesDe(v.bot)')
    BY <1>1 DEF InvVinculos, Numeradas, VersaoUnica, VersoesDe
  <2>4. \A k \in Bots : bot'[k].vigente # 0 => \E v \in VersoesDe(k)' : v.numero = bot'[k].vigente
    BY <1>1, <2>1 DEF InvVinculos, Numeradas
  <2> QED BY <2>2, <2>3, <2>4 DEF Numeradas
<1>6. OsPedidos' /\ EmCurso'
  BY <1>1, <1>2, <1>3 DEF InvVinculos, OsPedidos, EmCurso, EmCursoDe, Em, Grava
<1>7. NovosAceitos'
  BY <1>1, <1>2, <1>3 DEF InvVinculos, NovosAceitos, Grava, GrafoVigente, VersoesDe
<1>8. APublicar'
  <2>1. \A c \in CanaisDe(b) : g.define \cup g.encaminha \subseteq vinculo[c].setores
    BY <1>1 DEF Publicavel
  <2> QED BY <1>1, <1>2, <1>3, <2>1 DEF InvVinculos, APublicar, Em, CanaisDe
<1>9. CanalCoerente' /\ SetorForaSoPorDescuido'
  BY <1>1 DEF InvVinculos, CanalCoerente, UmPorTipo, PadraoForaSoPorCorrida,
     SetorForaSoPorDescuido, GrafoVigente, VersoesDe
<1> QED BY <1>4, <1>5, <1>6, <1>7, <1>8, <1>9 DEF InvVinculos

\* It commits: one more version, and the chatbot points to it.
LEMMA InvAoConfirmarPublicacao ==
    ASSUME InvVinculos, TypeOKVinculos', NEW r \in Requisicoes, ConfirmaPublicacao(r)
    PROVE  InvVinculos'
<1> DEFINE q == req[r]
<1>0. PICK k \in Bots : k = q.bot
  BY DEF ConfirmaPublicacao, InvVinculos, TypeOKVinculos, Requisicao, SemRequisicao
<1>a. PICK n : n = Cardinality(VersoesDe(k))
  OBVIOUS
<1>b. PICK v : v = [bot |-> k, numero |-> q.numero, grafo |-> q.grafo]
  OBVIOUS
<1>1. /\ Em(r, "publica") /\ q.numero \in Nat \ {0}
      /\ UNCHANGED <<vinculo, extintos, corrida, descuido>>
      /\ versoes' = versoes \cup {v}
  BY <1>0, <1>b DEF ConfirmaPublicacao, Em, InvVinculos, TypeOKVinculos, Requisicao, SemRequisicao
<1>2. /\ req'[r].op = "nenhuma" /\ \A t \in Requisicoes \ {r} : req'[t] = req[t]
      /\ bot'[k].vigente = q.numero /\ bot'[k].removido = bot[k].removido
      /\ \A b \in Bots \ {k} : bot'[b] = bot[b]
  BY <1>0, <1>1 DEF ConfirmaPublicacao, InvVinculos, TypeOKVinculos, LinhaDoBot, SemRequisicao
<1>3. v.bot = k /\ v.numero = q.numero /\ v.grafo = q.grafo
  BY <1>b
<1>4. n \in Nat /\ q.numero = n + 1
  BY <1>0, <1>a, <1>1, VersoesFinitas, FS_CardinalityType DEF InvVinculos, Numeradas, ProximaVersao
<1>5. VersoesDe(k)' = VersoesDe(k) \cup {v} /\ \A b \in Bots \ {k} : VersoesDe(b)' = VersoesDe(b)
  BY <1>1, <1>3 DEF VersoesDe
<1>6. \A w \in VersoesDe(k) : w.numero \in Nat /\ w.numero <= n
  BY <1>a DEF InvVinculos, Numeradas, VersoesDe, TypeOKVinculos
<1>7. Cardinality(VersoesDe(k)') = n + 1
  <2>1. v \notin VersoesDe(k)
    BY <1>3, <1>4, <1>6
  <2>2. IsFiniteSet(VersoesDe(k))
    BY VersoesFinitas DEF InvVinculos
  <2> QED BY <1>a, <1>5, <2>1, <2>2, FS_AddElement
<1>8. Travas' /\ OsPedidos' /\ EmCurso'
  BY <1>0, <1>1, <1>2 DEF InvVinculos, Travas, OsPedidos, EmCurso, EmCursoDe, Grava, Em
<1>9. Numeradas'
  <2>1. VersaoUnica'
    <3> SUFFICES ASSUME NEW w \in versoes', NEW z \in versoes', w.bot = z.bot, w.numero = z.numero
                 PROVE  w = z
      BY DEF VersaoUnica
    <3>1. CASE w \in versoes /\ z \in versoes
      BY <3>1 DEF InvVinculos, Numeradas, VersaoUnica
    <3>2. \A u \in versoes : u.bot = k => u.numero # n + 1
      BY <1>4, <1>6 DEF VersoesDe
    <3> QED BY <1>1, <1>3, <1>4, <3>1, <3>2
  <2>2. ASSUME NEW w \in versoes' PROVE w.numero <= Cardinality(VersoesDe(w.bot)')
    <3>1. CASE w.bot = k
      BY <1>1, <1>3, <1>4, <1>5, <1>6, <1>7, <3>1 DEF VersoesDe
    <3>2. CASE w.bot # k
      <4>1. w \in versoes /\ w.bot \in Bots
        BY <1>1, <1>3, <3>2 DEF InvVinculos, TypeOKVinculos
      <4> QED BY <1>5, <3>2, <4>1 DEF InvVinculos, Numeradas
    <3> QED BY <3>1, <3>2
  <2>3. ASSUME NEW t \in Requisicoes, Em(t, "publica")'
        PROVE  req'[t].numero = ProximaVersao(req[t].bot)'
    <3>1. t # r /\ req'[t] = req[t] /\ Em(t, "publica") /\ req[t].bot # k
      BY <1>0, <1>1, <1>2, <2>3 DEF Em, InvVinculos, Travas
    <3>2. req[t].bot \in Bots
      BY <3>1 DEF Em, InvVinculos, TypeOKVinculos, Requisicao, SemRequisicao
    <3> QED BY <1>5, <3>1, <3>2 DEF InvVinculos, Numeradas, ProximaVersao
  <2>4. ASSUME NEW b \in Bots, bot'[b].vigente # 0
        PROVE  \E w \in VersoesDe(b)' : w.numero = bot'[b].vigente
    BY <1>2, <1>3, <1>5, <2>4 DEF InvVinculos, Numeradas
  <2> QED BY <2>1, <2>2, <2>3, <2>4 DEF Numeradas
<1>10. GrafoVigente(k)' = q.grafo /\ \A b \in Bots \ {k} : GrafoVigente(b)' = GrafoVigente(b)
  <2>1. \A w \in VersoesDe(k)' : w.numero = bot'[k].vigente => w = v
    BY <1>2, <1>3, <1>4, <1>5, <1>6
  <2>2. v \in VersoesDe(k)' /\ v.numero = bot'[k].vigente
    BY <1>2, <1>3, <1>5
  <2>3. GrafoVigente(k)' = q.grafo
    BY <1>3, <2>1, <2>2 DEF GrafoVigente
  <2>4. ASSUME NEW b \in Bots \ {k} PROVE GrafoVigente(b)' = GrafoVigente(b)
    <3>1. VersoesDe(b)' = VersoesDe(b) /\ bot'[b].vigente = bot[b].vigente
      BY <1>2, <1>5
    <3> QED BY <3>1 DEF GrafoVigente
  <2> QED BY <2>3, <2>4
<1>11. NovosAceitos'
  <2> SUFFICES ASSUME NEW t \in Requisicoes, Grava(t)', NEW b \in req'[t].novos
               PROVE  /\ ~bot'[b].removido
                      /\ bot'[b].vigente # 0 => GrafoVigente(b)'.define \subseteq req'[t].setores
    BY DEF NovosAceitos
  <2>1. t # r /\ req'[t] = req[t] /\ Grava(t)
    BY <1>2 DEF Grava
  <2>2. b # k /\ b \in Bots
    BY <1>0, <1>1, <2>1 DEF InvVinculos, Travas, Grava, TypeOKVinculos, Requisicao, SemRequisicao
  <2> QED BY <1>2, <1>10, <2>1, <2>2 DEF InvVinculos, NovosAceitos
<1>12. APublicar'
  BY <1>1, <1>2 DEF InvVinculos, APublicar, Em, CanaisDe
<1>13. CanalCoerente'
  BY <1>1 DEF InvVinculos, CanalCoerente, UmPorTipo, PadraoForaSoPorCorrida
<1>14. SetorForaSoPorDescuido'
  <2> SUFFICES ASSUME NEW c \in Canais \ descuido, NEW b \in vinculo[c].bots,
                      ~bot'[b].removido, bot'[b].vigente # 0
               PROVE  GrafoVigente(b)'.define \cup GrafoVigente(b)'.encaminha \subseteq vinculo[c].setores
    BY <1>1 DEF SetorForaSoPorDescuido
  <2>1. b \in Bots
    BY DEF InvVinculos, TypeOKVinculos
  <2>2. CASE b = k
    BY <1>0, <1>1, <1>10, <2>2 DEF InvVinculos, APublicar, CanaisDe
  <2>3. CASE b # k
    BY <1>2, <1>10, <2>1, <2>3 DEF InvVinculos, SetorForaSoPorDescuido
  <2> QED BY <2>2, <2>3
<1> QED BY <1>8, <1>9, <1>11, <1>12, <1>13, <1>14 DEF InvVinculos

\* A step that changes a chatbot's row in place: the flow in production stays or is taken
\* out, and nobody removes a chatbot that a channel is being given.
LEMMA SoOBot ==
    ASSUME InvVinculos, TypeOKVinculos', NEW b \in Bots, BotLivre(b),
           UNCHANGED <<vinculo, versoes, corrida, descuido>>,
           \A t \in Requisicoes : req'[t] = req[t] \/ req'[t].op = "nenhuma",
           \A k \in Bots \ {b} : bot'[k] = bot[k],
           bot'[b].vigente \in {0, bot[b].vigente},
           bot[b].removido => bot'[b].removido
    PROVE  InvVinculos'
<1>1. Travas' /\ OsPedidos' /\ EmCurso'
  BY DEF InvVinculos, Travas, OsPedidos, EmCurso, EmCursoDe, Grava, Em
<1>2. Numeradas'
  <2>1. VersaoUnica' /\ \A v \in versoes' : v.numero <= Cardinality(VersoesDe(v.bot)')
    BY DEF InvVinculos, Numeradas, VersaoUnica, VersoesDe
  <2>2. \A t \in Requisicoes : Em(t, "publica")' => req'[t].numero = ProximaVersao(req[t].bot)'
    BY DEF InvVinculos, Numeradas, ProximaVersao, VersoesDe, Em
  <2>3. \A k \in Bots : bot'[k].vigente # 0 => \E v \in VersoesDe(k)' : v.numero = bot'[k].vigente
    BY DEF InvVinculos, Numeradas, VersoesDe
  <2> QED BY <2>1, <2>2, <2>3 DEF Numeradas
<1>3. \A k \in Bots : bot'[k].vigente # 0 =>
        GrafoVigente(k)' = GrafoVigente(k) /\ bot[k].vigente = bot'[k].vigente
  BY DEF GrafoVigente, VersoesDe
<1>4. NovosAceitos'
  <2>1. \A t \in Requisicoes : Grava(t) => b \notin req[t].novos /\ req[t].novos \subseteq Bots
    BY DEF BotLivre, Compartilha, Grava, InvVinculos, TypeOKVinculos, Requisicao, SemRequisicao
  <2> QED BY <1>3, <2>1 DEF InvVinculos, NovosAceitos, Grava
<1>5. APublicar'
  BY DEF InvVinculos, APublicar, Em, CanaisDe
<1>6. CanalCoerente'
  BY DEF InvVinculos, CanalCoerente, UmPorTipo, PadraoForaSoPorCorrida
<1>7. SetorForaSoPorDescuido'
  <2>1. \A c \in Canais : vinculo[c].bots \subseteq Bots
    BY DEF InvVinculos, TypeOKVinculos
  <2> QED BY <1>3, <2>1 DEF InvVinculos, SetorForaSoPorDescuido
<1> QED BY <1>1, <1>2, <1>4, <1>5, <1>6, <1>7 DEF InvVinculos

LEMMA SoMudaOResto ==
    ASSUME InvVinculos, TypeOKVinculos',
           UNCHANGED <<vinculo, bot, versoes, req, corrida, descuido>>
    PROVE  InvVinculos'
<1>1. Travas' /\ OsPedidos' /\ EmCurso' /\ APublicar'
  BY DEF InvVinculos, Travas, OsPedidos, EmCurso, EmCursoDe, APublicar, CanaisDe, Grava, Em
<1>2. Numeradas'
  BY DEF InvVinculos, Numeradas, VersaoUnica, VersoesDe, ProximaVersao, Em
<1>3. NovosAceitos' /\ SetorForaSoPorDescuido'
  BY DEF InvVinculos, NovosAceitos, SetorForaSoPorDescuido, GrafoVigente, VersoesDe, Grava
<1>4. CanalCoerente'
  BY DEF InvVinculos, CanalCoerente, UmPorTipo, PadraoForaSoPorCorrida
<1> QED BY <1>1, <1>2, <1>3, <1>4 DEF InvVinculos

LEMMA InvPreservadaDosVinculos == InvVinculos /\ [NextVinculos]_varsVinculos => InvVinculos'
<1> SUFFICES ASSUME InvVinculos, [NextVinculos]_varsVinculos PROVE InvVinculos'
  OBVIOUS
<1>0. TypeOKVinculos /\ TypeOKVinculos'
  BY TipoPreservadoDosVinculos DEF InvVinculos
<1>1. ASSUME NEW r \in Requisicoes, NEW c \in Canais, NEW setores \in {SemValor} \cup SUBSET Setores,
             NEW padrao \in {SemValor} \cup Setores, NEW e \in Escolhas,
             PedeCanal(r, c, setores, padrao, e.tipos, e.liga)
      PROVE  InvVinculos'
  <2> DEFINE x == [op |-> "pede_canal", canal |-> c, setores |-> setores,
                   padrao |-> Padrao(c, setores, padrao).valor, tipos |-> e.tipos, liga |-> e.liga,
                   olhados |-> Considerados(c, setores)]
  <2>1. req' = [req EXCEPT ![r] = x] /\ UNCHANGED <<vinculo, bot, versoes, corrida, descuido>>
    BY <1>1 DEF PedeCanal, Considerados
  <2>2. /\ \A b, k \in e.liga : b = k
        /\ \A b \in e.liga : TipoDe(b) \in e.tipos
    BY DEF Escolhas
  <2>3. Padrao(c, setores, padrao).valor \in Considerados(c, setores) \cup {SemValor}
    BY <1>0, <1>1, PadraoEntreOsOlhados DEF PedeCanal
  <2>4. /\ x.op = "pede_canal" /\ x.padrao \in x.olhados \cup {SemValor}
        /\ x.liga = e.liga /\ x.tipos = e.tipos
    BY <2>3
  <2> HIDE DEF x
  <2>5. /\ \A b, k \in x.liga : TipoDe(b) = TipoDe(k) => b = k
        /\ \A b \in x.liga : TipoDe(b) \in x.tipos
    BY <2>2, <2>4
  <2> QED BY <1>0, <2>1, <2>4, <2>5, SoOPedido
<1>2. ASSUME NEW r \in Requisicoes, GravaCanal(r) \/ ConfirmaCanal(r) PROVE InvVinculos'
  BY <1>0, <1>2, InvAoGravar, InvAoConfirmarCanal
<1>3. ASSUME NEW r \in Requisicoes, NEW b \in Bots, Publica(r, b) PROVE InvVinculos'
  BY <1>0, <1>3, InvAoPublicar
<1>4. ASSUME NEW r \in Requisicoes, NEW b \in Bots, NEW ativo \in BOOLEAN, PedeEdicao(r, b, ativo)
      PROVE  InvVinculos'
  <2> DEFINE x == [op |-> "edita", bot |-> b, lido |-> bot[b], ativo |-> ativo]
  <2>1. req' = [req EXCEPT ![r] = x] /\ UNCHANGED <<vinculo, bot, versoes, corrida, descuido>>
    BY <1>4 DEF PedeEdicao
  <2>2. x.op = "edita"
    OBVIOUS
  <2> HIDE DEF x
  <2> QED BY <1>0, <2>1, <2>2, SoOPedido
<1>5. ASSUME NEW r \in Requisicoes, ConfirmaPublicacao(r) PROVE InvVinculos'
  BY <1>0, <1>5, InvAoConfirmarPublicacao
<1>6. ASSUME NEW r \in Requisicoes, ConfirmaEdicao(r) PROVE InvVinculos'
  <2>1. req[r].bot \in Bots
    BY <1>0, <1>6 DEF ConfirmaEdicao, TypeOKVinculos, Requisicao, SemRequisicao
  <2>2. /\ bot'[req[r].bot].vigente = bot[req[r].bot].vigente
        /\ bot'[req[r].bot].removido = bot[req[r].bot].removido
        /\ \A k \in Bots \ {req[r].bot} : bot'[k] = bot[k]
        /\ \A t \in Requisicoes : req'[t] = req[t] \/ req'[t].op = "nenhuma"
    BY <1>0, <1>6, <2>1 DEF ConfirmaEdicao, SoOCampo, TypeOKVinculos, LinhaDoBot, SemRequisicao
  <2> QED BY <1>0, <1>6, <2>1, <2>2, SoOBot DEF ConfirmaEdicao
<1>7. ASSUME NEW s \in Setores, RemoveSetor(s) PROVE InvVinculos'
  <2>1. UNCHANGED <<vinculo, bot, versoes, req, corrida, descuido>>
    BY <1>7 DEF RemoveSetor
  <2> QED BY <1>0, <2>1, SoMudaOResto
<1>8. ASSUME NEW b \in Bots, SalvaFluxo(b) \/ Despublica(b) \/ RemoveBot(b) PROVE InvVinculos'
  <2>1. /\ bot'[b].vigente \in {0, bot[b].vigente}
        /\ bot[b].removido => bot'[b].removido
        /\ \A k \in Bots \ {b} : bot'[k] = bot[k]
    BY <1>0, <1>8 DEF SalvaFluxo, Despublica, RemoveBot, MudaBot, TypeOKVinculos, LinhaDoBot
  <2>2. BotLivre(b) /\ UNCHANGED <<vinculo, versoes, req, corrida, descuido>>
    BY <1>8 DEF SalvaFluxo, Despublica, RemoveBot, MudaBot
  <2> QED BY <1>0, <2>1, <2>2, SoOBot
<1>9. CASE UNCHANGED varsVinculos
  BY <1>0, <1>9, SoMudaOResto DEF varsVinculos
<1> QED BY <1>1, <1>2, <1>3, <1>4, <1>5, <1>6, <1>7, <1>8, <1>9 DEF NextVinculos

LEMMA InvSempreNosVinculos == SpecVinculos => []InvVinculos
BY InvInicialDosVinculos, InvPreservadaDosVinculos, PTL DEF SpecVinculos

--------------------------------------------------------------------------------
(* The properties *)

\* A channel never has two chatbots of a type, and its default department is one of its
\* own unless it was chosen among others: what the FOR UPDATE of the channel's row buys.
THEOREM CanalSempreCoerente == SpecVinculos => []CanalCoerente
<1>1. InvVinculos => CanalCoerente
  BY DEF InvVinculos
<1> QED BY <1>1, InvSempreNosVinculos, PTL

\* A flow in production names departments of the channels it answers in, but for the two
\* changes nobody checks, whatever publications and changes of channels are open at once.
THEOREM SetorSempreDoCanal == SpecVinculos => []SetorForaSoPorDescuido
<1>1. InvVinculos => SetorForaSoPorDescuido
  BY DEF InvVinculos
<1> QED BY <1>1, InvSempreNosVinculos, PTL

\* A version's number says one flow for ever.
THEOREM VersaoSempreUnica == SpecVinculos => []VersaoUnica
<1>1. InvVinculos => VersaoUnica
  BY DEF InvVinculos, Numeradas
<1> QED BY <1>1, InvSempreNosVinculos, PTL

\* What is in production changes by a publication or a request to take it out, and an
\* edition that read the chatbot before never undoes one.
THEOREM PonteiroSoDaPublicacao == SpecVinculos => PonteiroSoPorPublicacao
<1> DEFINE Muda == \A b \in Bots : bot'[b].vigente # bot[b].vigente =>
          \/ bot'[b].vigente = 0 /\ req' = req
          \/ \E r \in Requisicoes : /\ req[r].op = "publica" /\ req[r].bot = b
                                     /\ req'[r] = SemRequisicao
                                     /\ bot'[b].vigente = req[r].numero
<1>1. TypeOKVinculos /\ [NextVinculos]_varsVinculos => [Muda]_varsVinculos
  <2> SUFFICES ASSUME TypeOKVinculos, NextVinculos PROVE Muda
    OBVIOUS
  <2>1. ASSUME NEW r \in Requisicoes,
               GravaCanal(r) \/ ConfirmaCanal(r) \/ (\E b \in Bots : Publica(r, b))
        PROVE  Muda
    BY <2>1 DEF GravaCanal, ConfirmaCanal, Publica
  <2>2. ASSUME NEW r \in Requisicoes, NEW b \in Bots, NEW ativo \in BOOLEAN, PedeEdicao(r, b, ativo)
        PROVE  Muda
    BY <2>2 DEF PedeEdicao
  <2>3. ASSUME NEW r \in Requisicoes, NEW c \in Canais, NEW setores, NEW padrao, NEW e,
               PedeCanal(r, c, setores, padrao, e.tipos, e.liga)
        PROVE  Muda
    BY <2>3 DEF PedeCanal
  <2>4. ASSUME NEW r \in Requisicoes, ConfirmaPublicacao(r) PROVE Muda
    <3>1. req[r].op = "publica" /\ req[r].bot \in Bots
      BY <2>4 DEF ConfirmaPublicacao, TypeOKVinculos, Requisicao, SemRequisicao
    <3>2. /\ req'[r] = SemRequisicao
          /\ bot'[req[r].bot].vigente = req[r].numero
          /\ \A k \in Bots \ {req[r].bot} : bot'[k] = bot[k]
      BY <2>4, <3>1 DEF ConfirmaPublicacao, TypeOKVinculos, LinhaDoBot
    <3> QED BY <3>1, <3>2
  <2>5. ASSUME NEW r \in Requisicoes, ConfirmaEdicao(r) PROVE Muda
    <3>1. req[r].bot \in Bots
      BY <2>5 DEF ConfirmaEdicao, TypeOKVinculos, Requisicao, SemRequisicao
    <3> QED BY <2>5, <3>1 DEF ConfirmaEdicao, SoOCampo, TypeOKVinculos, LinhaDoBot
  <2>6. ASSUME NEW s \in Setores, RemoveSetor(s) PROVE Muda
    BY <2>6 DEF RemoveSetor
  <2>7. ASSUME NEW b \in Bots, SalvaFluxo(b) \/ Despublica(b) \/ RemoveBot(b) PROVE Muda
    <3>1. /\ bot'[b].vigente \in {0, bot[b].vigente} /\ req' = req
          /\ \A k \in Bots \ {b} : bot'[k] = bot[k]
      BY <2>7 DEF SalvaFluxo, Despublica, RemoveBot, MudaBot, TypeOKVinculos, LinhaDoBot
    <3> QED BY <3>1
  <2> QED BY <2>1, <2>2, <2>3, <2>4, <2>5, <2>6, <2>7 DEF NextVinculos
<1> QED BY <1>1, TipoDosVinculos, PTL DEF SpecVinculos, PonteiroSoPorPublicacao

\* A removed chatbot is never given to a channel: the row shared by the channel's
\* transaction makes the removal wait for its end.
THEOREM SoVinculaBotVivo == SpecVinculos => SoVinculaVivo
<1> DEFINE Vivo == \A c \in Canais : \A b \in vinculo'[c].bots \ vinculo[c].bots : ~bot[b].removido
<1>1. InvVinculos /\ [NextVinculos]_varsVinculos => [Vivo]_varsVinculos
  <2> SUFFICES ASSUME InvVinculos, NextVinculos PROVE Vivo
    OBVIOUS
  <2>1. ASSUME NEW r \in Requisicoes, ConfirmaCanal(r) PROVE Vivo
    <3>1. Grava(r) /\ req[r].canal \in Canais
      BY <2>1 DEF ConfirmaCanal, Grava, InvVinculos, TypeOKVinculos, Requisicao, SemRequisicao
    <3>2. /\ vinculo'[req[r].canal].bots \subseteq vinculo[req[r].canal].bots \cup req[r].novos
          /\ \A k \in Canais \ {req[r].canal} : vinculo'[k] = vinculo[k]
      BY <2>1, <3>1 DEF ConfirmaCanal, InvVinculos, TypeOKVinculos
    <3> QED BY <3>1, <3>2 DEF InvVinculos, NovosAceitos
  <2>2. ASSUME NEW r \in Requisicoes,
               \/ GravaCanal(r) \/ ConfirmaPublicacao(r) \/ ConfirmaEdicao(r)
               \/ \E c \in Canais, setores \in {SemValor} \cup SUBSET Setores,
                     padrao \in {SemValor} \cup Setores, e \in Escolhas :
                     PedeCanal(r, c, setores, padrao, e.tipos, e.liga)
               \/ \E b \in Bots : Publica(r, b) \/ \E ativo \in BOOLEAN : PedeEdicao(r, b, ativo)
        PROVE  Vivo
    <3>1. vinculo' = vinculo
      BY <2>2 DEF PedeCanal, GravaCanal, Publica, PedeEdicao, ConfirmaPublicacao, ConfirmaEdicao
    <3> QED BY <3>1
  <2>3. ASSUME \/ \E s \in Setores : RemoveSetor(s)
               \/ \E b \in Bots : SalvaFluxo(b) \/ Despublica(b) \/ RemoveBot(b)
        PROVE  Vivo
    <3>1. vinculo' = vinculo
      BY <2>3 DEF RemoveSetor, SalvaFluxo, Despublica, RemoveBot, MudaBot
    <3> QED BY <3>1
  <2> QED BY <2>1, <2>2, <2>3 DEF NextVinculos
<1> QED BY <1>1, InvSempreNosVinculos, PTL DEF SpecVinculos, SoVinculaVivo

--------------------------------------------------------------------------------
(* Inatividade *)

\* Chats whose last message of a person the scan takes into account.
Contada(a) == atend[a].aceita # Nunca /\ atend[a].falou > atend[a].aceita

\* The types, and the scans at every whole minute.
Marcha ==
    /\ TypeOKInatividade
    /\ batida <= agora /\ agora <= batida + 2 /\ batida % Minuto = 0
    /\ \A a \in Atendimentos : atend[a].falou <= agora /\ atend[a].aceita <= agora

\* What a run holds about a chat was so when it was read.
LinhaFiel(l) ==
    l.ultima # Nunca => /\ l.atend \in Atendimentos /\ Contada(l.atend)
                        /\ l.ultima <= atend[l.atend].falou /\ l.ultima <= l.em
LinhasFieis ==
    \A k \in Passadas :
        /\ \A l \in passada[k].resta : LinhaFiel(l)
        /\ passada[k].faz # "nada" => LinhaFiel(passada[k].linha) /\ passada[k].linha.ultima # Nunca

\* Rows about the present silence of a, still to be treated, and those to be warned of.
Atual(a, l) == l.atend = a /\ l.ultima = atend[a].falou
AAvisar(a, k, l) == l \in passada[k].resta \/ (passada[k].faz = "avisa" /\ l = passada[k].linha)

\* Of a silence that was followed and not warned of: a mark is older than it, and the first
\* scan of its own removes it or is about to; the first at the warning's minute warns or is
\* about to; and no run is to close it.
SemMarcaDesta(a) == atend[a].avisada # Nunca => atend[a].avisada < atend[a].falou
MarcaDeixada(a) ==
    batida >= atend[a].falou + 2 /\ atend[a].avisada # Nunca =>
        \E k \in Passadas : \E l \in passada[k].resta :
            Atual(a, l) /\ l.avisada = atend[a].avisada /\ l.em < atend[a].falou + 2 * MinutoDoAviso
Pendente(a) ==
    batida >= atend[a].falou + 2 * MinutoDoAviso =>
        \E k \in Passadas : \E l \in LinhaLida :
            /\ AAvisar(a, k, l) /\ Atual(a, l) /\ l.avisada = Nunca
            /\ atend[a].falou + 2 * MinutoDoAviso <= l.em /\ l.em < atend[a].falou + 2 * ResolverEm
NinguemFecha(a) ==
    \A k \in Passadas :
        /\ \A l \in passada[k].resta : Atual(a, l) => l.em < atend[a].falou + 2 * ResolverEm
        /\ passada[k].faz = "fecha" => ~Atual(a, passada[k].linha)
SemAviso(a) == SemMarcaDesta(a) /\ MarcaDeixada(a) /\ Pendente(a) /\ NinguemFecha(a)

InvAviso ==
    /\ Marcha /\ LinhasFieis
    /\ MinutoDoAviso > 1 => \A a \in seguida : Contada(a) /\ avisos[a] = 0 => SemAviso(a)

\* Whole minutes of a span of half minutes.
LEMMA MetadePorMinutos ==
  ASSUME NEW d \in Nat, NEW n \in Nat PROVE (d \div Minuto >= n) <=> (d >= 2 * n)
BY DEF Minuto

\* What the minutes read at an instant mean, in half minutes.
LEMMA MinutosDaLinha ==
  ASSUME NEW l \in LinhaLida, l.ultima <= l.em
  PROVE  /\ Inativa(l) <=> l.ultima # Nunca /\ l.em >= l.ultima + 2 * ResolverEm
         /\ Quieta(l) <=> /\ l.ultima # Nunca /\ ~Inativa(l)
                          /\ l.em >= l.ultima + 2 * MinutoDoAviso
<1> DEFINE d == l.em - l.ultima
<1>1. d \in Nat /\ l.em \in Nat /\ l.ultima \in Nat BY DEF LinhaLida
<1>2. ResolverEm \in Nat /\ MinutoDoAviso \in Nat BY InatividadeAssumption DEF MinutoDoAviso
<1>3. MinutosDesde(l) >= ResolverEm <=> d >= 2 * ResolverEm
  BY <1>1, <1>2, MetadePorMinutos DEF MinutosDesde
<1>4. MinutosDesde(l) >= MinutoDoAviso <=> d >= 2 * MinutoDoAviso
  BY <1>1, <1>2, MetadePorMinutos DEF MinutosDesde
<1> QED BY <1>1, <1>2, <1>3, <1>4 DEF Inativa, Quieta

\* The steps of people, of the policy and of the clock leave the runs of the scan alone.
LEMMA SilencioIntacto ==
  ASSUME NEW a \in Atendimentos, SemAviso(a), passada' = passada, batida' = batida,
         atend'[a].falou = atend[a].falou, atend'[a].avisada = atend[a].avisada
  PROVE  SemAviso(a)'
BY DEF SemAviso, SemMarcaDesta, MarcaDeixada, Pendente, NinguemFecha, Atual, AAvisar

\* A request that leaves the last message and the mark leaves the silence as it was.
LEMMA PessoaMuda ==
  ASSUME InvAviso, NEW a \in Atendimentos, NEW n \in Ficha, EscreveLinha(a, n), MesmoSilencio,
         desvios' \in Nat, n.falou = atend[a].falou, n.avisada = atend[a].avisada,
         n.aceita = IF atend[a].aceita = Nunca THEN n.aceita ELSE atend[a].aceita,
         n.aceita \in {atend[a].aceita, agora}
  PROVE  InvAviso'
<1> USE DEF EscreveLinha, MesmoSilencio
<1>1. TypeOKInatividade /\ atend \in [Atendimentos -> Ficha] BY DEF InvAviso, Marcha, TypeOKInatividade
<1>2. TypeOKInatividade' BY <1>1 DEF TypeOKInatividade
<1>3. \A b \in Atendimentos : b # a => atend'[b] = atend[b] BY <1>1
<1>4. atend'[a] = n BY <1>1
<1>5. Marcha' BY <1>2, <1>3, <1>4 DEF InvAviso, Marcha, TypeOKInatividade
<1>6. \A b \in Atendimentos : Contada(b)' <=> Contada(b)
  <2>1. atend[a] \in Ficha /\ agora \in Nat /\ atend[a].falou <= agora
    BY <1>1 DEF InvAviso, Marcha, TypeOKInatividade
  <2>2. Contada(a)' <=> Contada(a)
    BY <1>4, <2>1 DEF Contada, Ficha, Nunca
  <2> QED BY <1>3, <2>2 DEF Contada
<1>7. \A b \in Atendimentos : atend'[b].falou = atend[b].falou /\ atend'[b].avisada = atend[b].avisada
  BY <1>3, <1>4
<1>8. LinhasFieis' BY <1>6, <1>7 DEF InvAviso, LinhasFieis, LinhaFiel
<1>9. (MinutoDoAviso > 1 => \A b \in seguida : Contada(b) /\ avisos[b] = 0 => SemAviso(b))'
  BY <1>1, <1>6, <1>7, SilencioIntacto DEF InvAviso, TypeOKInatividade, MinutoDoAviso
<1> QED BY <1>5, <1>8, <1>9 DEF InvAviso

\* What the people's requests write in the row: the silence goes on.
LEMMA PessoaEscreve ==
  ASSUME TypeOKInatividade, NEW a \in Atendimentos,
         Aceita(a) \/ PausaAtendimento(a) \/ RetomaAtendimento(a) \/ TransfereAtendimento(a)
         \/ EncerraAtendimento(a)
  PROVE  /\ MesmoSilencio /\ desvios' \in Nat /\ passada' = passada
         /\ \E n \in Ficha :
               /\ EscreveLinha(a, n) /\ n.falou = atend[a].falou /\ n.avisada = atend[a].avisada
               /\ n.aceita = IF atend[a].aceita = Nunca THEN n.aceita ELSE atend[a].aceita
               /\ n.aceita \in {atend[a].aceita, agora}
               /\ n.status # "inatividade"
<1>1. atend[a] \in Ficha /\ agora \in Nat /\ desvios \in Nat
  BY DEF TypeOKInatividade
<1>2. CASE Aceita(a)
  <2> DEFINE n == [atend[a] EXCEPT !.status = "andamento", !.aceita = IF @ = Nunca THEN agora ELSE @]
  <2>1. n \in Ficha /\ n.falou = atend[a].falou /\ n.avisada = atend[a].avisada
        /\ n.aceita = IF atend[a].aceita = Nunca THEN agora ELSE atend[a].aceita
    BY <1>1 DEF Ficha
  <2>4. n.status = "andamento" BY <1>1 DEF Ficha
  <2>5. /\ n.aceita = IF atend[a].aceita = Nunca THEN n.aceita ELSE atend[a].aceita
        /\ n.aceita \in {atend[a].aceita, agora}
    BY <2>1
  <2>2. EscreveLinha(a, n) /\ MesmoSilencio /\ desvios' \in Nat BY <1>1, <1>2 DEF Aceita
  <2>3. passada' = passada BY <2>2 DEF EscreveLinha
  <2> HIDE DEF n
  <2> QED BY <2>1, <2>2, <2>3, <2>4, <2>5
<1>3. CASE PausaAtendimento(a)
  <2> DEFINE n == [atend[a] EXCEPT !.pausada = TRUE]
  <2>1. n \in Ficha /\ n.falou = atend[a].falou /\ n.avisada = atend[a].avisada /\ n.aceita = atend[a].aceita
        /\ n.status # "inatividade"
    BY <1>1, <1>3 DEF Ficha, PausaAtendimento, Visivel
  <2>2. EscreveLinha(a, n) /\ MesmoSilencio /\ desvios' \in Nat BY <1>1, <1>3 DEF PausaAtendimento, Desvia
  <2>3. passada' = passada BY <2>2 DEF EscreveLinha
  <2> HIDE DEF n
  <2> QED BY <2>1, <2>2, <2>3
<1>4. CASE RetomaAtendimento(a)
  <2> DEFINE n == [atend[a] EXCEPT !.pausada = FALSE]
  <2>1. n \in Ficha /\ n.falou = atend[a].falou /\ n.avisada = atend[a].avisada /\ n.aceita = atend[a].aceita
        /\ n.status # "inatividade"
    BY <1>1, <1>4 DEF Ficha, RetomaAtendimento, Visivel
  <2>2. EscreveLinha(a, n) /\ MesmoSilencio /\ desvios' \in Nat BY <1>1, <1>4 DEF RetomaAtendimento
  <2>3. passada' = passada BY <2>2 DEF EscreveLinha
  <2> HIDE DEF n
  <2> QED BY <2>1, <2>2, <2>3
<1>5. CASE TransfereAtendimento(a)
  <2>0. PICK destino \in {"andamento", "espera"} :
           EscreveLinha(a, [atend[a] EXCEPT !.status = destino, !.pausada = FALSE])
    BY <1>5 DEF TransfereAtendimento
  <2> DEFINE n == [atend[a] EXCEPT !.status = destino, !.pausada = FALSE]
  <2>1. n \in Ficha /\ n.falou = atend[a].falou /\ n.avisada = atend[a].avisada /\ n.aceita = atend[a].aceita
        /\ n.status # "inatividade"
    BY <1>1, <1>5 DEF Ficha
  <2>2. EscreveLinha(a, n) /\ MesmoSilencio /\ desvios' \in Nat
    BY <1>1, <1>5, <2>0 DEF TransfereAtendimento, Desvia
  <2>3. passada' = passada BY <2>2 DEF EscreveLinha
  <2> HIDE DEF n
  <2> QED BY <2>1, <2>2, <2>3
<1>6. CASE EncerraAtendimento(a)
  <2> DEFINE n == [atend[a] EXCEPT !.status = "encerrado"]
  <2>1. n \in Ficha /\ n.falou = atend[a].falou /\ n.avisada = atend[a].avisada /\ n.aceita = atend[a].aceita
        /\ n.status # "inatividade"
    BY <1>1, <1>6 DEF Ficha
  <2>2. EscreveLinha(a, n) /\ MesmoSilencio /\ desvios' \in Nat BY <1>1, <1>6 DEF EncerraAtendimento
  <2>3. passada' = passada BY <2>2 DEF EscreveLinha
  <2> HIDE DEF n
  <2> QED BY <2>1, <2>2, <2>3
<1> QED BY <1>2, <1>3, <1>4, <1>5, <1>6

\* None of the requests of people touches a silence.
LEMMA PessoasMantem ==
  ASSUME InvAviso, NEW a \in Atendimentos,
         Aceita(a) \/ PausaAtendimento(a) \/ RetomaAtendimento(a) \/ TransfereAtendimento(a)
         \/ EncerraAtendimento(a)
  PROVE  InvAviso'
<1>1. TypeOKInatividade BY DEF InvAviso, Marcha
<1> QED BY <1>1, PessoaEscreve, PessoaMuda

\* A message begins a silence no scan has seen, and that no older mark reaches.
LEMMA FalaMantem ==
  ASSUME InvAviso, NEW a \in Atendimentos, Fala(a)
  PROVE  InvAviso'
<1>1. PICK d \in {agora - 1, agora} :
        /\ d > atend[a].falou
        /\ EscreveLinha(a, [atend[a] EXCEPT !.falou = d])
        /\ seguida' = IF (\E j, k \in ComDecisao(a) : j # k) \/ atend[a].avisada >= d
                      THEN seguida \ {a} ELSE seguida \cup {a}
  BY DEF Fala
<1>2. /\ atend \in [Atendimentos -> Ficha] /\ atend[a] \in Ficha /\ agora \in Nat /\ batida \in Nat
      /\ batida <= agora /\ passada \in [Passadas -> Varredura]
      /\ passada' = passada /\ batida' = batida /\ agora' = agora
  BY <1>1 DEF InvAviso, Marcha, TypeOKInatividade, EscreveLinha
<1>3. d \in Nat /\ d <= agora /\ batida <= d + 1
  BY <1>1, <1>2 DEF Ficha
<1> DEFINE n == [atend[a] EXCEPT !.falou = d]
<1>4. n \in Ficha /\ n.falou = d /\ n.avisada = atend[a].avisada /\ n.aceita = atend[a].aceita
  BY <1>2, <1>3 DEF Ficha
<1>5. atend' = [atend EXCEPT ![a] = n] BY <1>1 DEF EscreveLinha
<1> HIDE DEF n
<1>6. atend'[a] = n /\ \A b \in Atendimentos : b # a => atend'[b] = atend[b] BY <1>2, <1>5
<1>7. Marcha'
  <2>1. avisos' \in [Atendimentos -> Nat] /\ seguida' \subseteq Atendimentos /\ atend' \in [Atendimentos -> Ficha]
    BY <1>1, <1>2, <1>4, <1>5 DEF InvAviso, Marcha, TypeOKInatividade, Fala
  <2>2. TypeOKInatividade'
    BY <1>1, <2>1 DEF InvAviso, Marcha, TypeOKInatividade, EscreveLinha, Fala
  <2> QED BY <1>2, <1>3, <1>4, <1>6, <2>2 DEF InvAviso, Marcha
<1>8. \A b \in Atendimentos : Contada(b) => Contada(b)' /\ atend[b].falou <= atend'[b].falou
  BY <1>1, <1>2, <1>3, <1>4, <1>6 DEF Contada, Ficha
<1>9. LinhasFieis'
  <2>1. ASSUME NEW l \in LinhaLida, LinhaFiel(l) PROVE LinhaFiel(l)'
    <3>1. CASE l.ultima # Nunca
      <4>1. /\ l.atend \in Atendimentos /\ l.ultima <= atend[l.atend].falou /\ l.ultima <= l.em
            /\ Contada(l.atend)' /\ atend[l.atend].falou <= atend'[l.atend].falou
        BY <1>8, <2>1, <3>1 DEF LinhaFiel
      <4>2. l.ultima \in Nat /\ atend[l.atend].falou \in Nat /\ atend'[l.atend].falou \in Nat
        BY <4>1, <1>7 DEF LinhaLida, InvAviso, Marcha, TypeOKInatividade, Ficha
      <4> QED BY <4>1, <4>2 DEF LinhaFiel
    <3> QED BY <3>1 DEF LinhaFiel
  <2>2. \A k \in Passadas : passada[k].resta \subseteq LinhaLida /\ passada[k].linha \in LinhaLida
    BY <1>2 DEF Varredura
  <2> QED BY <1>2, <2>1, <2>2 DEF InvAviso, LinhasFieis
<1>10. ASSUME MinutoDoAviso > 1, NEW b \in seguida', Contada(b)', avisos'[b] = 0 PROVE SemAviso(b)'
  <2>1. CASE b # a
    <3>1. b \in seguida /\ b \in Atendimentos /\ atend'[b] = atend[b] BY <1>1, <1>6, <1>7, <1>10, <2>1
          DEF Marcha, TypeOKInatividade
    <3>2. Contada(b) /\ avisos[b] = 0
      BY <1>10, <2>1, <3>1 DEF Contada, Fala, InvAviso, Marcha, TypeOKInatividade
    <3> QED BY <1>2, <1>10, <3>1, <3>2, SilencioIntacto DEF InvAviso
  <2>2. CASE b = a
    <3>1. atend[a].avisada < d /\ atend[a].avisada \in Nat BY <1>1, <1>2, <1>3, <1>10, <2>2 DEF Ficha
    <3>2. SemMarcaDesta(a)' BY <1>4, <1>6, <3>1 DEF SemMarcaDesta
    <3>3. MarcaDeixada(a)' BY <1>2, <1>3, <1>4, <1>6 DEF MarcaDeixada
    <3>4. Pendente(a)'
      <4>1. MinutoDoAviso \in Nat /\ 2 * MinutoDoAviso >= 2
        BY <1>10, InatividadeAssumption DEF MinutoDoAviso
      <4>2. ~(batida >= d + 2 * MinutoDoAviso) BY <1>2, <1>3, <4>1
      <4> QED BY <1>2, <1>4, <1>6, <4>2 DEF Pendente, MinutoDoAviso
    <3>5. NinguemFecha(a)'
      <4>1. ASSUME NEW l \in LinhaLida, LinhaFiel(l), l.atend = a PROVE l.ultima # d
        <5>1. l.ultima \in Nat /\ atend[a].falou \in Nat /\ d # Nunca
          BY <1>1, <1>2, <1>3 DEF LinhaLida, Ficha, Nunca
        <5> QED BY <1>1, <1>3, <4>1, <5>1 DEF LinhaFiel
      <4>2. ASSUME NEW k \in Passadas
            PROVE  /\ \A l \in passada[k].resta : l \in LinhaLida /\ LinhaFiel(l)
                   /\ passada[k].faz = "fecha" => passada[k].linha \in LinhaLida /\ LinhaFiel(passada[k].linha)
        BY <1>2 DEF Varredura, InvAviso, LinhasFieis
      <4> QED BY <1>2, <1>4, <1>6, <4>1, <4>2 DEF NinguemFecha, Atual
    <3> QED BY <2>2, <3>2, <3>3, <3>4, <3>5 DEF SemAviso
  <2> QED BY <2>1, <2>2
<1> QED BY <1>7, <1>9, <1>10 DEF InvAviso, MinutoDoAviso

\* Neither does the clock, or a change of policy.
LEMMA RelogioEPoliticaMantem ==
  ASSUME InvAviso, PassaTempo \/ (\E a \in Atendimentos : TrocaPolitica(a)) \/ UNCHANGED varsInatividade
  PROVE  InvAviso'
<1>1. UNCHANGED <<batida, atend, passada, avisos, seguida>>
  BY DEF PassaTempo, TrocaPolitica, varsInatividade
<1>2. TypeOKInatividade /\ TypeOKInatividade'
  BY <1>1 DEF InvAviso, Marcha, TypeOKInatividade, PassaTempo, TrocaPolitica, Desvia, varsInatividade
<1>3. Marcha'
  <2>1. CASE PassaTempo
    <3>1. agora \in Nat /\ batida \in Nat /\ batida <= agora /\ agora <= batida + 2 /\ batida % Minuto = 0
          /\ agora' = agora + 1 /\ (agora % Minuto = 0 => batida = agora)
      BY <2>1 DEF InvAviso, Marcha, TypeOKInatividade, PassaTempo
    <3>2. agora + 1 <= batida + 2 BY <3>1 DEF Minuto
    <3>3. \A a \in Atendimentos : atend[a].falou <= agora + 1 /\ atend[a].aceita <= agora + 1
      BY <3>1 DEF InvAviso, Marcha, TypeOKInatividade, Ficha
    <3> QED BY <1>1, <1>2, <3>1, <3>2, <3>3 DEF Marcha
  <2>2. CASE ~PassaTempo
    BY <1>1, <1>2, <2>2 DEF InvAviso, Marcha, TrocaPolitica, varsInatividade
  <2> QED BY <2>1, <2>2
<1>4. LinhasFieis' BY <1>1 DEF InvAviso, LinhasFieis, LinhaFiel, Contada
<1>5. (MinutoDoAviso > 1 => \A b \in seguida : Contada(b) /\ avisos[b] = 0 => SemAviso(b))'
  BY <1>1, <1>2, SilencioIntacto DEF InvAviso, TypeOKInatividade, MinutoDoAviso, Contada
<1> QED BY <1>3, <1>4, <1>5 DEF InvAviso

\* Without the scan nobody's silence is followed.
LEMMA PerdaMantem ==
  ASSUME InvAviso, SemBatida \/ CaiProcesso
  PROVE  InvAviso'
<1>1. PassadaLivre \in Varredura BY DEF PassadaLivre, Varredura, SemLinha, LinhaLida, Nunca
<1>2. seguida' = {} /\ UNCHANGED <<agora, atend, automacao, avisos>> /\ desvios' \in Nat
      /\ (batida' = batida \/ (batida' = agora /\ agora % Minuto = 0))
      /\ (passada' = passada \/ passada' = [k \in Passadas |-> PassadaLivre])
  BY DEF SemBatida, CaiProcesso, Desvia, InvAviso, Marcha, TypeOKInatividade
<1>3. Marcha' BY <1>1, <1>2 DEF InvAviso, Marcha, TypeOKInatividade
<1>4. LinhasFieis' BY <1>2 DEF InvAviso, LinhasFieis, LinhaFiel, Contada, PassadaLivre
<1> QED BY <1>2, <1>3, <1>4 DEF InvAviso

\* A scan that follows a silence found every run at rest: the mark of the silence before
\* had gone, the warning had been given if its minute had come.
LEMMA BateMantem ==
  ASSUME InvAviso, NEW k \in Passadas, Bate(k)
  PROVE  InvAviso'
<1>1. /\ TypeOKInatividade /\ agora \in Nat /\ batida \in Nat /\ atend \in [Atendimentos -> Ficha]
      /\ passada \in [Passadas -> Varredura]
      /\ agora % Minuto = 0 /\ batida < agora /\ agora <= batida + 2
      /\ passada' = [passada EXCEPT ![k].resta = Linhas] /\ batida' = agora /\ seguida' = Acompanhadas
      /\ UNCHANGED <<agora, atend, automacao, desvios, avisos>>
  BY DEF InvAviso, Marcha, TypeOKInatividade, Bate
<1>2. ASSUME NEW l \in Linhas
      PROVE  /\ l \in LinhaLida /\ LinhaFiel(l) /\ l.em = agora /\ l.atend \in Atendimentos
             /\ l.avisada = atend[l.atend].avisada
             /\ Contada(l.atend) => l.ultima = atend[l.atend].falou
  <2>1. PICK a \in Atendimentos : l = [atend |-> a, ultima |-> UltimaMensagem(atend[a]),
                                       avisada |-> atend[a].avisada, em |-> agora]
    BY <1>2 DEF Linhas
  <2>2. atend[a] \in Ficha /\ atend[a].falou <= agora BY <1>1 DEF InvAviso, Marcha
  <2>3. l.atend = a /\ l.ultima = UltimaMensagem(atend[a]) /\ l.avisada = atend[a].avisada /\ l.em = agora
    BY <2>1
  <2>4. UltimaMensagem(atend[a]) = IF Contada(a) THEN atend[a].falou ELSE Nunca
    BY DEF UltimaMensagem, Contada
  <2>5. l \in LinhaLida BY <1>1, <2>1, <2>2, <2>4 DEF LinhaLida, Ficha, Nunca
  <2>6. LinhaFiel(l) BY <1>1, <2>2, <2>3, <2>4 DEF LinhaFiel, Ficha
  <2> QED BY <2>3, <2>4, <2>5, <2>6
<1>3. /\ passada'[k].resta = Linhas /\ passada'[k].faz = passada[k].faz /\ passada'[k].linha = passada[k].linha
      /\ \A j \in Passadas : j # k => passada'[j] = passada[j]
  BY <1>1 DEF Varredura
<1>4. passada' \in [Passadas -> Varredura]
  BY <1>1, <1>2 DEF Varredura
<1>5. Marcha'
  <2>1. TypeOKInatividade'
    BY <1>1, <1>4 DEF TypeOKInatividade, Acompanhadas
  <2> QED BY <1>1, <2>1 DEF InvAviso, Marcha
<1>6. LinhasFieis'
  <2>1. \A l \in LinhaLida : LinhaFiel(l)' <=> LinhaFiel(l) BY <1>1 DEF LinhaFiel, Contada
  <2>2. \A j \in Passadas : passada[j].resta \subseteq LinhaLida /\ passada[j].linha \in LinhaLida
    BY <1>1 DEF Varredura
  <2> QED BY <1>2, <1>3, <2>1, <2>2 DEF InvAviso, LinhasFieis
<1>7. ASSUME MinutoDoAviso > 1, NEW a \in seguida', Contada(a)', avisos'[a] = 0 PROVE SemAviso(a)'
  <2> DEFINE f == atend[a].falou
  <2>1. /\ a \in seguida /\ a \in Atendimentos /\ Visivel(atend[a]) /\ Contada(a) /\ avisos[a] = 0
        /\ \A j \in Passadas : passada[j] = PassadaLivre
    BY <1>1, <1>7 DEF Acompanhadas, Ocupada, Contada, TypeOKInatividade
  <2>2. SemAviso(a) BY <1>7, <2>1 DEF InvAviso
  <2>3. /\ f \in Nat /\ atend[a].avisada \in Nat
        /\ MinutoDoAviso \in Nat /\ ResolverEm \in Nat /\ MinutoDoAviso < ResolverEm
    BY <1>1, <2>1, InatividadeAssumption DEF Ficha, MinutoDoAviso
  <2>4. \A j \in Passadas : passada[j].resta = {} /\ passada[j].faz = "nada"
    BY <2>1 DEF PassadaLivre
  <2>5. batida >= f + 2 => atend[a].avisada = Nunca
    BY <2>2, <2>4 DEF SemAviso, MarcaDeixada
  <2>6. ~(batida >= f + 2 * MinutoDoAviso)
    BY <2>2, <2>4 DEF SemAviso, Pendente, AAvisar
  <2>7. agora < f + 2 * MinutoDoAviso + 2 /\ agora < f + 2 * ResolverEm
    BY <1>1, <2>3, <2>6
  <2>8. PICK l \in Linhas : l.atend = a
    <3> DEFINE g == [atend |-> a, ultima |-> UltimaMensagem(atend[a]), avisada |-> atend[a].avisada,
                     em |-> agora]
    <3>1. g \in Linhas /\ g.atend = a BY <2>1 DEF Linhas
    <3> QED BY <3>1
  <2>9. l \in LinhaLida /\ Atual(a, l) /\ l.em = agora /\ l.avisada = atend[a].avisada
    BY <1>2, <2>1, <2>8 DEF Atual
  <2>10. SemMarcaDesta(a)' BY <1>1, <2>2 DEF SemAviso, SemMarcaDesta
  <2>11. MarcaDeixada(a)'
    <3>1. ASSUME atend[a].avisada # Nunca PROVE agora < f + 2 * MinutoDoAviso
      BY <1>1, <1>7, <2>3, <2>5, <3>1
    <3> QED BY <1>1, <1>3, <2>8, <2>9, <3>1 DEF MarcaDeixada, Atual, MinutoDoAviso
  <2>12. Pendente(a)'
    <3>1. ASSUME agora >= f + 2 * MinutoDoAviso PROVE atend[a].avisada = Nunca
      BY <1>1, <1>7, <2>3, <2>5, <3>1
    <3> QED BY <1>1, <1>3, <2>7, <2>8, <2>9, <3>1 DEF Pendente, AAvisar, Atual, MinutoDoAviso, LinhaLida
  <2>13. NinguemFecha(a)'
    BY <1>1, <1>2, <1>3, <2>4, <2>7 DEF NinguemFecha, Atual
  <2> QED BY <2>10, <2>11, <2>12, <2>13 DEF SemAviso
<1> QED BY <1>5, <1>6, <1>7 DEF InvAviso, MinutoDoAviso

\* A run that takes a row of the present silence removes an older mark, or is to warn; the
\* row is not old enough for it to close.
LEMMA TrataLinhaMantem ==
  ASSUME InvAviso, NEW k \in Passadas, TrataLinha(k)
  PROVE  InvAviso'
<1>1. PICK l \in passada[k].resta :
        LET a == l.atend
        IN \/ /\ Inativa(l) /\ a \in automacao
              /\ ComDecisaoTomada(k, l, "fecha") /\ UNCHANGED <<atend, avisos, seguida>>
           \/ /\ Quieta(l) /\ ~Avisada(l) /\ a \in automacao
              /\ ComDecisaoTomada(k, l, "avisa") /\ UNCHANGED <<atend, avisos, seguida>>
           \/ /\ (Inativa(l) \/ (Quieta(l) /\ ~Avisada(l))) /\ a \notin automacao
              /\ seguida' = seguida \ {a}
              /\ ComDecisaoTomada(k, l, "nada") /\ UNCHANGED <<atend, avisos>>
           \/ /\ Quieta(l) /\ Avisada(l)
              /\ ComDecisaoTomada(k, l, "nada") /\ UNCHANGED <<atend, avisos, seguida>>
           \/ /\ ~Inativa(l) /\ ~Quieta(l)
              /\ atend' = IF l.ultima # Nunca /\ Respondida(l)
                          THEN [atend EXCEPT ![a].avisada = Nunca] ELSE atend
              /\ ComDecisaoTomada(k, l, "nada") /\ UNCHANGED <<avisos, seguida>>
  BY DEF TrataLinha
<1>2. /\ TypeOKInatividade /\ passada \in [Passadas -> Varredura] /\ atend \in [Atendimentos -> Ficha]
      /\ passada[k].faz = "nada" /\ l \in LinhaLida /\ LinhaFiel(l)
      /\ UNCHANGED <<agora, batida, automacao, desvios, avisos>> /\ seguida' \subseteq seguida
  BY <1>1 DEF TrataLinha, InvAviso, Marcha, TypeOKInatividade, LinhasFieis, Varredura
<1>3. PICK faz \in {"nada", "fecha", "avisa"} :
        /\ ComDecisaoTomada(k, l, faz)
        /\ faz = "fecha" => Inativa(l)
        /\ faz = "avisa" => Quieta(l)
        /\ (Quieta(l) /\ ~Avisada(l)) => faz = "avisa" \/ seguida' = seguida \ {l.atend}
  BY <1>1 DEF Quieta
<1>4. /\ passada'[k] = [resta |-> passada[k].resta \ {l}, faz |-> faz,
                        linha |-> IF faz = "nada" THEN SemLinha ELSE l]
      /\ \A j \in Passadas : j # k => passada'[j] = passada[j]
      /\ passada' \in [Passadas -> Varredura]
  BY <1>2, <1>3 DEF ComDecisaoTomada, Varredura, LinhaLida, SemLinha, Nunca
<1>5. \A b \in Atendimentos :
        atend'[b] \in Ficha /\ atend'[b].falou = atend[b].falou /\ atend'[b].aceita = atend[b].aceita
        /\ (atend'[b].avisada = atend[b].avisada \/ atend'[b].avisada = Nunca)
  BY <1>1, <1>2 DEF Ficha, Nunca
<1>6. Marcha'
  <2>1. atend' \in [Atendimentos -> Ficha] BY <1>1, <1>2 DEF Ficha, Nunca
  <2> QED BY <1>2, <1>4, <1>5, <2>1 DEF InvAviso, Marcha, TypeOKInatividade
<1>7. LinhasFieis'
  <2>1. \A m \in LinhaLida : LinhaFiel(m) => LinhaFiel(m)' BY <1>5 DEF LinhaFiel, Contada
  <2>2. \A j \in Passadas : passada[j].resta \subseteq LinhaLida /\ passada[j].linha \in LinhaLida
    BY <1>2 DEF Varredura
  <2>3. faz # "nada" => l.ultima # Nunca BY <1>3 DEF Inativa, Quieta
  <2> QED BY <1>2, <1>4, <2>1, <2>2, <2>3 DEF InvAviso, LinhasFieis
<1>8. ASSUME MinutoDoAviso > 1, NEW a \in seguida', Contada(a)', avisos'[a] = 0 PROVE SemAviso(a)'
  <2> DEFINE f == atend[a].falou
  <2>1. a \in Atendimentos /\ a \in seguida /\ Contada(a) /\ avisos[a] = 0
    BY <1>2, <1>5, <1>8 DEF TypeOKInatividade, Contada
  <2>2. SemAviso(a) BY <1>8, <2>1 DEF InvAviso
  <2>3. /\ f \in Nat /\ f # Nunca /\ atend[a].avisada \in Nat /\ batida \in Nat
        /\ MinutoDoAviso \in Nat /\ ResolverEm \in Nat /\ MinutoDoAviso < ResolverEm
    BY <1>2, <2>1, InatividadeAssumption DEF Ficha, MinutoDoAviso, Contada, TypeOKInatividade, Nunca
  <2>4. atend'[a].falou = f /\ (atend'[a].avisada = atend[a].avisada \/ atend'[a].avisada = Nunca)
    BY <1>5, <2>1
  <2>5. \A m : Atual(a, m)' <=> Atual(a, m) BY <2>4 DEF Atual
  <2>6. Atual(a, l) => /\ Inativa(l) <=> l.em >= f + 2 * ResolverEm
                       /\ Quieta(l) <=> ~Inativa(l) /\ l.em >= f + 2 * MinutoDoAviso
    BY <1>2, <2>3, MinutosDaLinha DEF Atual, LinhaFiel
  <2>7. \A j \in Passadas : \A m \in passada[j].resta : m \in passada'[j].resta \/ (j = k /\ m = l)
    BY <1>4
  <2>8. SemMarcaDesta(a)' BY <2>2, <2>4 DEF SemAviso, SemMarcaDesta
  <2>9. MarcaDeixada(a)'
    <3>1. SUFFICES ASSUME batida >= f + 2, atend'[a].avisada # Nunca
                   PROVE  \E j \in Passadas : \E m \in passada'[j].resta :
                             Atual(a, m) /\ m.avisada = atend[a].avisada /\ m.em < f + 2 * MinutoDoAviso
      BY <1>2, <2>4, <2>5 DEF MarcaDeixada, MinutoDoAviso
    <3>2. PICK j \in Passadas : \E m \in passada[j].resta :
             Atual(a, m) /\ m.avisada = atend[a].avisada /\ m.em < f + 2 * MinutoDoAviso
      <4>1. atend[a].avisada # Nunca BY <2>4, <3>1
      <4>2. MarcaDeixada(a) BY <2>2 DEF SemAviso
      <4> QED BY <3>1, <4>1, <4>2 DEF MarcaDeixada
    <3>3. PICK m \in passada[j].resta :
             Atual(a, m) /\ m.avisada = atend[a].avisada /\ m.em < f + 2 * MinutoDoAviso
      BY <3>2
    <3>4. CASE j = k /\ m = l
      <4>1. l.atend = a /\ l.ultima = f /\ l.em \in Nat BY <1>2, <3>3, <3>4 DEF Atual, LinhaLida
      <4>2. ~Inativa(l) /\ ~Quieta(l) BY <2>3, <2>6, <3>3, <3>4, <4>1
      <4>3. Respondida(l) BY <2>2, <2>3, <2>4, <3>1, <3>3, <3>4, <4>1
            DEF SemAviso, SemMarcaDesta, Respondida, Avisada
      <4>4. atend' = [atend EXCEPT ![a].avisada = Nunca] BY <1>1, <2>3, <4>1, <4>2, <4>3
      <4> QED BY <1>2, <2>1, <3>1, <4>4 DEF Ficha
    <3> QED BY <2>7, <3>3, <3>4
  <2>10. Pendente(a)'
    <3>1. SUFFICES ASSUME batida >= f + 2 * MinutoDoAviso
                   PROVE  \E j \in Passadas : \E m \in LinhaLida :
                             /\ AAvisar(a, j, m)' /\ Atual(a, m) /\ m.avisada = Nunca
                             /\ f + 2 * MinutoDoAviso <= m.em /\ m.em < f + 2 * ResolverEm
      BY <1>2, <2>4, <2>5 DEF Pendente, MinutoDoAviso
    <3>2. PICK j \in Passadas, m \in LinhaLida :
             /\ AAvisar(a, j, m) /\ Atual(a, m) /\ m.avisada = Nunca
             /\ f + 2 * MinutoDoAviso <= m.em /\ m.em < f + 2 * ResolverEm
      BY <2>2, <3>1 DEF SemAviso, Pendente
    <3>3. CASE j = k /\ m = l
      <4>1. l.atend = a /\ l.em \in Nat BY <1>2, <3>2, <3>3 DEF Atual, LinhaLida
      <4>2. Quieta(l) /\ ~Avisada(l) BY <2>3, <2>6, <3>2, <3>3, <4>1 DEF Avisada
      <4>3. faz = "avisa" BY <1>3, <1>8, <4>1, <4>2
      <4>4. AAvisar(a, k, l)' BY <1>4, <4>3 DEF AAvisar
      <4> QED BY <3>2, <3>3, <4>4
    <3>4. CASE ~(j = k /\ m = l)
      <4>1. AAvisar(a, j, m)' BY <1>2, <1>4, <2>7, <3>2, <3>4 DEF AAvisar
      <4> QED BY <3>2, <4>1
    <3> QED BY <3>3, <3>4
  <2>11. NinguemFecha(a)'
    <3>1. Atual(a, l) => ~Inativa(l)
      BY <1>2, <2>2, <2>3, <2>6 DEF SemAviso, NinguemFecha, LinhaLida
    <3>2. faz = "fecha" => ~Atual(a, l) BY <1>3, <3>1
    <3>3. \A j \in Passadas : passada'[j].resta \subseteq passada[j].resta BY <1>4
    <3>4. \A j \in Passadas : passada'[j].faz = "fecha" => ~Atual(a, passada'[j].linha)
      BY <1>4, <2>2, <3>2 DEF SemAviso, NinguemFecha
    <3> QED BY <2>2, <2>4, <2>5, <3>3, <3>4 DEF SemAviso, NinguemFecha
  <2> QED BY <2>8, <2>9, <2>10, <2>11 DEF SemAviso
<1> QED BY <1>6, <1>7, <1>8 DEF InvAviso, MinutoDoAviso

\* The warning goes, and then it is no longer a silence without one.
LEMMA EnviaAvisoMantem ==
  ASSUME InvAviso, NEW k \in Passadas, EnviaAviso(k)
  PROVE  InvAviso'
<1> DEFINE l == passada[k].linha
<1>1. /\ TypeOKInatividade /\ passada \in [Passadas -> Varredura]
      /\ passada[k].faz = "avisa" /\ passada' = [passada EXCEPT ![k].faz = "marca"]
      /\ UNCHANGED <<agora, batida, atend, automacao, desvios>>
      /\ l \in LinhaLida /\ LinhaFiel(l) /\ l.ultima # Nunca /\ l.atend \in Atendimentos
  BY DEF EnviaAviso, InvAviso, Marcha, TypeOKInatividade, Varredura, LinhasFieis, LinhaFiel
<1>2. /\ seguida' \subseteq seguida /\ avisos' \in [Atendimentos -> Nat]
      /\ \A b \in seguida' : avisos'[b] = 0 => avisos[b] = 0 /\ b # l.atend
  BY <1>1 DEF EnviaAviso, TypeOKInatividade
<1>3. /\ passada'[k].resta = passada[k].resta /\ passada'[k].faz = "marca" /\ passada'[k].linha = l
      /\ \A j \in Passadas : j # k => passada'[j] = passada[j]
      /\ passada' \in [Passadas -> Varredura]
  BY <1>1 DEF Varredura
<1>4. Marcha' BY <1>1, <1>2, <1>3 DEF InvAviso, Marcha, TypeOKInatividade
<1>5. LinhasFieis' BY <1>1, <1>3 DEF InvAviso, LinhasFieis, LinhaFiel, Contada
<1>6. ASSUME MinutoDoAviso > 1, NEW a \in seguida', Contada(a)', avisos'[a] = 0 PROVE SemAviso(a)'
  <2>1. a \in seguida /\ a # l.atend /\ SemAviso(a)
    BY <1>1, <1>2, <1>6 DEF InvAviso, Contada
  <2>2. \A j \in Passadas : passada'[j].resta = passada[j].resta /\ passada'[j].linha = passada[j].linha
                             /\ (passada'[j].faz = "fecha" => passada[j].faz = "fecha")
    BY <1>3
  <2>3. ASSUME NEW j \in Passadas, NEW m \in LinhaLida, AAvisar(a, j, m), Atual(a, m)
        PROVE  AAvisar(a, j, m)'
    BY <1>1, <1>3, <2>1, <2>3 DEF AAvisar, Atual
  <2>4. SemMarcaDesta(a)' BY <1>1, <2>1 DEF SemAviso, SemMarcaDesta
  <2>5. MarcaDeixada(a)' BY <1>1, <2>1, <2>2 DEF SemAviso, MarcaDeixada, Atual, MinutoDoAviso
  <2>6. Pendente(a)'
    <3>1. \A m : Atual(a, m)' <=> Atual(a, m) BY <1>1 DEF Atual
    <3> QED BY <1>1, <2>1, <2>3, <3>1 DEF SemAviso, Pendente, MinutoDoAviso
  <2>7. NinguemFecha(a)' BY <1>1, <2>1, <2>2 DEF SemAviso, NinguemFecha, Atual
  <2> QED BY <2>4, <2>5, <2>6, <2>7 DEF SemAviso
<1> QED BY <1>4, <1>5, <1>6 DEF InvAviso, MinutoDoAviso

\* A row is written: a closing or a mark, and a mark without its warning ends the silence
\* that is followed.
LEMMA ConcluiLinhaMantem ==
  ASSUME InvAviso, NEW k \in Passadas, ConcluiLinha(k)
  PROVE  InvAviso'
<1> DEFINE c == passada[k].linha.atend
<1>1. /\ TypeOKInatividade /\ passada \in [Passadas -> Varredura] /\ atend \in [Atendimentos -> Ficha]
      /\ agora \in Nat /\ passada[k].faz \in {"fecha", "marca"} /\ c \in Atendimentos
      /\ passada' = [passada EXCEPT ![k].faz = "nada", ![k].linha = SemLinha]
      /\ UNCHANGED <<agora, batida, automacao, desvios, avisos>> /\ seguida' \subseteq seguida
  BY DEF ConcluiLinha, InvAviso, Marcha, TypeOKInatividade, LinhasFieis, LinhaFiel
<1>2. /\ passada'[k].resta = passada[k].resta /\ passada'[k].faz = "nada"
      /\ \A j \in Passadas : j # k => passada'[j] = passada[j]
      /\ passada' \in [Passadas -> Varredura]
  BY <1>1 DEF Varredura, LinhaLida, SemLinha, Nunca
<1>3. atend' \in [Atendimentos -> Ficha]
  BY <1>1 DEF ConcluiLinha, Ficha, Fechado
<1>4. \A b \in Atendimentos : atend'[b].falou = atend[b].falou /\ atend'[b].aceita = atend[b].aceita
  BY <1>1 DEF ConcluiLinha, Ficha, Fechado
<1>5. ASSUME NEW b \in seguida', avisos[b] = 0 PROVE atend'[b].avisada = atend[b].avisada
  <2>1. CASE passada[k].faz = "fecha"
    <3>1. atend' = [atend EXCEPT ![c] = Fechado(@)] BY <2>1 DEF ConcluiLinha
    <3>2. atend[c] \in Ficha /\ Fechado(atend[c]).avisada = atend[c].avisada BY <1>1 DEF Ficha, Fechado
    <3>3. b \in Atendimentos BY <1>1, <1>5 DEF TypeOKInatividade
    <3> QED BY <1>1, <3>1, <3>2, <3>3
  <2>2. CASE passada[k].faz = "marca"
    <3>1. b # c BY <1>1, <1>5, <2>2 DEF ConcluiLinha
    <3>2. atend' = [atend EXCEPT ![c].avisada = agora] BY <2>2 DEF ConcluiLinha
    <3>3. b \in Atendimentos BY <1>1, <1>5 DEF TypeOKInatividade
    <3> QED BY <1>1, <3>1, <3>2, <3>3
  <2> QED BY <1>1, <2>1, <2>2
<1>6. Marcha' BY <1>1, <1>2, <1>3, <1>4 DEF InvAviso, Marcha, TypeOKInatividade
<1>7. LinhasFieis'
  BY <1>1, <1>2, <1>4 DEF InvAviso, LinhasFieis, LinhaFiel, Contada
<1>8. ASSUME MinutoDoAviso > 1, NEW a \in seguida', Contada(a)', avisos'[a] = 0 PROVE SemAviso(a)'
  <2>1. a \in Atendimentos /\ atend'[a].falou = atend[a].falou /\ atend'[a].avisada = atend[a].avisada
    BY <1>1, <1>4, <1>5, <1>8 DEF TypeOKInatividade
  <2>2. SemAviso(a) BY <1>1, <1>4, <1>8, <2>1 DEF InvAviso, Contada
  <2>3. \A j \in Passadas : /\ passada'[j].resta = passada[j].resta
                            /\ passada'[j].faz \in {"fecha", "avisa"} => passada'[j] = passada[j]
    BY <1>2
  <2>4. \A m : Atual(a, m)' <=> Atual(a, m) BY <2>1 DEF Atual
  <2>5. \A j \in Passadas, m \in LinhaLida : AAvisar(a, j, m) => AAvisar(a, j, m)'
    BY <1>1, <1>2 DEF AAvisar
  <2>6. SemMarcaDesta(a)' BY <2>1, <2>2 DEF SemAviso, SemMarcaDesta
  <2>7. MarcaDeixada(a)' BY <1>1, <2>1, <2>2, <2>3, <2>4 DEF SemAviso, MarcaDeixada, MinutoDoAviso
  <2>8. Pendente(a)' BY <1>1, <2>1, <2>2, <2>4, <2>5 DEF SemAviso, Pendente, MinutoDoAviso
  <2>9. NinguemFecha(a)' BY <2>1, <2>2, <2>3, <2>4 DEF SemAviso, NinguemFecha
  <2> QED BY <2>6, <2>7, <2>8, <2>9 DEF SemAviso
<1> QED BY <1>6, <1>7, <1>8 DEF InvAviso, MinutoDoAviso

\* Nobody has written at the start.
LEMMA InicioInvAviso == InitInatividade => InvAviso
<1> SUFFICES ASSUME InitInatividade PROVE InvAviso OBVIOUS
<1>1. Marcha
  BY DEF InitInatividade, Marcha, TypeOKInatividade, Ficha, Varredura, PassadaLivre, SemLinha, LinhaLida,
         Nunca, Minuto
<1>2. LinhasFieis BY DEF InitInatividade, LinhasFieis, PassadaLivre
<1>3. \A a \in Atendimentos : ~Contada(a) BY DEF InitInatividade, Contada
<1>4. seguida = Atendimentos BY DEF InitInatividade
<1> QED BY <1>1, <1>2, <1>3, <1>4 DEF InvAviso

\* Every step keeps the invariant about silences without a warning.
LEMMA PassoInvAviso == InvAviso /\ [NextInatividade]_varsInatividade => InvAviso'
<1> SUFFICES ASSUME InvAviso, [NextInatividade]_varsInatividade PROVE InvAviso' OBVIOUS
<1>1. CASE \E a \in Atendimentos : Aceita(a) \/ PausaAtendimento(a) \/ RetomaAtendimento(a)
                                  \/ TransfereAtendimento(a) \/ EncerraAtendimento(a)
  BY <1>1, PessoasMantem
<1>2. CASE \E a \in Atendimentos : Fala(a)
  BY <1>2, FalaMantem
<1>3. CASE PassaTempo \/ (\E a \in Atendimentos : TrocaPolitica(a)) \/ UNCHANGED varsInatividade
  BY <1>3, RelogioEPoliticaMantem
<1>4. CASE SemBatida \/ CaiProcesso
  BY <1>4, PerdaMantem
<1>5. CASE \E k \in Passadas : Bate(k) \/ TrataLinha(k) \/ EnviaAviso(k) \/ ConcluiLinha(k)
  BY <1>5, BateMantem, TrataLinhaMantem, EnviaAvisoMantem, ConcluiLinhaMantem
<1> QED BY <1>1, <1>2, <1>3, <1>4, <1>5 DEF NextInatividade

\* Only the run that is to close a chat closes it, and the row it holds is of an earlier
\* silence unless a warning went.
LEMMA PassoFechaAvisada ==
  ASSUME InvAviso, [NextInatividade]_varsInatividade, MinutoDoAviso > 1,
         NEW a \in Atendimentos, Fechou(a)
  PROVE  FechaAvisada(a) \/ a \notin seguida
<1>1. /\ atend \in [Atendimentos -> Ficha] /\ avisos \in [Atendimentos -> Nat]
      /\ passada \in [Passadas -> Varredura]
  BY DEF InvAviso, Marcha, TypeOKInatividade
<1>2. ASSUME NEW k \in Passadas, ConcluiLinha(k)
      PROVE  FechaAvisada(a) \/ a \notin seguida
  <2> DEFINE l == passada[k].linha
  <2>1. passada[k].faz = "fecha" /\ l.atend = a
    BY <1>1, <1>2 DEF ConcluiLinha, Fechou, Ficha, Fechado
  <2>2. LinhaFiel(l) /\ l.ultima # Nunca /\ l \in LinhaLida
    BY <1>1, <2>1 DEF InvAviso, LinhasFieis, Varredura
  <2>3. Contada(a) /\ l.ultima <= atend[a].falou BY <2>1, <2>2 DEF LinhaFiel
  <2>4. ASSUME a \in seguida, avisos[a] = 0 PROVE l.ultima # atend[a].falou
    <3>1. NinguemFecha(a) BY <2>3, <2>4 DEF InvAviso, SemAviso
    <3> QED BY <2>1, <3>1 DEF NinguemFecha, Atual
  <2>5. atend[a].falou \in Nat /\ l.ultima \in Nat /\ avisos[a] \in Nat
    BY <1>1, <2>2 DEF Ficha, LinhaLida
  <2> QED BY <2>1, <2>3, <2>4, <2>5 DEF FechaAvisada
<1>3. CASE \A k \in Passadas : ~ConcluiLinha(k)
  <2>1. ASSUME NEW b \in Atendimentos,
               Aceita(b) \/ PausaAtendimento(b) \/ RetomaAtendimento(b) \/ TransfereAtendimento(b)
               \/ EncerraAtendimento(b) \/ Fala(b)
        PROVE  ~Fechou(a)
    <3>1. ASSUME NEW n, EscreveLinha(b, n), n.status = "inatividade" => n.status = atend[b].status
          PROVE  ~Fechou(a)
      BY <1>1, <3>1 DEF EscreveLinha, Fechou
    <3>2. CASE Fala(b)
      <4>1. PICK d \in {agora - 1, agora} : EscreveLinha(b, [atend[b] EXCEPT !.falou = d])
        BY <3>2 DEF Fala
      <4> DEFINE n == [atend[b] EXCEPT !.falou = d]
      <4>2. n.status = atend[b].status BY <1>1 DEF Ficha
      <4> QED BY <3>1, <4>1, <4>2
    <3> QED BY <2>1, <3>1, <3>2, PessoaEscreve DEF InvAviso, Marcha
  <2>2. ASSUME NEW k \in Passadas, TrataLinha(k) PROVE ~Fechou(a)
    BY <1>1, <2>2 DEF TrataLinha, Fechou, Ficha
  <2>3. \A k \in Passadas : Bate(k) \/ EnviaAviso(k) => atend' = atend BY DEF Bate, EnviaAviso
  <2>4. SemBatida \/ CaiProcesso \/ PassaTempo \/ (\E b \in Atendimentos : TrocaPolitica(b))
        \/ UNCHANGED varsInatividade => atend' = atend
    BY DEF SemBatida, CaiProcesso, PassaTempo, TrocaPolitica, varsInatividade
  <2>5. atend' # atend BY DEF Fechou
  <2> QED BY <1>3, <2>1, <2>2, <2>3, <2>4, <2>5 DEF NextInatividade
<1> QED BY <1>2, <1>3

\* A chat whose silence every scan followed, alone, is never closed without a warning since
\* a person last wrote, if the warning comes more than a minute after the last message.
THEOREM FechaSempreDepoisDoAviso == SpecInatividade => FechaSoDepoisDoAviso
<1>1. SpecInatividade => []InvAviso
  <2>1. InvAviso /\ [NextInatividade]_varsInatividade => InvAviso' BY PassoInvAviso
  <2> QED BY InicioInvAviso, <2>1, PTL DEF SpecInatividade
<1>2. InvAviso /\ [NextInatividade]_varsInatividade =>
        [MinutoDoAviso > 1 =>
           \A a \in Atendimentos : Fechou(a) => FechaAvisada(a) \/ a \notin seguida]_varsInatividade
  BY PassoFechaAvisada
<1> QED BY <1>1, <1>2, PTL DEF SpecInatividade, FechaSoDepoisDoAviso

\* The typing of the scan's state, for any number of chats and of runs.
THEOREM TipoDaInatividade == SpecInatividade => []TypeOKInatividade
<1>1. InvAviso /\ [NextInatividade]_varsInatividade => InvAviso' BY PassoInvAviso
<1>2. InvAviso => TypeOKInatividade BY DEF InvAviso, Marcha
<1> QED BY InicioInvAviso, <1>1, <1>2, PTL DEF SpecInatividade

\* Runs that have something to do about a, and the chats of a run are different.
Sobre(a, k) == \/ \E l \in passada[k].resta : l.atend = a
               \/ passada[k].faz # "nada" /\ passada[k].linha.atend = a
LinhasUnicas(k) ==
    /\ \A l, m \in passada[k].resta : l.atend = m.atend => l = m
    /\ passada[k].faz # "nada" => \A l \in passada[k].resta : l.atend # passada[k].linha.atend
UmaPassada(a) == \A j, k \in Passadas : Sobre(a, j) /\ Sobre(a, k) => j = k

\* After its warning a silence has a mark, or is about to, and what is read then shows it.
Marcando(a) == \E k \in Passadas : passada[k].faz = "marca" /\ passada[k].linha.atend = a
Marcada(a) ==
    /\ atend[a].avisada # Nunca /\ atend[a].falou <= atend[a].avisada
    /\ \A k \in Passadas :
          /\ \A l \in passada[k].resta : l.atend = a => l.avisada = atend[a].avisada
          /\ passada[k].faz = "avisa" => passada[k].linha.atend # a
InvUm ==
    /\ Marcha /\ LinhasFieis
    /\ \A k \in Passadas : LinhasUnicas(k)
    /\ \A a \in seguida : UmaPassada(a) /\ (avisos[a] # 0 => avisos[a] = 1 /\ (Marcando(a) \/ Marcada(a)))

\* What leaves runs, messages and marks alone leaves the warnings alone.
LEMMA UmIntacto ==
  ASSUME InvUm, InvAviso', passada' = passada, seguida' \subseteq seguida, avisos' = avisos,
         \A a \in Atendimentos : atend'[a].falou = atend[a].falou /\ atend'[a].avisada = atend[a].avisada
  PROVE  InvUm'
<1>1. seguida \subseteq Atendimentos BY DEF InvUm, Marcha, TypeOKInatividade
<1>2. \A a \in seguida : Marcada(a) => Marcada(a)' BY <1>1 DEF Marcada
<1>3. \A a \in seguida : /\ UmaPassada(a) => UmaPassada(a)' 
                         /\ Marcando(a) => Marcando(a)' BY DEF UmaPassada, Sobre, Marcando
<1>4. \A k \in Passadas : LinhasUnicas(k)' BY DEF InvUm, LinhasUnicas
<1> QED BY <1>2, <1>3, <1>4 DEF InvUm, InvAviso

\* A message starts the count again, followed only if one run at most is about the chat.
LEMMA FalaMantemUm ==
  ASSUME InvUm, InvAviso', NEW a \in Atendimentos, Fala(a)
  PROVE  InvUm'
<1>1. PICK d \in {agora - 1, agora} :
        /\ EscreveLinha(a, [atend[a] EXCEPT !.falou = d])
        /\ seguida' = IF (\E j, k \in ComDecisao(a) : j # k) \/ atend[a].avisada >= d
                      THEN seguida \ {a} ELSE seguida \cup {a}
  BY DEF Fala
<1>2. /\ atend \in [Atendimentos -> Ficha] /\ passada' = passada /\ avisos' = [avisos EXCEPT ![a] = 0]
      /\ avisos \in [Atendimentos -> Nat] /\ seguida \subseteq Atendimentos
      /\ \A b \in Atendimentos : b # a => atend'[b] = atend[b]
  BY <1>1 DEF InvUm, Marcha, TypeOKInatividade, EscreveLinha, Fala
<1>3. \A k \in Passadas : LinhasUnicas(k)' BY <1>2 DEF InvUm, LinhasUnicas
<1>4. ASSUME NEW b \in seguida', b # a
      PROVE  UmaPassada(b)' /\ (avisos'[b] # 0 => avisos'[b] = 1 /\ (Marcando(b) \/ Marcada(b))')
  <2>1. b \in seguida /\ b \in Atendimentos /\ atend'[b] = atend[b] /\ avisos'[b] = avisos[b]
    BY <1>1, <1>2, <1>4
  <2> QED BY <1>2, <2>1 DEF InvUm, UmaPassada, Sobre, Marcando, Marcada
<1>5. ASSUME a \in seguida' PROVE UmaPassada(a)' /\ avisos'[a] = 0
  <2>1. \A j, k \in ComDecisao(a) : j = k BY <1>1, <1>5
  <2>2. ASSUME NEW k \in Passadas, Sobre(a, k) PROVE k \in ComDecisao(a)
    <3>1. passada[k].faz # "nada" => passada[k].linha # SemLinha
      BY DEF InvUm, LinhasFieis, SemLinha
    <3> QED BY <2>2, <3>1 DEF Sobre, ComDecisao, Decisoes
  <2> QED BY <1>2, <2>1, <2>2 DEF UmaPassada, Sobre
<1> QED BY <1>3, <1>4, <1>5 DEF InvUm, InvAviso

\* A lost scan or a restart ends what is followed.
LEMMA PerdaMantemUm ==
  ASSUME InvUm, InvAviso', SemBatida \/ CaiProcesso
  PROVE  InvUm'
<1>1. seguida' = {} /\ (passada' = passada \/ passada' = [k \in Passadas |-> PassadaLivre])
  BY DEF SemBatida, CaiProcesso
<1>2. \A k \in Passadas : LinhasUnicas(k)' BY <1>1 DEF InvUm, LinhasUnicas, PassadaLivre
<1> QED BY <1>1, <1>2 DEF InvUm, InvAviso

\* The scan that follows a silence finds no other run at work, and reads the mark.
LEMMA BateMantemUm ==
  ASSUME InvUm, InvAviso', NEW k \in Passadas, Bate(k)
  PROVE  InvUm'
<1>1. /\ passada \in [Passadas -> Varredura] /\ passada[k] = PassadaLivre
      /\ passada' = [passada EXCEPT ![k].resta = Linhas] /\ seguida' = Acompanhadas
      /\ UNCHANGED <<atend, avisos>>
  BY DEF InvUm, Marcha, TypeOKInatividade, Bate, Ocupada
<1>2. /\ passada'[k].resta = Linhas /\ passada'[k].faz = "nada"
      /\ \A j \in Passadas : j # k => passada'[j] = passada[j]
  BY <1>1 DEF Varredura, PassadaLivre
<1>3. \A l \in Linhas : l.avisada = atend[l.atend].avisada BY DEF Linhas
<1>4. \A l, m \in Linhas : l.atend = m.atend => l = m BY DEF Linhas
<1>5. \A j \in Passadas : LinhasUnicas(j)' BY <1>2, <1>4 DEF InvUm, LinhasUnicas
<1>6. ASSUME NEW a \in seguida'
      PROVE  UmaPassada(a)' /\ (avisos'[a] # 0 => avisos'[a] = 1 /\ (Marcando(a) \/ Marcada(a))')
  <2>1. a \in seguida /\ \A j \in Passadas : passada[j] = PassadaLivre
    BY <1>1, <1>6 DEF Acompanhadas, Ocupada
  <2>2. \A j \in Passadas : j # k => passada'[j].resta = {} /\ passada'[j].faz = "nada"
    BY <1>2, <2>1 DEF PassadaLivre
  <2>3. UmaPassada(a)' BY <1>2, <2>2 DEF UmaPassada, Sobre
  <2>4. ~Marcando(a) BY <2>1 DEF Marcando, PassadaLivre
  <2>5. Marcada(a) => Marcada(a)' BY <1>1, <1>2, <1>3, <2>2 DEF Marcada
  <2> QED BY <1>1, <2>1, <2>3, <2>4, <2>5 DEF InvUm
<1> QED BY <1>5, <1>6 DEF InvUm, InvAviso

\* A row that shows the mark is neither warned of again nor unmarked.
LEMMA TrataLinhaMantemUm ==
  ASSUME InvUm, InvAviso', NEW k \in Passadas, TrataLinha(k)
  PROVE  InvUm'
<1>1. PICK l \in passada[k].resta :
        /\ \E faz \in {"nada", "fecha", "avisa"} :
              ComDecisaoTomada(k, l, faz) /\ (faz = "avisa" => ~Avisada(l))
        /\ atend' = atend \/ (Respondida(l) /\ atend' = [atend EXCEPT ![l.atend].avisada = Nunca])
        /\ seguida' \subseteq seguida /\ avisos' = avisos /\ passada[k].faz = "nada"
  BY DEF TrataLinha
<1>2. PICK faz \in {"nada", "fecha", "avisa"} :
        ComDecisaoTomada(k, l, faz) /\ (faz = "avisa" => ~Avisada(l))
  BY <1>1
<1>3. /\ passada \in [Passadas -> Varredura] /\ atend \in [Atendimentos -> Ficha]
      /\ seguida \subseteq Atendimentos /\ l \in LinhaLida /\ LinhaFiel(l)
  BY <1>1 DEF InvUm, Marcha, TypeOKInatividade, LinhasFieis, Varredura
<1>4. /\ passada'[k].resta = passada[k].resta \ {l} /\ passada'[k].faz = faz
      /\ faz # "nada" => passada'[k].linha = l
      /\ \A j \in Passadas : j # k => passada'[j] = passada[j]
  BY <1>2, <1>3 DEF ComDecisaoTomada
<1>5. \A j \in Passadas : LinhasUnicas(j)' BY <1>1, <1>4 DEF InvUm, LinhasUnicas
<1>6. ASSUME NEW a \in seguida'
      PROVE  UmaPassada(a)' /\ (avisos'[a] # 0 => avisos'[a] = 1 /\ (Marcando(a) \/ Marcada(a))')
  <2>1. a \in seguida /\ a \in Atendimentos /\ UmaPassada(a) BY <1>1, <1>3, <1>6 DEF InvUm
  <2>2. \A j \in Passadas : Sobre(a, j)' => Sobre(a, j) BY <1>1, <1>4 DEF Sobre
  <2>3. UmaPassada(a)' BY <2>1, <2>2 DEF UmaPassada
  <2>4. Marcando(a) => Marcando(a)' BY <1>1, <1>4 DEF Marcando
  <2>5. ASSUME Marcada(a) PROVE Marcada(a)'
    <3>1. l.atend = a => Avisada(l) /\ ~Respondida(l)
      <4>1. l.atend = a => l.avisada = atend[a].avisada /\ l.avisada # Nunca /\ atend[a].falou <= l.avisada
        BY <1>1, <2>5 DEF Marcada
      <4>2. l.atend = a => l.ultima = Nunca \/ l.ultima <= atend[a].falou
        BY <1>3 DEF LinhaFiel
      <4>3. l.ultima \in Nat /\ l.avisada \in Nat /\ atend[a].falou \in Nat
        BY <1>3, <2>1 DEF LinhaLida, Ficha
      <4> QED BY <4>1, <4>2, <4>3 DEF Avisada, Respondida, Nunca
    <3>2. atend'[a] = atend[a]
      BY <1>1, <1>3, <2>1, <3>1 DEF Ficha
    <3> QED BY <1>2, <1>4, <2>5, <3>1, <3>2 DEF Marcada
  <2> QED BY <1>1, <2>1, <2>3, <2>4, <2>5 DEF InvUm
<1> QED BY <1>5, <1>6 DEF InvUm, InvAviso

\* A warning goes only when there was none: the run that sends it is the only one about it.
LEMMA EnviaAvisoMantemUm ==
  ASSUME InvUm, InvAviso', NEW k \in Passadas, EnviaAviso(k)
  PROVE  InvUm'
<1> DEFINE c == passada[k].linha.atend
<1>1. /\ passada \in [Passadas -> Varredura] /\ avisos \in [Atendimentos -> Nat]
      /\ seguida \subseteq Atendimentos /\ seguida' \subseteq seguida
      /\ passada[k].faz = "avisa" /\ passada' = [passada EXCEPT ![k].faz = "marca"] /\ atend' = atend
  BY DEF InvUm, Marcha, TypeOKInatividade, EnviaAviso
<1>2. /\ passada'[k].resta = passada[k].resta /\ passada'[k].linha = passada[k].linha
      /\ passada'[k].faz = "marca"
      /\ \A j \in Passadas : j # k => passada'[j] = passada[j]
  BY <1>1 DEF Varredura
<1>3. \A j \in Passadas : LinhasUnicas(j)' BY <1>1, <1>2 DEF InvUm, LinhasUnicas
<1>4. ASSUME NEW a \in seguida'
      PROVE  UmaPassada(a)' /\ (avisos'[a] # 0 => avisos'[a] = 1 /\ (Marcando(a) \/ Marcada(a))')
  <2>1. a \in seguida /\ a \in Atendimentos /\ UmaPassada(a)
        /\ (avisos[a] # 0 => avisos[a] = 1 /\ (Marcando(a) \/ Marcada(a)))
    BY <1>1, <1>4 DEF InvUm
  <2>2. \A j \in Passadas : Sobre(a, j)' => Sobre(a, j) BY <1>1, <1>2 DEF Sobre
  <2>3. UmaPassada(a)' BY <2>1, <2>2 DEF UmaPassada
  <2>4. CASE a = c
    <3>1. Sobre(a, k) BY <1>1, <2>4 DEF Sobre
    <3>2. \A j \in Passadas : Sobre(a, j) => j = k BY <2>1, <3>1 DEF UmaPassada
    <3>3. ~Marcando(a) BY <1>1, <3>2 DEF Marcando, Sobre
    <3>4. ~Marcada(a) BY <1>1, <2>4 DEF Marcada
    <3>5. avisos[a] = 0 BY <2>1, <3>3, <3>4
    <3>6. avisos'[a] \in {0, 1} BY <1>1, <2>1, <2>4, <3>5 DEF EnviaAviso
    <3>7. Marcando(a)' BY <1>2, <2>4 DEF Marcando
    <3> QED BY <2>3, <3>6, <3>7
  <2>5. CASE a # c
    <3>1. avisos'[a] = avisos[a] BY <1>1, <2>1, <2>5 DEF EnviaAviso
    <3>2. Marcando(a) => Marcando(a)' BY <1>1, <1>2 DEF Marcando
    <3>3. Marcada(a) => Marcada(a)' BY <1>1, <1>2 DEF Marcada
    <3> QED BY <2>1, <2>3, <3>1, <3>2, <3>3
  <2> QED BY <2>4, <2>5
<1> QED BY <1>3, <1>4 DEF InvUm, InvAviso

\* The mark is written after the warning and before any other run reads the chat.
LEMMA ConcluiLinhaMantemUm ==
  ASSUME InvUm, InvAviso', NEW k \in Passadas, ConcluiLinha(k)
  PROVE  InvUm'
<1> DEFINE c == passada[k].linha.atend
<1>1. /\ passada \in [Passadas -> Varredura] /\ atend \in [Atendimentos -> Ficha] /\ agora \in Nat
      /\ seguida \subseteq Atendimentos /\ seguida' \subseteq seguida /\ avisos' = avisos
      /\ passada[k].faz \in {"fecha", "marca"} /\ c \in Atendimentos /\ Contada(c)
      /\ passada' = [passada EXCEPT ![k].faz = "nada", ![k].linha = SemLinha]
  BY DEF InvUm, Marcha, TypeOKInatividade, ConcluiLinha, LinhasFieis, LinhaFiel
<1>2. /\ passada'[k].resta = passada[k].resta /\ passada'[k].faz = "nada"
      /\ \A j \in Passadas : j # k => passada'[j] = passada[j]
  BY <1>1 DEF Varredura
<1>3. \A j \in Passadas : LinhasUnicas(j)' BY <1>1, <1>2 DEF InvUm, LinhasUnicas
<1>4. /\ \A b \in Atendimentos : b # c => atend'[b] = atend[b]
      /\ atend'[c].falou = atend[c].falou
      /\ atend'[c].avisada = IF passada[k].faz = "marca" THEN agora ELSE atend[c].avisada
  <2>1. atend[c] \in Ficha BY <1>1
  <2>2. CASE passada[k].faz = "fecha"
    <3>1. atend' = [atend EXCEPT ![c] = Fechado(@)] BY <2>2 DEF ConcluiLinha
    <3>2. Fechado(atend[c]).falou = atend[c].falou /\ Fechado(atend[c]).avisada = atend[c].avisada
      BY <2>1 DEF Ficha, Fechado
    <3> QED BY <1>1, <2>2, <3>1, <3>2
  <2>3. CASE passada[k].faz = "marca"
    <3>1. atend' = [atend EXCEPT ![c].avisada = agora] BY <2>3 DEF ConcluiLinha
    <3> QED BY <1>1, <2>1, <2>3, <3>1 DEF Ficha
  <2> QED BY <1>1, <2>2, <2>3
<1>5. ASSUME NEW a \in seguida'
      PROVE  UmaPassada(a)' /\ (avisos'[a] # 0 => avisos'[a] = 1 /\ (Marcando(a) \/ Marcada(a))')
  <2>1. a \in seguida /\ a \in Atendimentos /\ UmaPassada(a)
        /\ (avisos[a] # 0 => avisos[a] = 1 /\ (Marcando(a) \/ Marcada(a)))
    BY <1>1, <1>5 DEF InvUm
  <2>2. \A j \in Passadas : Sobre(a, j)' => Sobre(a, j) BY <1>1, <1>2 DEF Sobre
  <2>3. UmaPassada(a)' BY <2>1, <2>2 DEF UmaPassada
  <2>4. CASE a = c
    <3>1. Sobre(a, k) /\ \A j \in Passadas : Sobre(a, j) => j = k
      BY <1>1, <2>1, <2>4 DEF Sobre, UmaPassada
    <3>2. \A l \in passada[k].resta : l.atend # a BY <1>1, <2>4 DEF InvUm, LinhasUnicas
    <3>3. \A j \in Passadas : /\ \A l \in passada'[j].resta : l.atend # a
                              /\ passada'[j].faz = "avisa" => passada'[j].linha.atend # a
      BY <1>2, <3>1, <3>2 DEF Sobre
    <3>4. CASE passada[k].faz = "marca"
      <4>1. atend[a].falou <= agora /\ atend[a].falou \in Nat /\ atend[a].aceita \in Nat
            /\ atend[a].falou > atend[a].aceita
        BY <1>1, <2>1, <2>4 DEF InvUm, Marcha, Ficha, Contada
      <4>2. agora # Nunca BY <1>1, <4>1 DEF Nunca
      <4>3. Marcada(a)' BY <1>4, <2>4, <3>3, <3>4, <4>1, <4>2 DEF Marcada
      <4> QED BY <1>1, <2>1, <2>3, <4>3
    <3>5. CASE passada[k].faz = "fecha"
      <4>1. ~Marcando(a) BY <3>1, <3>5 DEF Marcando, Sobre
      <4>2. Marcada(a) => Marcada(a)' BY <1>4, <2>4, <3>3, <3>5 DEF Marcada
      <4> QED BY <1>1, <2>1, <2>3, <4>1, <4>2
    <3> QED BY <1>1, <3>4, <3>5
  <2>5. CASE a # c
    <3>1. atend'[a] = atend[a] BY <1>4, <2>1, <2>5
    <3>2. Marcando(a) => Marcando(a)' BY <1>2, <2>5 DEF Marcando
    <3>3. Marcada(a) => Marcada(a)' BY <1>2, <3>1 DEF Marcada
    <3> QED BY <1>1, <2>1, <2>3, <3>2, <3>3
  <2> QED BY <2>4, <2>5
<1> QED BY <1>3, <1>5 DEF InvUm, InvAviso

\* One silence that every scan followed, alone, is warned of once at most.
THEOREM UmAvisoSempre == SpecInatividade => []UmAvisoPorSilencio
<1>1. InitInatividade => InvUm
  BY InicioInvAviso DEF InitInatividade, InvUm, InvAviso, LinhasUnicas, UmaPassada, Sobre, PassadaLivre
<1>2. ASSUME InvUm, InvAviso, InvAviso', [NextInatividade]_varsInatividade PROVE InvUm'
  <2>1. ASSUME NEW a \in Atendimentos,
               Aceita(a) \/ PausaAtendimento(a) \/ RetomaAtendimento(a) \/ TransfereAtendimento(a)
               \/ EncerraAtendimento(a)
        PROVE  InvUm'
    <3>1. /\ passada' = passada /\ seguida' = seguida /\ avisos' = avisos
          /\ \E n : EscreveLinha(a, n) /\ n.falou = atend[a].falou /\ n.avisada = atend[a].avisada
      BY <1>2, <2>1, PessoaEscreve DEF InvUm, Marcha, MesmoSilencio
    <3>2. atend \in [Atendimentos -> Ficha] BY <1>2 DEF InvUm, Marcha, TypeOKInatividade
    <3>3. \A b \in Atendimentos : atend'[b].falou = atend[b].falou /\ atend'[b].avisada = atend[b].avisada
      BY <3>1, <3>2 DEF EscreveLinha
    <3> QED BY <1>2, <3>1, <3>3, UmIntacto
  <2>2. CASE \E a \in Atendimentos : Fala(a) BY <1>2, <2>2, FalaMantemUm
  <2>3. CASE PassaTempo \/ (\E a \in Atendimentos : TrocaPolitica(a)) \/ UNCHANGED varsInatividade
    <3>1. UNCHANGED <<atend, passada, avisos, seguida>>
      BY <2>3 DEF PassaTempo, TrocaPolitica, varsInatividade
    <3> QED BY <1>2, <3>1, UmIntacto
  <2>4. CASE SemBatida \/ CaiProcesso BY <1>2, <2>4, PerdaMantemUm
  <2>5. CASE \E k \in Passadas : Bate(k) \/ TrataLinha(k) \/ EnviaAviso(k) \/ ConcluiLinha(k)
    BY <1>2, <2>5, BateMantemUm, TrataLinhaMantemUm, EnviaAvisoMantemUm, ConcluiLinhaMantemUm
  <2> QED BY <1>2, <2>1, <2>2, <2>3, <2>4, <2>5 DEF NextInatividade
<1>3. InvUm => UmAvisoPorSilencio
  <2> SUFFICES ASSUME InvUm, NEW a \in Atendimentos, a \in seguida PROVE avisos[a] <= 1
    BY DEF UmAvisoPorSilencio
  <2>1. avisos[a] = 0 \/ avisos[a] = 1 BY DEF InvUm
  <2> QED BY <2>1
<1>4. InvAviso /\ [NextInatividade]_varsInatividade => InvAviso' BY PassoInvAviso
<1> QED BY InicioInvAviso, <1>1, <1>2, <1>3, <1>4, PTL DEF SpecInatividade

================================================================================
