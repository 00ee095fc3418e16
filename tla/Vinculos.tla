------------------------------ MODULE Vinculos ------------------------------
(***************************************************************************)
(* The registration of channels, chatbots and departments where the three  *)
(* meet: a channel has departments, one of them its default, and at most   *)
(* one chatbot of each type; a chatbot has a draft and published versions  *)
(* whose nodes name departments (channels.service, chatbots-do-canal,      *)
(* chatbots.service, departments.service).  Requests run at the same time: *)
(* what is read before a transaction may be old in it, a row that a        *)
(* transaction locked waits for its end, and others see what it wrote only *)
(* after it commits.                                                       *)
(*                                                                         *)
(* A flow is the departments its nodes set or ask the hours of (define),   *)
(* those it hands the conversation to (encaminha), and whether a node      *)
(* waits for the customer without a deadline (semPrazo).                   *)
(***************************************************************************)
EXTENDS Naturals, FiniteSets

CONSTANTS Canais, Bots, Setores,
          BotsDeSaida,     \* the chatbots of type "saida"; the others are "entrada"
          Requisicoes,     \* requests that may run at once
          MaxRequisicoes,  \* bound: requests made
          SemValor         \* a field the request does not have

VARIABLES vinculo,      \* channel -> [setores, padrao, bots]
          bot,        \* chatbot -> [ativo, removido, rascunho, vigente]
          versoes,    \* [bot, numero, grafo]: chatbot_flow_versions published
          extintos,   \* departments removed
          req,        \* what each request is doing
          feitas,     \* bound's counter
          corrida,    \* (history) channels whose default was chosen among departments they had
          descuido    \* (history) channels whose departments changed without a look at the flows

varsVinculos == <<vinculo, bot, versoes, extintos, req, feitas, corrida, descuido>>

ASSUME VinculosAssumption ==
    /\ BotsDeSaida \subseteq Bots /\ IsFiniteSet(Setores) /\ MaxRequisicoes \in Nat
    /\ SemValor \notin Setores /\ \A S \in SUBSET Setores : S # SemValor

TipoDe(b) == IF b \in BotsDeSaida THEN "saida" ELSE "entrada"
GrafoVazio == [define |-> {}, encaminha |-> {}, semPrazo |-> FALSE]
Grafos == {GrafoVazio, [GrafoVazio EXCEPT !.semPrazo = TRUE]}
          \cup [define : {{s} : s \in Setores}, encaminha : {{}}, semPrazo : {FALSE}]
          \cup [define : {{}}, encaminha : {{s} : s \in Setores}, semPrazo : {FALSE}]
LinhaDoBot == [ativo : BOOLEAN, removido : BOOLEAN, rascunho : Grafos, vigente : Nat]
SemRequisicao == [op |-> "nenhuma"]
VersoesDe(b) == {v \in versoes : v.bot = b}
GrafoVigente(b) == (CHOOSE v \in VersoesDe(b) : v.numero = bot[b].vigente).grafo

\* Channels just created, with no department or with all of them, and chatbots with a
\* draft somebody has already worked on.
InitVinculos ==
    /\ \E setores \in {{}, Setores}, padrao \in Setores :
          vinculo = [c \in Canais |-> [setores |-> setores, bots |-> {},
                                    padrao |-> IF setores = {} THEN SemValor ELSE padrao]]
    /\ \E g \in Grafos :
          bot = [b \in Bots |-> [ativo |-> TRUE, removido |-> FALSE, rascunho |-> g, vigente |-> 0]]
    /\ versoes = {} /\ extintos = {}
    /\ req = [r \in Requisicoes |-> SemRequisicao]
    /\ feitas = 0
    /\ corrida = {} /\ descuido = {}

(***************************************************************************)
(* Row locks: those of the transactions that are open                      *)
(***************************************************************************)
\* (mutant) The channel is changed without SELECT ... FOR UPDATE.
SemTravaDoCanal(c) == TRUE

CanalLivre(c) == \A r \in Requisicoes : req[r].op = "grava_canal" => req[r].canal # c

\* FOR SHARE of the chatbots a channel is being given; FOR UPDATE of the one published.
Compartilha(b) == \E r \in Requisicoes : req[r].op = "grava_canal" /\ b \in req[r].novos
Publicando(b) == \E r \in Requisicoes : req[r].op = "publica" /\ req[r].bot = b

BotLivre(b) == ~Compartilha(b) /\ ~Publicando(b)

(***************************************************************************)
(* Channels                                                                *)
(***************************************************************************)
\* Without departments the request is about those the channel has.
Considerados(c, setores) == IF setores = SemValor THEN vinculo[c].setores ELSE setores

\* validaSetorPadrao, before the transaction: the default the request will write.
Padrao(c, setores, padrao) ==
    LET ids == Considerados(c, setores)
        querido == IF padrao = SemValor THEN vinculo[c].padrao ELSE padrao
    IN IF ids = {} THEN [ok |-> TRUE, valor |-> SemValor]
       ELSE IF ids \cap extintos # {} THEN [ok |-> FALSE]
       ELSE IF Cardinality(ids) = 1 THEN [ok |-> TRUE, valor |-> CHOOSE s \in ids : TRUE]
       ELSE IF querido \in ids THEN [ok |-> TRUE, valor |-> querido] ELSE [ok |-> FALSE]

\* updateChannel up to its transaction.  `liga` has the chatbots the request names, and
\* `tipos` the types it speaks of: a type without a chatbot loses the one it had.  (A
\* default that would be ignored is not enumerated.)
PedeCanal(r, c, setores, padrao, tipos, liga) ==
    /\ req[r] = SemRequisicao /\ feitas < MaxRequisicoes
    /\ padrao # SemValor => Cardinality(Considerados(c, setores)) > 1
    /\ Padrao(c, setores, padrao).ok
    /\ feitas' = feitas + 1
    /\ req' = [req EXCEPT ![r] = [op |-> "pede_canal", canal |-> c, setores |-> setores,
            padrao |-> Padrao(c, setores, padrao).valor, tipos |-> tipos, liga |-> liga,
            olhados |-> IF setores = SemValor THEN vinculo[c].setores ELSE setores]]
    /\ UNCHANGED <<vinculo, bot, versoes, extintos, corrida, descuido>>

\* The chatbot the channel is given exists, and its nodes set or ask the hours of
\* departments of the channel only.
AceitaBot(b, setores) ==
    /\ ~bot[b].removido
    /\ bot[b].vigente # 0 => GrafoVigente(b).define \subseteq setores

\* The transaction up to its last statement: the row locked, the chatbots checked.
GravaCanal(r) ==
    LET q == req[r]
        setores == IF q.setores = SemValor THEN vinculo[q.canal].setores ELSE q.setores \ extintos
    IN /\ q.op = "pede_canal"
       /\ CanalLivre(q.canal)
       /\ \A b \in q.liga : ~Publicando(b)
       /\ req' = [req EXCEPT ![r] =
            IF \A b \in q.liga : AceitaBot(b, setores)
            THEN [op |-> "grava_canal", canal |-> q.canal, setores |-> setores,
                  troca |-> q.setores # SemValor, padrao |-> q.padrao,
                  olhados |-> q.olhados, novos |-> q.liga,
                  apagados |-> {b \in vinculo[q.canal].bots : TipoDe(b) \in q.tipos}]
            ELSE SemRequisicao]
       /\ UNCHANGED <<vinculo, bot, versoes, extintos, feitas, corrida, descuido>>

ConfirmaCanal(r) ==
    LET q == req[r]
        c == q.canal
    IN /\ q.op = "grava_canal"
       /\ vinculo' = [vinculo EXCEPT ![c] = [setores |-> q.setores, padrao |-> q.padrao,
                                        bots |-> (@.bots \ q.apagados) \cup q.novos]]
       /\ corrida' = IF q.setores # q.olhados THEN corrida \cup {c} ELSE corrida \ {c}
       /\ descuido' = IF \/ q.troca /\ vinculo'[c].bots # q.novos
                         \/ \E b \in q.novos : bot[b].vigente # 0
                                               /\ ~(GrafoVigente(b).encaminha \subseteq q.setores)
                      THEN descuido \cup {c}
                      ELSE IF q.troca THEN descuido \ {c} ELSE descuido
       /\ req' = [req EXCEPT ![r] = SemRequisicao]
       /\ UNCHANGED <<bot, versoes, extintos, feitas>>

\* departments.remove: the channels keep the department they had.
RemoveSetor(s) ==
    /\ s \notin extintos /\ feitas < MaxRequisicoes
    /\ feitas' = feitas + 1
    /\ extintos' = extintos \cup {s}
    /\ UNCHANGED <<vinculo, bot, versoes, req, corrida, descuido>>

(***************************************************************************)
(* Chatbots                                                                *)
(***************************************************************************)
MudaBot(b, novo) ==
    /\ feitas < MaxRequisicoes
    /\ feitas' = feitas + 1
    /\ bot' = [bot EXCEPT ![b] = novo]
    /\ UNCHANGED <<vinculo, versoes, extintos, req, corrida, descuido>>

\* saveFlow, unpublish, remove: each waits for the row and changes its part of it.
SalvaFluxo(b) == /\ BotLivre(b) /\ ~bot[b].removido
                 /\ \E g \in Grafos \ {bot[b].rascunho} : MudaBot(b, [bot[b] EXCEPT !.rascunho = g])
Despublica(b) == /\ BotLivre(b) /\ ~bot[b].removido /\ bot[b].vigente # 0
                 /\ MudaBot(b, [bot[b] EXCEPT !.vigente = 0])
RemoveBot(b) == /\ BotLivre(b) /\ ~bot[b].removido
                /\ MudaBot(b, [bot[b] EXCEPT !.removido = TRUE])

\* publish up to its last statement: the row locked, the draft read and checked against
\* the channels as they are committed.
CanaisDe(b) == {c \in Canais : b \in vinculo[c].bots}
\* (mutant) The channels that have the chatbot are not asked.
PublicavelSemCanais(b, g) ==
    /\ TipoDe(b) = "saida" => ~g.semPrazo /\ g.encaminha = {}
    /\ (g.define \cup g.encaminha) \cap extintos = {}

Publicavel(b, g) ==
    LET usados == g.define \cup g.encaminha
    IN /\ TipoDe(b) = "saida" => ~g.semPrazo /\ g.encaminha = {}
       /\ usados \cap extintos = {}
       /\ \A c \in CanaisDe(b) : usados \subseteq vinculo[c].setores

ProximaVersao(b) == Cardinality(VersoesDe(b)) + 1

Publica(r, b) ==
    /\ req[r] = SemRequisicao /\ feitas < MaxRequisicoes
    /\ BotLivre(b) /\ ~bot[b].removido
    /\ Publicavel(b, bot[b].rascunho)
    /\ bot[b].vigente # 0 => GrafoVigente(b) # bot[b].rascunho
    /\ feitas' = feitas + 1
    /\ req' = [req EXCEPT ![r] = [op |-> "publica", bot |-> b, grafo |-> bot[b].rascunho,
                                  numero |-> ProximaVersao(b)]]
    /\ UNCHANGED <<vinculo, bot, versoes, extintos, corrida, descuido>>

ConfirmaPublicacao(r) ==
    LET q == req[r]
    IN /\ q.op = "publica"
       /\ versoes' = versoes \cup {[bot |-> q.bot, numero |-> q.numero, grafo |-> q.grafo]}
       /\ bot' = [bot EXCEPT ![q.bot].vigente = q.numero]
       /\ req' = [req EXCEPT ![r] = SemRequisicao]
       /\ UNCHANGED <<vinculo, extintos, feitas, corrida, descuido>>

\* update: the row is read before the transaction, which writes only the given fields.
PedeEdicao(r, b, ativo) ==
    /\ req[r] = SemRequisicao /\ feitas < MaxRequisicoes
    /\ ~bot[b].removido
    /\ ativo => \A c \in CanaisDe(b), k \in Bots \ {b} :
                  ~(k \in vinculo[c].bots /\ bot[k].ativo /\ ~bot[k].removido /\ TipoDe(k) = TipoDe(b))
    /\ feitas' = feitas + 1
    /\ req' = [req EXCEPT ![r] = [op |-> "edita", bot |-> b, lido |-> bot[b], ativo |-> ativo]]
    /\ UNCHANGED <<vinculo, bot, versoes, extintos, corrida, descuido>>

\* (mutant) The row that was read is saved whole.
LinhaInteira(atual, lido, ativo) == [lido EXCEPT !.ativo = ativo]

SoOCampo(atual, lido, ativo) == [atual EXCEPT !.ativo = ativo]

ConfirmaEdicao(r) ==
    LET q == req[r]
    IN /\ q.op = "edita" /\ BotLivre(q.bot)
       /\ bot' = [bot EXCEPT ![q.bot] = SoOCampo(@, q.lido, q.ativo)]
       /\ req' = [req EXCEPT ![r] = SemRequisicao]
       /\ UNCHANGED <<vinculo, versoes, extintos, feitas, corrida, descuido>>

-----------------------------------------------------------------------------
\* The chatbots a request gives: it says nothing, or none or one of a type.  (Bound: a
\* request that gives both types is left out.)
Escolhas == [tipos : {{}, {"entrada"}, {"saida"}}, liga : {{}}]
            \cup {[tipos |-> {TipoDe(b)}, liga |-> {b}] : b \in Bots}

NextVinculos ==
    \/ \E r \in Requisicoes :
          \/ \E c \in Canais, setores \in {SemValor} \cup SUBSET Setores,
                padrao \in {SemValor} \cup Setores, e \in Escolhas :
                PedeCanal(r, c, setores, padrao, e.tipos, e.liga)
          \/ GravaCanal(r) \/ ConfirmaCanal(r)
          \/ \E b \in Bots : Publica(r, b) \/ \E ativo \in BOOLEAN : PedeEdicao(r, b, ativo)
          \/ ConfirmaPublicacao(r) \/ ConfirmaEdicao(r)
    \/ \E s \in Setores : RemoveSetor(s)
    \/ \E b \in Bots : SalvaFluxo(b) \/ Despublica(b) \/ RemoveBot(b)

SpecVinculos == InitVinculos /\ [][NextVinculos]_varsVinculos

-----------------------------------------------------------------------------
\* The typing of the state; the fields of a request are what its statements use later.
Requisicao ==
    {SemRequisicao}
    \cup [op : {"pede_canal"}, canal : Canais, setores : {SemValor} \cup SUBSET Setores,
          padrao : Setores \cup {SemValor}, tipos : SUBSET {"entrada", "saida"},
          liga : SUBSET Bots, olhados : SUBSET Setores]
    \cup [op : {"grava_canal"}, canal : Canais, setores : SUBSET Setores, troca : BOOLEAN,
          padrao : Setores \cup {SemValor}, olhados : SUBSET Setores, novos : SUBSET Bots,
          apagados : SUBSET Bots]
    \cup [op : {"publica"}, bot : Bots, grafo : Grafos, numero : Nat \ {0}]
    \cup [op : {"edita"}, bot : Bots, lido : LinhaDoBot, ativo : BOOLEAN]

TypeOKVinculos ==
    /\ vinculo \in [Canais -> [setores : SUBSET Setores, padrao : Setores \cup {SemValor},
                               bots : SUBSET Bots]]
    /\ bot \in [Bots -> LinhaDoBot]
    /\ versoes \in SUBSET [bot : Bots, numero : Nat \ {0}, grafo : Grafos] /\ IsFiniteSet(versoes)
    /\ extintos \subseteq Setores /\ corrida \subseteq Canais /\ descuido \subseteq Canais
    /\ req \in [Requisicoes -> Requisicao]
    /\ feitas \in 0 .. MaxRequisicoes

(***************************************************************************)
(* A flow in production names departments of the channels it answers in,   *)
(* whatever was published, linked and changed at the same time.  The one   *)
(* way out is a request that changes the departments without giving the    *)
(* flow again, or that gives a flow whose nodes hand over to a department  *)
(* the channel does not have: neither is checked.                          *)
(***************************************************************************)
SetorForaSoPorDescuido ==
    \A c \in Canais \ descuido : \A b \in vinculo[c].bots :
        ~bot[b].removido /\ bot[b].vigente # 0 =>
            GrafoVigente(b).define \cup GrafoVigente(b).encaminha \subseteq vinculo[c].setores

(***************************************************************************)
(* The default department of a channel is one of its departments, unless   *)
(* the request that wrote it last had looked at others: those of before    *)
(* another request, or one removed in the meantime.                        *)
(***************************************************************************)
PadraoForaSoPorCorrida ==
    \A c \in Canais : vinculo[c].padrao \in vinculo[c].setores \cup {SemValor} \/ c \in corrida

\* A channel has at most one chatbot of each type, although no constraint of the
\* database says so and two requests may give it one at the same time.
UmPorTipo ==
    \A c \in Canais : \A b, k \in vinculo[c].bots : TipoDe(b) = TipoDe(k) => b = k

(***************************************************************************)
(* What the registration of a channel is meant to keep, whatever requests  *)
(* meet in it: one chatbot of each type, and its default department among  *)
(* its own unless chosen among others.                                     *)
(***************************************************************************)
CanalCoerente == UmPorTipo /\ PadraoForaSoPorCorrida

\* No two versions of a chatbot have the same number: a number says one flow for ever.
VersaoUnica == \A v, w \in versoes : v.bot = w.bot /\ v.numero = w.numero => v = w

(***************************************************************************)
(* What is in production changes by a publication, to the version it       *)
(* wrote, or by a request to take the flow out: an edition of the name     *)
(* that read the chatbot before does not undo it.                          *)
(***************************************************************************)
PonteiroSoPorPublicacao ==
    [][\A b \in Bots : bot'[b].vigente # bot[b].vigente =>
          \/ bot'[b].vigente = 0 /\ req' = req
          \/ \E r \in Requisicoes : /\ req[r].op = "publica" /\ req[r].bot = b
                                     /\ req'[r] = SemRequisicao
                                     /\ bot'[b].vigente = req[r].numero]_varsVinculos

\* A chatbot that was removed is not given to a channel, whether it is removed before the
\* channel's request or while its transaction is open.
SoVinculaVivo ==
    [][\A c \in Canais : \A b \in vinculo'[c].bots \ vinculo[c].bots : ~bot[b].removido]_varsVinculos
=============================================================================
