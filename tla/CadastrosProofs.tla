------------------------- MODULE CadastrosProofs -------------------------
(***************************************************************************)
(* Proofs about the registers: the presence of the colleagues (Presenca),  *)
(* the sessions and the links of a user (Sessoes, Links), what a user may  *)
(* do (Acessos), the clients of the database's pool (Conexoes), and the    *)
(* files of the attachments and of what is sent with them (Midias).        *)
(***************************************************************************)
EXTENDS Presenca, Sessoes, Links, Acessos, Conexoes, Midias, FiniteSetTheorems, SequenceTheorems,
        WellFoundedInduction, TLAPS

-----------------------------------------------------------------------------
(***************************************************************************)
(* Presence.  Besides its two parts, the inductive invariant says that the *)
(* gateway's two maps agree, that a socket whose handshake waits is in     *)
(* neither, and that a user who was announced away and no longer is away   *)
(* got back by opening another tab.                                        *)
(***************************************************************************)
MapasIguais ==
    /\ \A u \in Pessoas : \A s \in socketsPorUsuario[u] : s \in clients /\ deQuem[s] = u
    /\ \A s \in clients : /\ s \in socketsPorUsuario[deQuem[s]]
                          /\ rede[s] = "aberto" \/ (rede[s] = "fechado" /\ s \in cairamCedo)
    /\ \A s \in aperto : s \notin clients /\ rede[s] # "livre"

AvisadoVoltouPorAba ==
    \A u \in ausentesAvisados : Estado(u) = "ausente" \/ u \in reabriu

InvPresenca == TypeOKPresenca /\ MapasIguais /\ AvisadoVoltouPorAba /\ TelaErraSoComOutraAba

LEMMA InitDaPresenca == InitPresenca => InvPresenca
BY DEF InitPresenca, InvPresenca, TypeOKPresenca, MapasIguais, AvisadoVoltouPorAba,
       TelaErraSoComOutraAba, NovosAusentes, Estado

LEMMA TipoDoPassoPresenca == InvPresenca /\ NextPresenca => TypeOKPresenca'
<1> SUFFICES ASSUME InvPresenca, NextPresenca PROVE TypeOKPresenca'
    OBVIOUS
<1> USE DEF InvPresenca, TypeOKPresenca
<1>1. ASSUME NEW s \in Sockets, Abre(s) PROVE TypeOKPresenca'
      BY <1>1 DEF Abre
<1>2. ASSUME NEW s \in Sockets, Conecta(s) PROVE TypeOKPresenca'
      BY <1>2 DEF Conecta, Esquece, Emite
<1>3. ASSUME NEW s \in Sockets, Rejeita(s) PROVE TypeOKPresenca'
      BY <1>3 DEF Rejeita
<1>4. ASSUME NEW s \in Sockets, Fecha(s) PROVE TypeOKPresenca'
      BY <1>4 DEF Fecha, Restantes, Esquece, Emite
<1>5. ASSUME NEW s \in Sockets, Atividade(s) PROVE TypeOKPresenca'
      BY <1>5 DEF Atividade, DeixaDeEstarAvisado, Esquece, Emite
<1>6. ASSUME NEW u \in Pessoas, FicaParado(u) PROVE TypeOKPresenca'
      BY <1>6 DEF FicaParado
<1>7. CASE VerificaAusentes
      BY <1>7 DEF VerificaAusentes, NovosAusentes
<1>8. CASE RecarregaTela
      BY <1>8 DEF RecarregaTela, Estado
<1> QED BY <1>1, <1>2, <1>3, <1>4, <1>5, <1>6, <1>7, <1>8 DEF NextPresenca

LEMMA MapasDoPasso == InvPresenca /\ NextPresenca => MapasIguais'
<1> SUFFICES ASSUME InvPresenca, NextPresenca PROVE MapasIguais'
    OBVIOUS
<1> USE DEF InvPresenca, TypeOKPresenca, MapasIguais
<1>1. ASSUME NEW s \in Sockets, Abre(s) PROVE MapasIguais'
      BY <1>1 DEF Abre
<1>2. ASSUME NEW s \in Sockets, Conecta(s) PROVE MapasIguais'
      BY <1>2 DEF Conecta
<1>3. ASSUME NEW s \in Sockets, Rejeita(s) PROVE MapasIguais'
      BY <1>3 DEF Rejeita
<1>4. ASSUME NEW s \in Sockets, Fecha(s) PROVE MapasIguais'
      BY <1>4 DEF Fecha, Restantes
<1>5. ASSUME NEW s \in Sockets, Atividade(s) PROVE MapasIguais'
      BY <1>5 DEF Atividade
<1>6. ASSUME NEW u \in Pessoas, FicaParado(u) PROVE MapasIguais'
      BY <1>6 DEF FicaParado
<1>7. CASE VerificaAusentes
      BY <1>7 DEF VerificaAusentes
<1>8. CASE RecarregaTela
      BY <1>8 DEF RecarregaTela
<1> QED BY <1>1, <1>2, <1>3, <1>4, <1>5, <1>6, <1>7, <1>8 DEF NextPresenca

\* One user at a time: whether its state, its announcement or its screen is disturbed.
LEMMA TelasDoPasso ==
    InvPresenca /\ NextPresenca => AvisadoVoltouPorAba' /\ TelaErraSoComOutraAba'
<1> SUFFICES ASSUME InvPresenca, NextPresenca, NEW v \in Pessoas
             PROVE /\ (v \in ausentesAvisados => Estado(v) = "ausente" \/ v \in reabriu)'
                   /\ (v \notin NovosAusentes => tela[v] = Estado(v) \/ v \in reabriu)'
    <2> HAVE InvPresenca /\ NextPresenca
    <2>1. ausentesAvisados' \subseteq Pessoas
          BY TipoDoPassoPresenca DEF TypeOKPresenca
    <2> QED BY <2>1 DEF AvisadoVoltouPorAba, TelaErraSoComOutraAba
<1> DEFINE Bom == /\ v \in ausentesAvisados => Estado(v) = "ausente" \/ v \in reabriu
                  /\ v \notin NovosAusentes => tela[v] = Estado(v) \/ v \in reabriu
<1>0. Bom
      BY DEF InvPresenca, AvisadoVoltouPorAba, TelaErraSoComOutraAba
<1> USE DEF InvPresenca, TypeOKPresenca, MapasIguais, Estado, NovosAusentes
<1>1. ASSUME NEW s \in Sockets, Abre(s) PROVE Bom'
      BY <1>0, <1>1 DEF Abre
<1>2. ASSUME NEW s \in Sockets, Conecta(s) PROVE Bom'
      BY <1>0, <1>2 DEF Conecta, Esquece, Emite
<1>3. ASSUME NEW s \in Sockets, Rejeita(s) PROVE Bom'
      BY <1>0, <1>3 DEF Rejeita
<1>4. ASSUME NEW s \in Sockets, Fecha(s) PROVE Bom'
      BY <1>0, <1>4 DEF Fecha, Restantes, Esquece, Emite
<1>5. ASSUME NEW s \in Sockets, Atividade(s) PROVE Bom'
      BY <1>0, <1>5 DEF Atividade, DeixaDeEstarAvisado, Esquece, Emite
<1>6. ASSUME NEW u \in Pessoas, FicaParado(u) PROVE Bom'
      BY <1>0, <1>6 DEF FicaParado
<1>7. CASE VerificaAusentes
      BY <1>0, <1>7 DEF VerificaAusentes
<1>8. CASE RecarregaTela
      BY <1>0, <1>8 DEF RecarregaTela
<1> QED BY <1>1, <1>2, <1>3, <1>4, <1>5, <1>6, <1>7, <1>8 DEF NextPresenca

LEMMA PassoDaPresenca == InvPresenca /\ [NextPresenca]_varsPresenca => InvPresenca'
<1>1. CASE NextPresenca
      BY <1>1, TipoDoPassoPresenca, MapasDoPasso, TelasDoPasso DEF InvPresenca
<1>2. CASE UNCHANGED varsPresenca
      BY <1>2 DEF varsPresenca, InvPresenca, TypeOKPresenca, MapasIguais, AvisadoVoltouPorAba,
                  TelaErraSoComOutraAba, NovosAusentes, Estado
<1> QED BY <1>1, <1>2

LEMMA SempreInvPresenca == SpecPresenca => []InvPresenca
BY InitDaPresenca, PassoDaPresenca, PTL DEF SpecPresenca

(***************************************************************************)
(* The state of the gateway is always well formed, whoever connects.       *)
(***************************************************************************)
THEOREM TipoDaPresenca == SpecPresenca => []TypeOKPresenca
<1>1. InvPresenca => TypeOKPresenca
      BY DEF InvPresenca
<1> QED BY <1>1, SempreInvPresenca, PTL

(***************************************************************************)
(* For any users and sockets: a colleague's screen differs from the server *)
(* only until the next look at the absent or by a tab opened while away,   *)
(* and a closed socket is kept only if it closed during its handshake.     *)
(***************************************************************************)
THEOREM PresencaSempreConfere == SpecPresenca => []PresencaConfere
<1>1. InvPresenca => PresencaConfere
      BY DEF InvPresenca, MapasIguais, PresencaConfere, FantasmaSoDoAperto
<1> QED BY <1>1, SempreInvPresenca, PTL

-----------------------------------------------------------------------------
(***************************************************************************)
(* Sessions.  A row, and the copy of a row that a refresh carries, is old  *)
(* only if marked late; and whoever holds a token shares it with another   *)
(* holder, or with a token that was replaced, only if its second signed    *)
(* twice.                                                                  *)
(***************************************************************************)
Renovando(r) == pedido[r].pc \in {"refresh", "update", "insert"}
Assinado(r) == pedido[r].pc = "signin" \/ Renovando(r)
Emitido(t) == emitidos[t] > 0
Repetido(t) == emitidos[t] > 1

MarcadasTarde ==
    /\ SessaoVelhaSoPorCorrida
    /\ \A r \in Pedidos : Renovando(r) /\ ~pedido[r].s.tarde => pedido[r].s.prova >= pedido[r].viu

TodosAssinados ==
    /\ \A t \in trocados : Emitido(t)
    /\ \A s \in sessoes : Emitido(s.token)
    /\ \A r \in Pedidos : Assinado(r) => Emitido(pedido[r].token)
    /\ \A r \in Pedidos : Renovando(r) => Emitido(pedido[r].s.token)

UmDonoPorTexto ==
    /\ \A s \in sessoes : s.token \in trocados => Repetido(s.token)
    /\ \A r \in Pedidos : Assinado(r) /\ pedido[r].token \in trocados => Repetido(pedido[r].token)
    /\ \A s, z \in sessoes : s.token = z.token => s.id = z.id \/ Repetido(s.token)
    /\ \A r \in Pedidos : \A z \in sessoes :
          Assinado(r) /\ z.token = pedido[r].token => Repetido(z.token)
    /\ \A r, q \in Pedidos :
          Assinado(r) /\ Assinado(q) /\ pedido[r].token = pedido[q].token => r = q \/ Repetido(pedido[r].token)
    /\ \A r \in Pedidos : \A z \in sessoes :
          Renovando(r) /\ z.token = pedido[r].s.token => z.id = pedido[r].s.id \/ Repetido(z.token)
    /\ \A r, q \in Pedidos :
          Renovando(r) /\ Assinado(q) /\ pedido[r].s.token = pedido[q].token => Repetido(pedido[q].token)

InvSessoes == TypeOKSessoes /\ MarcadasTarde /\ TodosAssinados /\ UmDonoPorTexto

LEMMA InitDasSessoes == InitSessoes => InvSessoes
<1> SUFFICES ASSUME InitSessoes PROVE InvSessoes
    OBVIOUS
<1>1. TypeOKSessoes
      BY SessoesAssumption DEF InitSessoes, TypeOKSessoes, Pedido, SemPedido
<1>2. MarcadasTarde /\ TodosAssinados /\ UmDonoPorTexto
      BY DEF InitSessoes, SemPedido, MarcadasTarde, SessaoVelhaSoPorCorrida, TodosAssinados,
             UmDonoPorTexto, Renovando, Assinado
<1> QED BY <1>1, <1>2 DEF InvSessoes

\* What a request carries, by where it stands.
LEMMA CamposDoPedido ==
    ASSUME TypeOKSessoes, NEW r \in Pedidos
    PROVE  /\ pedido[r].pc = "signin" =>
                /\ pedido[r].token \in 1..MaxSegundo /\ pedido[r].prova \in 1..MaxSenha
                /\ pedido[r].viu \in 0..MaxSenha
           /\ Renovando(r) =>
                /\ pedido[r] = [pc |-> pedido[r].pc, token |-> pedido[r].token, s |-> pedido[r].s,
                                viu |-> pedido[r].viu]
                /\ pedido[r].token \in 1..MaxSegundo /\ pedido[r].viu \in 0..MaxSenha
                /\ pedido[r].s \in Sessao
           /\ pedido[r].pc \in {"edita", "remove"} => pedido[r].copia \in 1..MaxSenha
<1>1. pedido[r] \in Pedido
      BY DEF TypeOKSessoes
<1>2. CASE pedido[r] = SemPedido
      BY <1>2 DEF SemPedido, Renovando
<1>3. CASE pedido[r] \in [pc : {"signin"}, token : 1..MaxSegundo, prova : 1..MaxSenha,
                          viu : 0..MaxSenha]
      BY <1>3 DEF Renovando
<1>4. CASE pedido[r] \in [pc : {"refresh", "update", "insert"}, token : 1..MaxSegundo, s : Sessao,
                          viu : 0..MaxSenha]
      BY <1>4 DEF Renovando
<1>5. CASE pedido[r] \in [pc : {"redefine", "aceita"}]
      BY <1>5 DEF Renovando
<1>6. CASE pedido[r] \in [pc : {"edita", "remove"}, copia : 1..MaxSenha]
      BY <1>6 DEF Renovando
<1> QED BY <1>1, <1>2, <1>3, <1>4, <1>5, <1>6 DEF Pedido

\* A written row replaces the one of its id, so that the ids stay keys.
LEMMA GravaMantemChaves ==
    ASSUME TypeOKSessoes, NEW id \in 1..MaxSessao, NEW token \in 1..MaxSegundo,
           NEW prova \in 1..MaxSenha, NEW tarde \in BOOLEAN, Grava(id, token, prova, tarde)
    PROVE  /\ sessoes' \subseteq Sessao
           /\ \A s, z \in sessoes' : s.id = z.id => s = z
BY DEF TypeOKSessoes, Grava, OutrasLinhas, Sessao

LEMMA TipoDoPassoSessoes == TypeOKSessoes /\ NextSessoes => TypeOKSessoes'
<1> SUFFICES ASSUME TypeOKSessoes, NextSessoes PROVE TypeOKSessoes'
    OBVIOUS
<1> USE SessoesAssumption DEF TypeOKSessoes
<1>1. ASSUME NEW r \in Pedidos, ConfereSenha(r) PROVE TypeOKSessoes'
      BY <1>1 DEF ConfereSenha, IniciaPedido, Assina, Pedido
<1>2. ASSUME NEW r \in Pedidos, AbreSessao(r) PROVE TypeOKSessoes'
      <2>1. /\ sessoes' \subseteq Sessao
            /\ \A s, z \in sessoes' : s.id = z.id => s = z
            <3>1. /\ serie + 1 \in 1..MaxSessao
                  /\ pedido[r].token \in 1..MaxSegundo /\ pedido[r].prova \in 1..MaxSenha
                  /\ (pedido[r].prova < pedido[r].viu \/ pedido[r].viu # redefinida) \in BOOLEAN
                  BY <1>2, CamposDoPedido DEF AbreSessao
            <3>2. Grava(serie + 1, pedido[r].token, pedido[r].prova,
                        pedido[r].prova < pedido[r].viu \/ pedido[r].viu # redefinida)
                  BY <1>2 DEF AbreSessao
            <3> QED BY <3>1, <3>2, GravaMantemChaves
      <2> QED BY <1>2, <2>1 DEF AbreSessao, FimDoPedido, Pedido, SemPedido
<1>3. ASSUME NEW r \in Pedidos, NEW s \in sessoes, ConfereRefresh(r, s) PROVE TypeOKSessoes'
      BY <1>3 DEF ConfereRefresh, IniciaPedido, Assina, Pedido
<1>4. ASSUME NEW r \in Pedidos, EscolheComando(r) PROVE TypeOKSessoes'
      <2>1. Renovando(r)
            BY <1>4 DEF EscolheComando, Renovando
      <2>2. PICK pc \in {"update", "insert"} : pedido' = [pedido EXCEPT ![r].pc = pc]
            BY <1>4 DEF EscolheComando
      <2>3. pedido'[r] = [pc |-> pc, token |-> pedido[r].token, s |-> pedido[r].s, viu |-> pedido[r].viu]
            BY <2>1, <2>2, CamposDoPedido
      <2>4. pedido'[r] \in Pedido
            BY <2>1, <2>3, CamposDoPedido DEF Pedido
      <2> QED BY <1>4, <2>2, <2>4 DEF EscolheComando
<1>5. ASSUME NEW r \in Pedidos, GravaRefresh(r) PROVE TypeOKSessoes'
      <2>1. Renovando(r)
            BY <1>5 DEF GravaRefresh, Renovando
      <2>2. /\ pedido[r].s \in Sessao /\ pedido[r].token \in 1..MaxSegundo
            BY <2>1, CamposDoPedido
      <2>3. /\ pedido[r].s.id \in 1..MaxSessao /\ pedido[r].s.prova \in 1..MaxSenha
            /\ pedido[r].s.token \in 1..MaxSegundo
            /\ (pedido[r].s.tarde \/ pedido[r].viu # redefinida) \in BOOLEAN
            BY <2>2 DEF Sessao
      <2>4. /\ sessoes' \subseteq Sessao
            /\ \A s, z \in sessoes' : s.id = z.id => s = z
            <3>1. CASE UNCHANGED sessoes
                  BY <3>1
            <3>2. CASE Grava(pedido[r].s.id, pedido[r].token, pedido[r].s.prova,
                             pedido[r].s.tarde \/ pedido[r].viu # redefinida)
                  BY <2>2, <2>3, <3>2, GravaMantemChaves
            <3> QED BY <1>5, <3>1, <3>2 DEF GravaRefresh, LinhaDoRefresh
      <2>5. trocados' \subseteq 1..MaxSegundo
            BY <1>5, <2>3 DEF GravaRefresh
      <2>6. /\ pedido' = [pedido EXCEPT ![r] = SemPedido]
            /\ UNCHANGED <<senha, ativo, segundo, serie, ultima, redefinida, emitidos>>
            BY <1>5 DEF GravaRefresh, FimDoPedido
      <2>7. SemPedido \in Pedido /\ SemPedido.pc \notin {"edita", "remove"}
            BY DEF SemPedido, Pedido
      <2>8. /\ pedido' \in [Pedidos -> Pedido]
            /\ \A t \in Pedidos : pedido'[t] \in {pedido[t], SemPedido}
            BY <2>6, <2>7 DEF TypeOKSessoes
      <2>9. \A t \in Pedidos : pedido'[t].pc \in {"edita", "remove"} => pedido'[t].copia <= ultima'
            BY <2>6, <2>7, <2>8 DEF TypeOKSessoes
      <2> QED BY <2>4, <2>5, <2>6, <2>8, <2>9 DEF TypeOKSessoes
<1>6. ASSUME NEW r \in Pedidos, NEW tipo \in {"redefine", "aceita"}, ConfereLink(r, tipo)
      PROVE TypeOKSessoes'
      BY <1>6 DEF ConfereLink, IniciaPedido, Pedido
<1>7. ASSUME NEW r \in Pedidos, Redefine(r) PROVE TypeOKSessoes'
      BY SMTT(30), <1>7 DEF Redefine, DerrubaSessoes, FimDoPedido, Pedido, SemPedido
<1>8. ASSUME NEW r \in Pedidos, Aceita(r) PROVE TypeOKSessoes'
      <2>1. /\ ultima' \in 1..MaxSenha /\ senha' \in 1..ultima' /\ redefinida' \in 0..ultima'
            BY <1>8 DEF Aceita
      <2>2. /\ pedido' \in [Pedidos -> Pedido]
            /\ \A o \in Pedidos : pedido'[o] = pedido[o] \/ pedido'[o] = SemPedido
            BY <1>8 DEF Aceita, FimDoPedido, Pedido
      <2>3. \A o \in Pedidos : pedido'[o].pc \in {"edita", "remove"} => pedido'[o].copia <= ultima'
            <3>1. ASSUME NEW o \in Pedidos, pedido'[o].pc \in {"edita", "remove"} PROVE pedido'[o].copia <= ultima'
                  <4>1. pedido'[o] = pedido[o] /\ pedido[o].copia \in 1..MaxSenha
                        BY <2>2, <3>1, CamposDoPedido DEF SemPedido
                  <4> QED BY <1>8, <3>1, <4>1 DEF Aceita
            <3> QED BY <3>1
      <2> QED BY <1>8, <2>1, <2>2, <2>3 DEF Aceita, StatusAoAceitar
<1>9. ASSUME NEW r \in Pedidos, NEW pc \in {"edita", "remove"}, LeCadastro(r, pc) PROVE TypeOKSessoes'
      BY <1>9 DEF LeCadastro, IniciaPedido, Pedido
<1>10. ASSUME NEW r \in Pedidos, NEW b \in BOOLEAN, EditaUsuario(r, b) PROVE TypeOKSessoes'
      BY <1>10, CamposDoPedido DEF EditaUsuario, FimDoPedido, Pedido, SemPedido
<1>11. ASSUME NEW r \in Pedidos, RemoveUsuario(r) PROVE TypeOKSessoes'
      <2>1. pedido[r].copia \in 1..ultima
            BY <1>11, CamposDoPedido DEF RemoveUsuario
      <2> QED BY <1>11, <2>1 DEF RemoveUsuario, FimDoPedido, Pedido, SemPedido
<1>12. ASSUME NEW s \in sessoes, VenceSessao(s) PROVE TypeOKSessoes'
      BY <1>12 DEF VenceSessao
<1>13. CASE PassaSegundo
      BY <1>13 DEF PassaSegundo
<1>14. CASE QuedaDaApi
      BY <1>14 DEF QuedaDaApi, Pedido, SemPedido
<1> QED BY <1>1, <1>2, <1>3, <1>4, <1>5, <1>6, <1>7, <1>8, <1>9, <1>10, <1>11, <1>12, <1>13, <1>14
        DEF NextSessoes

LEMMA MarcasDoPasso == InvSessoes /\ NextSessoes => MarcadasTarde'
<1> SUFFICES ASSUME InvSessoes, NextSessoes PROVE MarcadasTarde'
    OBVIOUS
<1> USE DEF InvSessoes, MarcadasTarde, SessaoVelhaSoPorCorrida, Renovando
<1>0. /\ TypeOKSessoes /\ SemPedido.pc = "livre" /\ ultima \in Nat /\ redefinida \in Nat
      BY SessoesAssumption DEF TypeOKSessoes, SemPedido
<1>1. ASSUME NEW r \in Pedidos, ConfereSenha(r) PROVE MarcadasTarde'
      BY <1>0, <1>1 DEF ConfereSenha, IniciaPedido, TypeOKSessoes
<1>2. ASSUME NEW r \in Pedidos, AbreSessao(r) PROVE MarcadasTarde'
      <2> DEFINE q == pedido[r]
      <2>1. q.prova \in Nat /\ q.viu \in Nat
            <3>1. pedido[r].prova \in 1..MaxSenha /\ pedido[r].viu \in 0..MaxSenha
                  BY <1>0, <1>2, CamposDoPedido DEF AbreSessao
            <3> QED BY <3>1, SessoesAssumption
      <2>2. ASSUME NEW z \in sessoes', z \notin sessoes
            PROVE  z.prova = q.prova /\ (z.tarde = (q.prova < q.viu \/ q.viu # redefinida))
            BY <1>2, <2>2 DEF AbreSessao, Grava, OutrasLinhas
      <2>3. \A z \in sessoes' : z.prova < redefinida => z.tarde
            BY <1>0, <2>1, <2>2
      <2> QED BY <1>0, <1>2, <2>3 DEF AbreSessao, FimDoPedido, TypeOKSessoes
<1>3. ASSUME NEW r \in Pedidos, NEW s \in sessoes, ConfereRefresh(r, s) PROVE MarcadasTarde'
      BY <1>0, <1>3 DEF ConfereRefresh, IniciaPedido, TypeOKSessoes, Sessao
<1>4. ASSUME NEW r \in Pedidos, EscolheComando(r) PROVE MarcadasTarde'
      BY <1>0, <1>4, CamposDoPedido DEF EscolheComando, TypeOKSessoes
<1>5. ASSUME NEW r \in Pedidos, GravaRefresh(r) PROVE MarcadasTarde'
      <2> DEFINE q == pedido[r]
      <2>1. /\ Renovando(r)
            /\ q.s.prova \in Nat /\ q.viu \in Nat
            <3>1. Renovando(r)
                  BY <1>5 DEF GravaRefresh
            <3>2. pedido[r].s \in Sessao /\ pedido[r].viu \in 0..MaxSenha
                  BY <1>0, <3>1, CamposDoPedido
            <3> QED BY <3>1, <3>2, SessoesAssumption DEF Sessao
      <2>2. ASSUME NEW z \in sessoes', z \notin sessoes
            PROVE  z.prova = q.s.prova /\ (q.s.tarde => z.tarde) /\ (q.viu # redefinida => z.tarde)
            <3> DEFINE tarde == q.s.tarde \/ q.viu # redefinida
            <3>1. z = [id |-> LinhaDoRefresh(q.s), token |-> q.token, prova |-> q.s.prova, tarde |-> tarde]
                  BY <1>5, <2>2 DEF GravaRefresh, Grava, OutrasLinhas
            <3> HIDE DEF tarde
            <3>2. z.prova = q.s.prova /\ z.tarde = tarde
                  BY <3>1
            <3>3. tarde <=> (q.s.tarde \/ q.viu # redefinida)
                  BY DEF tarde
            <3> QED BY <3>2, <3>3
      <2>3. \A z \in sessoes' : z.prova < redefinida => z.tarde
            <3>1. q.s.tarde \/ q.s.prova >= q.viu
                  BY <2>1
            <3>2. ASSUME NEW z \in sessoes', z \notin sessoes, z.prova < redefinida PROVE z.tarde
                  <4>1. q.viu # redefinida \/ q.s.prova >= redefinida \/ q.s.tarde
                        BY <3>1
                  <4>2. ~(q.s.prova >= redefinida)
                        BY <1>0, <2>1, <2>2, <3>2
                  <4> QED BY <2>2, <3>2, <4>1, <4>2
            <3>3. ASSUME NEW z \in sessoes, z.prova < redefinida PROVE z.tarde
                  BY <3>3
            <3> QED BY <3>2, <3>3
      <2> QED BY <1>0, <1>5, <2>3 DEF GravaRefresh, FimDoPedido, TypeOKSessoes
<1>6. ASSUME NEW r \in Pedidos, NEW tipo \in {"redefine", "aceita"}, ConfereLink(r, tipo)
      PROVE MarcadasTarde'
      BY <1>0, <1>6 DEF ConfereLink, IniciaPedido, TypeOKSessoes
<1>7. ASSUME NEW r \in Pedidos, Redefine(r) PROVE MarcadasTarde'
      BY <1>0, <1>7 DEF Redefine, DerrubaSessoes, FimDoPedido, TypeOKSessoes
<1>8. ASSUME NEW r \in Pedidos, Aceita(r) PROVE MarcadasTarde'
      BY <1>0, <1>8 DEF Aceita, FimDoPedido, TypeOKSessoes
<1>9. ASSUME NEW r \in Pedidos, NEW pc \in {"edita", "remove"}, LeCadastro(r, pc) PROVE MarcadasTarde'
      BY <1>0, <1>9 DEF LeCadastro, IniciaPedido, TypeOKSessoes
<1>10. ASSUME NEW r \in Pedidos, NEW b \in BOOLEAN, EditaUsuario(r, b) PROVE MarcadasTarde'
      BY <1>0, <1>10 DEF EditaUsuario, FimDoPedido, TypeOKSessoes
<1>11. ASSUME NEW r \in Pedidos, RemoveUsuario(r) PROVE MarcadasTarde'
      BY <1>0, <1>11 DEF RemoveUsuario, FimDoPedido, TypeOKSessoes
<1>12. ASSUME NEW s \in sessoes, VenceSessao(s) PROVE MarcadasTarde'
      BY <1>0, <1>12 DEF VenceSessao
<1>13. CASE PassaSegundo
      BY <1>0, <1>13 DEF PassaSegundo
<1>14. CASE QuedaDaApi
      BY <1>0, <1>14 DEF QuedaDaApi
<1> QED BY <1>1, <1>2, <1>3, <1>4, <1>5, <1>6, <1>7, <1>8, <1>9, <1>10, <1>11, <1>12, <1>13, <1>14
        DEF NextSessoes

\* A step that signs nothing and writes no row disturbs no token.
LEMMA UmDonoSeNinguemGrava ==
    ASSUME TodosAssinados, UmDonoPorTexto, sessoes' \subseteq sessoes,
           trocados' = trocados, emitidos' = emitidos,
           \A r \in Pedidos :
              /\ Assinado(r)' => Assinado(r) /\ pedido'[r].token = pedido[r].token
              /\ Renovando(r)' => Renovando(r) /\ pedido'[r].s = pedido[r].s
    PROVE  TodosAssinados' /\ UmDonoPorTexto'
<1>1. \A t : (Emitido(t) <=> Emitido(t)') /\ (Repetido(t) <=> Repetido(t)')
      BY DEF Emitido, Repetido
<1>2. TodosAssinados'
      BY <1>1 DEF TodosAssinados
<1>3. UmDonoPorTexto'
      BY <1>1 DEF UmDonoPorTexto
<1> QED BY <1>2, <1>3

\* A second that signs for the second time repeats a text; for the first, nobody had it.
LEMMA UmDonoAoAssinar ==
    ASSUME TypeOKSessoes, TodosAssinados, UmDonoPorTexto, Assina,
           sessoes' = sessoes, trocados' = trocados, segundo' = segundo, NEW r \in Pedidos,
           \A o \in Pedidos \ {r} : pedido'[o] = pedido[o],
           pedido'[r].token = segundo, pedido'[r].pc \in {"signin", "refresh"},
           pedido'[r].pc = "refresh" => pedido'[r].s \in sessoes
    PROVE  TodosAssinados' /\ UmDonoPorTexto'
<1>1. /\ Emitido(segundo)'
      /\ \A t \in 1..MaxSegundo : Emitido(t) => Emitido(t)'
      /\ \A t \in 1..MaxSegundo : Repetido(t) => Repetido(t)'
      /\ Emitido(segundo) => Repetido(segundo)'
      BY SessoesAssumption DEF Assina, TypeOKSessoes, Emitido, Repetido
<1>2. /\ \A t \in trocados : t \in 1..MaxSegundo
      /\ \A s \in sessoes : s.token \in 1..MaxSegundo
      /\ \A o \in Pedidos : Assinado(o) => pedido[o].token \in 1..MaxSegundo
      /\ \A o \in Pedidos : Renovando(o) => pedido[o].s.token \in 1..MaxSegundo
      BY CamposDoPedido DEF TypeOKSessoes, Sessao, Assinado
<1>3. \A o \in Pedidos \ {r} : (Assinado(o)' <=> Assinado(o)) /\ (Renovando(o)' <=> Renovando(o))
      BY DEF Assinado, Renovando
<1>4. Assinado(r)' /\ (Renovando(r)' => pedido'[r].s \in sessoes)
      BY DEF Assinado, Renovando
<1>5. TodosAssinados'
      BY <1>1, <1>2, <1>3, <1>4 DEF TodosAssinados
<1>6. UmDonoPorTexto'
      <2>1. (\A s \in sessoes : s.token \in trocados => Repetido(s.token))'
            BY <1>1, <1>2 DEF UmDonoPorTexto
      <2>2. (\A o \in Pedidos : Assinado(o) /\ pedido[o].token \in trocados => Repetido(pedido[o].token))'
            BY <1>1, <1>2, <1>3, <1>4 DEF UmDonoPorTexto, TodosAssinados
      <2>3. (\A s, z \in sessoes : s.token = z.token => s.id = z.id \/ Repetido(s.token))'
            BY <1>1, <1>2 DEF UmDonoPorTexto
      <2>4. (\A o \in Pedidos : \A z \in sessoes :
                Assinado(o) /\ z.token = pedido[o].token => Repetido(z.token))'
            BY <1>1, <1>2, <1>3, <1>4 DEF UmDonoPorTexto, TodosAssinados
      <2>5. (\A o, q \in Pedidos : Assinado(o) /\ Assinado(q) /\ pedido[o].token = pedido[q].token
                                     => o = q \/ Repetido(pedido[o].token))'
            BY <1>1, <1>2, <1>3, <1>4 DEF UmDonoPorTexto, TodosAssinados
      <2>6. (\A o \in Pedidos : \A z \in sessoes :
                Renovando(o) /\ z.token = pedido[o].s.token => z.id = pedido[o].s.id \/ Repetido(z.token))'
            BY <1>1, <1>2, <1>3, <1>4 DEF UmDonoPorTexto
      <2>7. (\A o, q \in Pedidos :
                Renovando(o) /\ Assinado(q) /\ pedido[o].s.token = pedido[q].token => Repetido(pedido[q].token))'
            BY <1>1, <1>2, <1>3, <1>4 DEF UmDonoPorTexto, TodosAssinados
      <2> QED BY <2>1, <2>2, <2>3, <2>4, <2>5, <2>6, <2>7 DEF UmDonoPorTexto
<1> QED BY <1>5, <1>6

\* The row written takes the token its request signed; the token it had is replaced.
LEMMA UmDonoAoGravar ==
    ASSUME TypeOKSessoes, TodosAssinados, UmDonoPorTexto, emitidos' = emitidos,
           NEW r \in Pedidos, Assinado(r), NEW nova, nova.token = pedido[r].token,
           sessoes' = OutrasLinhas(nova.id) \cup {nova},
           \A o \in Pedidos \ {r} : pedido'[o] = pedido[o], pedido'[r] = SemPedido,
           \/ trocados' = trocados
           \/ Renovando(r) /\ nova.id = pedido[r].s.id /\ trocados' = trocados \cup {pedido[r].s.token}
    PROVE  TodosAssinados' /\ UmDonoPorTexto'
<1>1. \A t : (Emitido(t) <=> Emitido(t)') /\ (Repetido(t) <=> Repetido(t)')
      BY DEF Emitido, Repetido
<1>2. \A o \in Pedidos \ {r} : (Assinado(o)' <=> Assinado(o)) /\ (Renovando(o)' <=> Renovando(o))
      BY DEF Assinado, Renovando
<1>3. ~Assinado(r)' /\ ~Renovando(r)' /\ (Renovando(r) => Assinado(r))
      BY DEF Assinado, Renovando, SemPedido
<1>4. \A z \in sessoes' : z = nova \/ (z \in sessoes /\ z.id # nova.id)
      BY DEF OutrasLinhas
<1>5. TodosAssinados'
      BY <1>1, <1>2, <1>3, <1>4 DEF TodosAssinados
<1>6. UmDonoPorTexto'
      <2>1. (\A s \in sessoes : s.token \in trocados => Repetido(s.token))'
            BY <1>1, <1>4 DEF UmDonoPorTexto
      <2>2. (\A o \in Pedidos : Assinado(o) /\ pedido[o].token \in trocados => Repetido(pedido[o].token))'
            BY <1>1, <1>2, <1>3 DEF UmDonoPorTexto
      <2>3. (\A s, z \in sessoes : s.token = z.token => s.id = z.id \/ Repetido(s.token))'
            BY <1>1, <1>4 DEF UmDonoPorTexto
      <2>4. (\A o \in Pedidos : \A z \in sessoes :
                Assinado(o) /\ z.token = pedido[o].token => Repetido(z.token))'
            BY <1>1, <1>2, <1>3, <1>4 DEF UmDonoPorTexto
      <2>5. (\A o, q \in Pedidos : Assinado(o) /\ Assinado(q) /\ pedido[o].token = pedido[q].token
                                     => o = q \/ Repetido(pedido[o].token))'
            BY <1>1, <1>2, <1>3 DEF UmDonoPorTexto
      <2>6. (\A o \in Pedidos : \A z \in sessoes :
                Renovando(o) /\ z.token = pedido[o].s.token => z.id = pedido[o].s.id \/ Repetido(z.token))'
            BY <1>1, <1>2, <1>3, <1>4 DEF UmDonoPorTexto
      <2>7. (\A o, q \in Pedidos :
                Renovando(o) /\ Assinado(q) /\ pedido[o].s.token = pedido[q].token => Repetido(pedido[q].token))'
            BY <1>1, <1>2, <1>3 DEF UmDonoPorTexto
      <2> QED BY <2>1, <2>2, <2>3, <2>4, <2>5, <2>6, <2>7 DEF UmDonoPorTexto
<1> QED BY <1>5, <1>6

LEMMA TokensDoPasso == InvSessoes /\ NextSessoes => TodosAssinados' /\ UmDonoPorTexto'
<1> SUFFICES ASSUME InvSessoes, NextSessoes PROVE TodosAssinados' /\ UmDonoPorTexto'
    OBVIOUS
<1> DEFINE Feito == TodosAssinados' /\ UmDonoPorTexto'
<1>0. TypeOKSessoes /\ TodosAssinados /\ UmDonoPorTexto
      BY DEF InvSessoes
<1>1. ASSUME NEW r \in Pedidos, ConfereSenha(r) PROVE Feito
      <2>1. pedido' = [pedido EXCEPT ![r] = [pc |-> "signin", token |-> segundo, prova |-> senha,
                                             viu |-> redefinida]]
            BY <1>1 DEF ConfereSenha, IniciaPedido
      <2>2. /\ pedido'[r].token = segundo /\ pedido'[r].pc = "signin"
            /\ \A o \in Pedidos \ {r} : pedido'[o] = pedido[o]
            BY <1>0, <2>1 DEF TypeOKSessoes
      <2> QED BY <1>0, <1>1, <2>2, UmDonoAoAssinar DEF ConfereSenha
<1>2. ASSUME NEW r \in Pedidos, AbreSessao(r) PROVE Feito
      <2> DEFINE nova == [id |-> serie + 1, token |-> pedido[r].token, prova |-> pedido[r].prova,
                          tarde |-> pedido[r].prova < pedido[r].viu \/ pedido[r].viu # redefinida]
      <2>1. sessoes' = OutrasLinhas(nova.id) \cup {nova}
            BY <1>2 DEF AbreSessao, Grava
      <2>2. nova.token = pedido[r].token
            OBVIOUS
      <2>3. Assinado(r) /\ pedido'[r] = SemPedido /\ \A o \in Pedidos \ {r} : pedido'[o] = pedido[o]
            BY <1>0, <1>2 DEF AbreSessao, FimDoPedido, Assinado, TypeOKSessoes
      <2> HIDE DEF nova
      <2> QED BY <1>0, <1>2, <2>1, <2>2, <2>3, UmDonoAoGravar DEF AbreSessao
<1>3. ASSUME NEW r \in Pedidos, NEW s \in sessoes, ConfereRefresh(r, s) PROVE Feito
      <2>1. pedido' = [pedido EXCEPT ![r] = [pc |-> "refresh", token |-> segundo, s |-> s, viu |-> redefinida]]
            BY <1>3 DEF ConfereRefresh, IniciaPedido
      <2>2. /\ pedido'[r].token = segundo /\ pedido'[r].pc = "refresh" /\ pedido'[r].s = s
            /\ \A o \in Pedidos \ {r} : pedido'[o] = pedido[o]
            BY <1>0, <2>1 DEF TypeOKSessoes
      <2> QED BY <1>0, <1>3, <2>2, UmDonoAoAssinar DEF ConfereRefresh
<1>4. ASSUME NEW r \in Pedidos, EscolheComando(r) PROVE Feito
      <2>1. \A o \in Pedidos : /\ Assinado(o)' => Assinado(o) /\ pedido'[o].token = pedido[o].token
                               /\ Renovando(o)' => Renovando(o) /\ pedido'[o].s = pedido[o].s
            <3>1. Renovando(r)
                  BY <1>4 DEF EscolheComando, Renovando
            <3>2. pedido'[r].token = pedido[r].token /\ pedido'[r].s = pedido[r].s
                  BY <1>0, <1>4, <3>1, CamposDoPedido DEF EscolheComando, TypeOKSessoes
            <3>3. \A o \in Pedidos \ {r} : pedido'[o] = pedido[o]
                  BY <1>0, <1>4 DEF EscolheComando, TypeOKSessoes
            <3> QED BY <3>1, <3>2, <3>3 DEF Assinado, Renovando
      <2> QED BY <1>0, <1>4, <2>1, UmDonoSeNinguemGrava DEF EscolheComando
<1>5. ASSUME NEW r \in Pedidos, GravaRefresh(r) PROVE Feito
      <2> DEFINE nova == [id |-> pedido[r].s.id, token |-> pedido[r].token, prova |-> pedido[r].s.prova,
                          tarde |-> pedido[r].s.tarde \/ pedido[r].viu # redefinida]
      <2>1. Renovando(r) /\ Assinado(r)
            BY <1>5 DEF GravaRefresh, Renovando, Assinado
      <2>2. pedido'[r] = SemPedido /\ \A o \in Pedidos \ {r} : pedido'[o] = pedido[o]
            BY <1>0, <1>5 DEF GravaRefresh, FimDoPedido, TypeOKSessoes
      <2>3. nova.token = pedido[r].token /\ nova.id = pedido[r].s.id
            OBVIOUS
      <2>4. CASE sessoes' = OutrasLinhas(nova.id) \cup {nova} /\ trocados' = trocados \cup {pedido[r].s.token}
            <3> HIDE DEF nova
            <3> QED BY <1>0, <1>5, <2>1, <2>2, <2>3, <2>4, UmDonoAoGravar DEF GravaRefresh
      <2>5. CASE UNCHANGED <<sessoes, trocados>>
            <3>1. \A o \in Pedidos : /\ Assinado(o)' => Assinado(o) /\ pedido'[o].token = pedido[o].token
                                     /\ Renovando(o)' => Renovando(o) /\ pedido'[o].s = pedido[o].s
                  BY <2>2 DEF Assinado, Renovando, SemPedido
            <3> QED BY <1>0, <1>5, <2>5, <3>1, UmDonoSeNinguemGrava DEF GravaRefresh
      <2> QED BY <1>5, <2>4, <2>5 DEF GravaRefresh, Grava, LinhaDoRefresh
<1>6. ASSUME UNCHANGED <<trocados, emitidos>>, sessoes' \subseteq sessoes,
             \A o \in Pedidos : pedido'[o] = pedido[o] \/ pedido'[o].pc \in {"livre", "redefine", "aceita",
                                                                            "edita", "remove"}
      PROVE Feito
      <2>1. \A o \in Pedidos : /\ Assinado(o)' => Assinado(o) /\ pedido'[o].token = pedido[o].token
                               /\ Renovando(o)' => Renovando(o) /\ pedido'[o].s = pedido[o].s
            BY <1>6 DEF Assinado, Renovando
      <2> QED BY <1>0, <1>6, <2>1, UmDonoSeNinguemGrava
<1> USE DEF TypeOKSessoes, IniciaPedido, FimDoPedido, SemPedido
<1>7. ASSUME NEW r \in Pedidos, NEW tipo \in {"redefine", "aceita"}, ConfereLink(r, tipo) PROVE Feito
      BY <1>0, <1>6, <1>7 DEF ConfereLink
<1>8. ASSUME NEW r \in Pedidos, Redefine(r) PROVE Feito
      BY <1>0, <1>6, <1>8 DEF Redefine, DerrubaSessoes
<1>9. ASSUME NEW r \in Pedidos, Aceita(r) PROVE Feito
      BY <1>0, <1>6, <1>9 DEF Aceita
<1>10. ASSUME NEW r \in Pedidos, NEW pc \in {"edita", "remove"}, LeCadastro(r, pc) PROVE Feito
      BY <1>0, <1>6, <1>10 DEF LeCadastro
<1>11. ASSUME NEW r \in Pedidos, NEW b \in BOOLEAN, EditaUsuario(r, b) PROVE Feito
      BY <1>0, <1>6, <1>11 DEF EditaUsuario
<1>12. ASSUME NEW r \in Pedidos, RemoveUsuario(r) PROVE Feito
      BY <1>0, <1>6, <1>12 DEF RemoveUsuario
<1>13. ASSUME NEW s \in sessoes, VenceSessao(s) PROVE Feito
      BY <1>0, <1>6, <1>13 DEF VenceSessao
<1>14. CASE PassaSegundo
      BY <1>0, <1>6, <1>14 DEF PassaSegundo
<1>15. CASE QuedaDaApi
      BY <1>0, <1>6, <1>15 DEF QuedaDaApi
<1> QED BY <1>1, <1>2, <1>3, <1>4, <1>5, <1>7, <1>8, <1>9, <1>10, <1>11, <1>12, <1>13, <1>14, <1>15
        DEF NextSessoes

LEMMA PassoDasSessoes == InvSessoes /\ [NextSessoes]_varsSessoes => InvSessoes'
<1>1. CASE NextSessoes
      BY <1>1, TipoDoPassoSessoes, MarcasDoPasso, TokensDoPasso DEF InvSessoes
<1>2. CASE UNCHANGED varsSessoes
      BY <1>2 DEF varsSessoes, InvSessoes, TypeOKSessoes, MarcadasTarde, SessaoVelhaSoPorCorrida,
                  TodosAssinados, UmDonoPorTexto, Renovando, Assinado, Emitido, Repetido
<1> QED BY <1>1, <1>2

LEMMA SempreInvSessoes == SpecSessoes => []InvSessoes
BY InitDasSessoes, PassoDasSessoes, PTL DEF SpecSessoes

(***************************************************************************)
(* The rows and the requests are well formed and the ids are keys, however *)
(* the requests interleave.                                                *)
(***************************************************************************)
THEOREM TipoDasSessoes == SpecSessoes => []TypeOKSessoes
<1>1. InvSessoes => TypeOKSessoes
      BY DEF InvSessoes
<1> QED BY <1>1, SempreInvSessoes, PTL

(***************************************************************************)
(* For any number of requests: a session older than the last reset is one  *)
(* that was written by a request in flight across it, or renews such a one.*)
(***************************************************************************)
THEOREM SessaoVelhaSempreCorreu == SpecSessoes => []SessaoVelhaSoPorCorrida
<1>1. InvSessoes => SessaoVelhaSoPorCorrida
      BY DEF InvSessoes, MarcadasTarde
<1> QED BY <1>1, SempreInvSessoes, PTL

(***************************************************************************)
(* For any number of requests: a replaced token serves again only if its   *)
(* second signed twice.                                                    *)
(***************************************************************************)
THEOREM TrocadoSempreDuplicado == SpecSessoes => []TrocadoSoServeDuplicado
<1>1. InvSessoes => TrocadoSoServeDuplicado
      BY DEF InvSessoes, UmDonoPorTexto, Repetido, TrocadoSoServeDuplicado
<1> QED BY <1>1, SempreInvSessoes, PTL

(***************************************************************************)
(* For any number of requests: only an edition or a removal that read the  *)
(* user before brings an old password, or a removed user, back.            *)
(***************************************************************************)
THEOREM SoACopiaFazRecuar == SpecSessoes => SoACopiaRecua
<1>1. InvSessoes /\ [NextSessoes]_varsSessoes =>
        [Recuou =>
           \E r \in Pedidos : pedido[r].pc \in {"edita", "remove"} /\ pedido'[r] = SemPedido]_varsSessoes
      <2> SUFFICES ASSUME InvSessoes, NextSessoes, Recuou
                   PROVE  \E r \in Pedidos : pedido[r].pc \in {"edita", "remove"} /\ pedido'[r] = SemPedido
          OBVIOUS
      <2>1. TypeOKSessoes /\ senha \in Nat /\ ultima \in Nat /\ senha <= ultima
            BY SessoesAssumption DEF InvSessoes, TypeOKSessoes
      <2> USE DEF Recuou
      <2>2. PICK r \in Pedidos : (\E b \in BOOLEAN : EditaUsuario(r, b)) \/ RemoveUsuario(r)
            <3>1. ASSUME NEW r \in Pedidos, Redefine(r) \/ Aceita(r) PROVE FALSE
                  BY <2>1, <3>1 DEF Redefine, Aceita, StatusAoAceitar
            <3>2. ~(senha' = senha /\ ativo' = ativo)
                  BY <2>1
            <3> QED BY <3>1, <3>2
                    DEF NextSessoes, ConfereSenha, AbreSessao, ConfereRefresh, EscolheComando, GravaRefresh,
                        ConfereLink, LeCadastro, VenceSessao, PassaSegundo, QuedaDaApi
      <2> QED BY <2>1, <2>2 DEF EditaUsuario, RemoveUsuario, FimDoPedido, TypeOKSessoes
<1> QED BY <1>1, SempreInvSessoes, PTL DEF SpecSessoes, SoACopiaRecua

-----------------------------------------------------------------------------
(***************************************************************************)
(* Links.  What a request carries between its two steps is still true, or  *)
(* the commits in between say so: the pending links it invalidated are of  *)
(* its kind and are all that its snapshot had, and a link it found good is *)
(* gone, or overtaken, only since.                                         *)
(***************************************************************************)
MortosSaoOsPendentes ==
    \A r \in Solicitantes : curso[r].pc = "pendentes" =>
        /\ curso[r].de <= passo /\ \A i \in curso[r].mortos : i <= curso[r].de
        /\ \A l \in links : /\ l.id \in curso[r].mortos => l.tipo = curso[r].tipo
                            /\ l.tipo = curso[r].tipo /\ l.id <= curso[r].de /\ ~l.usado =>
                                   l.id \in curso[r].mortos

AbertoEraBom ==
    \A r \in Solicitantes : curso[r].pc = "usa" =>
        /\ curso[r].leu <= passo
        /\ \A l \in links : l.id = curso[r].id =>
              /\ l.gasto > 0 => curso[r].leu < l.gasto
              /\ \A k \in links : k.tipo = l.tipo /\ k.de >= l.id => curso[r].leu < k.id

Ultrapassado ==
    /\ \A l \in links : l.gasto > 0 => l.usado
    /\ \A l, k \in links : k.tipo = l.tipo /\ k.de >= l.id => l.usado
    /\ OMaisNovoServe

InvLinks == TypeOKLinks /\ MortosSaoOsPendentes /\ AbertoEraBom /\ Ultrapassado

LEMMA InitDosLinks == InitLinks => InvLinks
BY DEF InitLinks, InvLinks, TypeOKLinks, Link, Tipos, EmCurso, Parado, MortosSaoOsPendentes, AbertoEraBom,
       Ultrapassado, OMaisNovoServe

\* What a request carries, by where it stands.
LEMMA CamposDoCurso ==
    ASSUME TypeOKLinks, NEW r \in Solicitantes
    PROVE  /\ curso[r].pc \in {"link", "pendentes"} => curso[r].tipo \in Tipos
           /\ curso[r].pc = "pendentes" => curso[r].de \in Nat /\ curso[r].mortos \subseteq Nat
           /\ curso[r].pc = "usa" => curso[r].id \in Nat /\ curso[r].leu \in Nat
<1>1. curso[r] \in EmCurso
      BY DEF TypeOKLinks
<1> QED BY <1>1 DEF EmCurso, Parado

\* A step that changes no link, and takes one request somewhere else.
LEMMA LinksSeSoLe ==
    ASSUME InvLinks, UNCHANGED <<links, usos>>, passo' \in Nat, passo' >= passo,
           NEW r \in Solicitantes, NEW e \in EmCurso, curso' = [curso EXCEPT ![r] = e],
           e.pc = "pendentes" =>
              /\ e.de = passo' /\ e.mortos = {l.id : l \in Pendentes(e.tipo)},
           e.pc = "usa" => e.leu = passo' /\ \A l \in links : l.id = e.id => ~l.usado
    PROVE  InvLinks'
<1> USE DEF InvLinks
<1>1. TypeOKLinks'
      BY DEF TypeOKLinks, Link
<1>2. curso'[r] = e /\ \A o \in Solicitantes \ {r} : curso'[o] = curso[o]
      BY DEF TypeOKLinks
<1>3. MortosSaoOsPendentes'
      <2>1. ASSUME NEW o \in Solicitantes \ {r}, curso[o].pc = "pendentes" PROVE curso[o].de <= passo'
            BY <2>1, CamposDoCurso DEF MortosSaoOsPendentes, TypeOKLinks
      <2>2. CASE e.pc = "pendentes"
            <3>0. \A i \in e.mortos : i <= e.de
                  BY <2>2 DEF Pendentes, TypeOKLinks, Link
            <3>1. \A l \in links : l.id \in e.mortos <=> l.tipo = e.tipo /\ ~l.usado
                  BY <2>2 DEF Pendentes, TypeOKLinks
            <3> QED BY <1>2, <2>1, <2>2, <3>0, <3>1 DEF MortosSaoOsPendentes
      <2> QED BY <1>2, <2>1, <2>2 DEF MortosSaoOsPendentes
<1>4. AbertoEraBom'
      <2>1. ASSUME NEW o \in Solicitantes \ {r}, curso[o].pc = "usa" PROVE curso[o].leu <= passo'
            BY <2>1, CamposDoCurso DEF AbertoEraBom, TypeOKLinks
      <2>2. ASSUME e.pc = "usa", NEW l \in links, l.id = e.id
            PROVE  /\ ~(l.gasto > 0)
                   /\ \A k \in links : ~(k.tipo = l.tipo /\ k.de >= l.id)
            BY <2>2 DEF Ultrapassado
      <2> QED BY <1>2, <2>1, <2>2 DEF AbertoEraBom
<1>5. Ultrapassado'
      BY DEF Ultrapassado, OMaisNovoServe
<1> QED BY <1>1, <1>3, <1>4, <1>5

\* A commit adds the newest link and marks used those its snapshot had.
LEMMA PassoQueCria ==
    ASSUME InvLinks, NEW r \in Solicitantes, NEW recebido \in BOOLEAN, CriaLink(r, recebido)
    PROVE  InvLinks'
<1> DEFINE q == curso[r]
           novo == [id |-> passo + 1, tipo |-> q.tipo, usado |-> FALSE, vencido |-> FALSE,
                    recebido |-> recebido, de |-> q.de, gasto |-> 0]
           Morto(l) == [l EXCEPT !.usado = @ \/ l.id \in q.mortos]
<1>0. /\ TypeOKLinks /\ passo \in Nat /\ q.pc = "pendentes"
      /\ q.tipo \in Tipos /\ q.de \in Nat /\ q.mortos \subseteq Nat /\ q.de <= passo
      BY CamposDoCurso DEF InvLinks, TypeOKLinks, CriaLink, MortosSaoOsPendentes
<1>1. /\ passo' = passo + 1 /\ UNCHANGED usos
      /\ curso' = [curso EXCEPT ![r] = Parado]
      /\ links' = {Morto(l) : l \in links} \cup {novo}
      BY DEF CriaLink
<1>2. ASSUME NEW l \in links
      PROVE  /\ Morto(l) \in Link
             /\ Morto(l).id = l.id /\ Morto(l).tipo = l.tipo /\ Morto(l).de = l.de /\ Morto(l).gasto = l.gasto
             /\ Morto(l).usado <=> (l.usado \/ l.id \in q.mortos)
      BY <1>0 DEF TypeOKLinks, Link
<1>3. /\ novo \in Link /\ novo.id = passo + 1 /\ novo.tipo = q.tipo /\ ~novo.usado
      /\ novo.de = q.de /\ novo.gasto = 0
      BY <1>0 DEF Link
<1>4. /\ \A o \in Solicitantes \ {r} : curso'[o] = curso[o]
      /\ curso'[r].pc = "livre" /\ Parado \in EmCurso
      BY <1>0, <1>1 DEF TypeOKLinks, Parado, EmCurso
<1>5. \A l \in links : /\ l.id \in Nat /\ l.de \in Nat /\ l.gasto \in Nat /\ l.tipo \in Tipos
                       /\ l.id <= passo /\ l.de < l.id
      BY <1>0 DEF TypeOKLinks, Link
<1>10. \A l \in links' : l = novo \/ \E k \in links : l = Morto(k)
      BY <1>1
<1> HIDE DEF novo, Morto
<1>6. TypeOKLinks'
      <2>1. curso' \in [Solicitantes -> EmCurso]
            BY <1>0, <1>1, <1>4 DEF TypeOKLinks
      <2>2. \A l \in links' : l.de < l.id /\ l.id <= passo'
            BY <1>0, <1>1, <1>2, <1>3, <1>5
      <2>3. \A l, k \in links' : l.id = k.id => l = k
            BY <1>0, <1>1, <1>2, <1>3, <1>5 DEF TypeOKLinks
      <2> QED BY <1>0, <1>1, <1>2, <1>3, <2>1, <2>2, <2>3 DEF TypeOKLinks
<1>7. MortosSaoOsPendentes'
      <2> SUFFICES ASSUME NEW o \in Solicitantes, curso'[o].pc = "pendentes"
                   PROVE  /\ curso'[o].de <= passo' /\ \A i \in curso'[o].mortos : i <= curso'[o].de
                          /\ \A k \in links' :
                                /\ k.id \in curso'[o].mortos => k.tipo = curso'[o].tipo
                                /\ k.tipo = curso'[o].tipo /\ k.id <= curso'[o].de /\ ~k.usado =>
                                       k.id \in curso'[o].mortos
          BY DEF MortosSaoOsPendentes
      <2>1. o # r /\ curso'[o] = curso[o] /\ curso[o].pc = "pendentes"
            BY <1>4
      <2>2. /\ curso[o].de \in Nat /\ curso[o].de <= passo /\ \A i \in curso[o].mortos : i <= curso[o].de
            /\ curso[o].mortos \subseteq Nat
            /\ \A l \in links : /\ l.id \in curso[o].mortos => l.tipo = curso[o].tipo
                                /\ l.tipo = curso[o].tipo /\ l.id <= curso[o].de /\ ~l.usado =>
                                       l.id \in curso[o].mortos
            BY <1>0, <2>1, CamposDoCurso DEF InvLinks, MortosSaoOsPendentes
      <2>3. ~(novo.id <= curso[o].de) /\ novo.id \notin curso[o].mortos
            BY <1>0, <1>3, <2>2
      <2>4. ASSUME NEW l \in links
            PROVE  /\ Morto(l).id \in curso[o].mortos => Morto(l).tipo = curso[o].tipo
                   /\ Morto(l).tipo = curso[o].tipo /\ Morto(l).id <= curso[o].de /\ ~Morto(l).usado =>
                          Morto(l).id \in curso[o].mortos
            BY <1>2, <2>2
      <2>5. curso[o].de <= passo'
            BY <1>0, <1>1, <2>2
      <2> QED BY <1>10, <2>1, <2>2, <2>3, <2>4, <2>5
<1>8. AbertoEraBom'
      <2> SUFFICES ASSUME NEW o \in Solicitantes, curso'[o].pc = "usa"
                   PROVE  /\ curso'[o].leu <= passo'
                          /\ \A l \in links' : l.id = curso'[o].id =>
                                /\ l.gasto > 0 => curso'[o].leu < l.gasto
                                /\ \A k \in links' : k.tipo = l.tipo /\ k.de >= l.id => curso'[o].leu < k.id
          BY DEF AbertoEraBom
      <2>1. o # r /\ curso'[o] = curso[o] /\ curso[o].pc = "usa"
            BY <1>4
      <2>2. /\ curso[o].id \in Nat /\ curso[o].leu \in Nat /\ curso[o].leu <= passo
            /\ \A l \in links : l.id = curso[o].id =>
                  /\ l.gasto > 0 => curso[o].leu < l.gasto
                  /\ \A k \in links : k.tipo = l.tipo /\ k.de >= l.id => curso[o].leu < k.id
            BY <1>0, <2>1, CamposDoCurso DEF InvLinks, AbertoEraBom
      <2>3. curso[o].leu < novo.id /\ ~(novo.gasto > 0) /\ ~(novo.de >= novo.id)
            /\ \A l \in links : ~(l.de >= novo.id)
            BY <1>0, <1>3, <1>5, <2>2
      <2> QED BY <1>0, <1>1, <1>2, <2>1, <2>2, <2>3
<1>9. Ultrapassado'
      <2>1. \A l \in links : /\ l.gasto > 0 => l.usado
                             /\ l.tipo = q.tipo /\ q.de >= l.id => l.usado \/ l.id \in q.mortos
                             /\ l.id \in q.mortos => l.tipo = q.tipo
                             /\ l.usado /\ l.gasto = 0 => \E k \in links : k.tipo = l.tipo /\ k.id > l.id
            BY <1>0, <1>5 DEF InvLinks, Ultrapassado, OMaisNovoServe, MortosSaoOsPendentes
      <2>2. \A l \in links' : l.gasto > 0 => l.usado
            <3>1. \A l \in links : Morto(l).gasto > 0 => Morto(l).usado
                  BY <1>2, <2>1
            <3>2. ~(novo.gasto > 0)
                  BY <1>3
            <3> QED BY <1>10, <3>1, <3>2
      <2>3. \A l, k \in links' : k.tipo = l.tipo /\ k.de >= l.id => l.usado
            <3>1. \A l, k \in links : k.tipo = l.tipo /\ k.de >= l.id => l.usado
                  BY DEF InvLinks, Ultrapassado
            <3>2. \A l \in links : ~(l.de >= novo.id) /\ ~(novo.de >= novo.id)
                  BY <1>0, <1>3, <1>5
            <3>3. \A l, k \in links : Morto(k).tipo = Morto(l).tipo /\ Morto(k).de >= Morto(l).id => Morto(l).usado
                  BY <1>2, <3>1
            <3>4. \A l \in links : novo.tipo = Morto(l).tipo /\ novo.de >= Morto(l).id => Morto(l).usado
                  BY <1>2, <1>3, <2>1
            <3>5. \A l \in links : ~(Morto(l).de >= novo.id)
                  BY <1>2, <3>2
            <3> SUFFICES ASSUME NEW l \in links', NEW k \in links', k.tipo = l.tipo, k.de >= l.id
                         PROVE  l.usado
                OBVIOUS
            <3>6. l # novo
                  <4>1. ~(novo.de >= novo.id)
                        BY <1>0, <1>3
                  <4>2. \A z \in links : ~(Morto(z).de >= novo.id)
                        BY <3>5
                  <4> QED BY <1>10, <4>1, <4>2
            <3> QED BY <1>10, <3>3, <3>4, <3>6
      <2>4. \A l \in links' : l.usado /\ l.gasto = 0 => \E k \in links' : k.tipo = l.tipo /\ k.id > l.id
            <3>1. novo \in links' /\ \A l \in links : Morto(l) \in links' /\ novo.id > l.id
                  BY <1>0, <1>1, <1>3, <1>5
            <3>2. ASSUME NEW l \in links, l.usado \/ l.id \in q.mortos, l.gasto = 0
                  PROVE  \E k \in links' : k.tipo = l.tipo /\ k.id > l.id
                  <4>1. CASE l.id \in q.mortos
                        <5>1. novo \in links' /\ novo.tipo = l.tipo /\ novo.id > l.id
                              BY <1>3, <2>1, <3>1, <4>1
                        <5> QED BY <5>1
                  <4>2. CASE l.usado
                        <5>1. PICK k \in links : k.tipo = l.tipo /\ k.id > l.id
                              BY <2>1, <3>2, <4>2
                        <5>2. Morto(k) \in links' /\ Morto(k).tipo = l.tipo /\ Morto(k).id > l.id
                              BY <1>2, <3>1, <5>1
                        <5> QED BY <5>2
                  <4> QED BY <3>2, <4>1, <4>2
            <3> QED BY <1>2, <1>3, <1>10, <3>2
      <2> QED BY <2>2, <2>3, <2>4 DEF Ultrapassado, OMaisNovoServe
<1> QED BY <1>6, <1>7, <1>8, <1>9 DEF InvLinks

\* What a use or an expiry leaves of a link.
Segue(n, l) ==
    /\ n \in Link /\ n.id = l.id /\ n.tipo = l.tipo /\ n.de = l.de
    /\ l.usado => n.usado
    /\ \/ n.gasto = l.gasto /\ (n.usado => l.usado)
       \/ n.gasto = passo + 1 /\ passo' = passo + 1 /\ n.usado

LEMMA LinksQueSeguem ==
    ASSUME InvLinks, passo' \in {passo, passo + 1}, usos' \in Nat,
           \A n \in links' : \E l \in links : Segue(n, l),
           \A l \in links : \E n \in links' : Segue(n, l),
           \A n, m \in links' : n.id = m.id => n = m,
           curso' \in [Solicitantes -> EmCurso],
           \A o \in Solicitantes : curso'[o] = curso[o] \/ curso'[o] = Parado
    PROVE  InvLinks'
<1>0. /\ TypeOKLinks /\ passo \in Nat /\ passo' \in Nat /\ passo <= passo'
      /\ \A l \in links : /\ l.id \in Nat /\ l.de \in Nat /\ l.gasto \in Nat
                         /\ l.id <= passo /\ l.de < l.id
      BY DEF InvLinks, TypeOKLinks, Link
<1>1. TypeOKLinks'
      <2>1. ASSUME NEW n \in links' PROVE n \in Link /\ n.de < n.id /\ n.id <= passo'
            <3>1. PICK l \in links : Segue(n, l)
                  OBVIOUS
            <3> QED BY <1>0, <3>1 DEF Segue
      <2> QED BY <1>0, <2>1 DEF TypeOKLinks
<1>2. MortosSaoOsPendentes'
      <2> SUFFICES ASSUME NEW o \in Solicitantes, curso'[o].pc = "pendentes", NEW n \in links'
                   PROVE  /\ curso'[o].de <= passo' /\ \A i \in curso'[o].mortos : i <= curso'[o].de
                          /\ n.id \in curso'[o].mortos => n.tipo = curso'[o].tipo
                          /\ n.tipo = curso'[o].tipo /\ n.id <= curso'[o].de /\ ~n.usado =>
                                 n.id \in curso'[o].mortos
          <3>1. ASSUME links' = {} PROVE links = {}
                BY <3>1
          <3>2. ASSUME links = {}, NEW o \in Solicitantes, curso'[o].pc = "pendentes"
                PROVE  curso'[o].de <= passo' /\ \A i \in curso'[o].mortos : i <= curso'[o].de
                <4>1. curso'[o] = curso[o] /\ curso[o].pc = "pendentes"
                      BY <3>2 DEF Parado
                <4> QED BY <1>0, <4>1, CamposDoCurso DEF InvLinks, MortosSaoOsPendentes
          <3> QED BY <3>1, <3>2 DEF MortosSaoOsPendentes
      <2>1. curso'[o] = curso[o] /\ curso[o].pc = "pendentes"
            BY DEF Parado
      <2>2. PICK l \in links : Segue(n, l)
            OBVIOUS
      <2>3. /\ curso[o].de \in Nat /\ curso[o].de <= passo /\ \A i \in curso[o].mortos : i <= curso[o].de
            /\ l.id \in curso[o].mortos => l.tipo = curso[o].tipo
            /\ l.tipo = curso[o].tipo /\ l.id <= curso[o].de /\ ~l.usado => l.id \in curso[o].mortos
            BY <1>0, <2>1, CamposDoCurso DEF InvLinks, MortosSaoOsPendentes
      <2> QED BY <1>0, <2>1, <2>2, <2>3 DEF Segue
<1>3. AbertoEraBom'
      <2> SUFFICES ASSUME NEW o \in Solicitantes, curso'[o].pc = "usa"
                   PROVE  /\ curso'[o].leu <= passo'
                          /\ \A n \in links' : n.id = curso'[o].id =>
                                /\ n.gasto > 0 => curso'[o].leu < n.gasto
                                /\ \A m \in links' : m.tipo = n.tipo /\ m.de >= n.id => curso'[o].leu < m.id
          BY DEF AbertoEraBom
      <2>1. curso'[o] = curso[o] /\ curso[o].pc = "usa"
            BY DEF Parado
      <2>2. /\ curso[o].leu \in Nat /\ curso[o].leu <= passo
            /\ \A l \in links : l.id = curso[o].id =>
                  /\ l.gasto > 0 => curso[o].leu < l.gasto
                  /\ \A k \in links : k.tipo = l.tipo /\ k.de >= l.id => curso[o].leu < k.id
            BY <1>0, <2>1, CamposDoCurso DEF InvLinks, AbertoEraBom
      <2>3. ASSUME NEW n \in links', n.id = curso[o].id
            PROVE  /\ n.gasto > 0 => curso[o].leu < n.gasto
                   /\ \A m \in links' : m.tipo = n.tipo /\ m.de >= n.id => curso[o].leu < m.id
            <3>1. PICK l \in links : Segue(n, l)
                  OBVIOUS
            <3>2. n.gasto > 0 => curso[o].leu < n.gasto
                  BY <1>0, <2>2, <2>3, <3>1 DEF Segue
            <3>3. ASSUME NEW m \in links', m.tipo = n.tipo, m.de >= n.id PROVE curso[o].leu < m.id
                  <4>1. PICK k \in links : Segue(m, k)
                        OBVIOUS
                  <4> QED BY <2>2, <2>3, <3>1, <3>3, <4>1 DEF Segue
            <3> QED BY <3>2, <3>3
      <2> QED BY <1>0, <2>1, <2>2, <2>3
<1>4. Ultrapassado'
      <2>1. \A l \in links : /\ l.gasto > 0 => l.usado
                             /\ l.usado /\ l.gasto = 0 => \E k \in links : k.tipo = l.tipo /\ k.id > l.id
            BY DEF InvLinks, Ultrapassado, OMaisNovoServe
      <2>2. ASSUME NEW n \in links', n.gasto > 0 PROVE n.usado
            <3>1. PICK l \in links : Segue(n, l)
                  OBVIOUS
            <3> QED BY <2>1, <2>2, <3>1 DEF Segue
      <2>3. ASSUME NEW n \in links', NEW m \in links', m.tipo = n.tipo, m.de >= n.id PROVE n.usado
            <3>1. PICK l \in links : Segue(n, l)
                  OBVIOUS
            <3>2. PICK k \in links : Segue(m, k)
                  OBVIOUS
            <3> QED BY <2>3, <3>1, <3>2 DEF Segue, InvLinks, Ultrapassado
      <2>4. ASSUME NEW n \in links', n.usado, n.gasto = 0 PROVE \E m \in links' : m.tipo = n.tipo /\ m.id > n.id
            <3>1. PICK l \in links : Segue(n, l)
                  OBVIOUS
            <3>2. l.usado /\ l.gasto = 0
                  BY <1>0, <2>4, <3>1 DEF Segue
            <3>3. PICK k \in links : k.tipo = l.tipo /\ k.id > l.id
                  BY <2>1, <3>2
            <3>4. PICK m \in links' : Segue(m, k)
                  OBVIOUS
            <3>5. m.tipo = n.tipo /\ m.id > n.id
                  BY <3>1, <3>3, <3>4 DEF Segue
            <3> QED BY <3>5
      <2> QED BY <2>2, <2>3, <2>4 DEF Ultrapassado, OMaisNovoServe
<1> QED BY <1>1, <1>2, <1>3, <1>4 DEF InvLinks

\* A link that sets a password is marked, and keeps its first mark.
LEMMA GastoDoLink ==
    ASSUME NEW l \in Link, passo \in Nat
    PROVE  /\ Gasto(l) \in Link /\ Gasto(l).id = l.id /\ Gasto(l).tipo = l.tipo /\ Gasto(l).de = l.de
           /\ Gasto(l).usado
           /\ l.gasto = 0 => Gasto(l).gasto = passo + 1
           /\ l.gasto > 0 => Gasto(l).gasto = l.gasto
<1>2. /\ PrimeiroGasto(l) \in Nat
      /\ l.gasto = 0 => PrimeiroGasto(l) = passo + 1
      /\ l.gasto > 0 => PrimeiroGasto(l) = l.gasto
      BY DEF PrimeiroGasto, Link
<1>3. /\ Gasto(l).id = l.id /\ Gasto(l).tipo = l.tipo /\ Gasto(l).de = l.de
      /\ Gasto(l).usado /\ Gasto(l).gasto = PrimeiroGasto(l)
      BY DEF Gasto, Link
<1>4. Gasto(l) \in Link
      BY <1>2 DEF Gasto, Link
<1> QED BY <1>2, <1>3, <1>4

LEMMA PassoDosLinks == InvLinks /\ [NextLinks]_varsLinks => InvLinks'
<1> SUFFICES ASSUME InvLinks, [NextLinks]_varsLinks PROVE InvLinks'
    OBVIOUS
<1>0. /\ TypeOKLinks /\ passo \in Nat /\ usos \in Nat
      BY DEF InvLinks, TypeOKLinks
<1>1. ASSUME NEW r \in Solicitantes, NEW tipo \in Tipos, PedeLink(r, tipo) PROVE InvLinks'
      <2> DEFINE e == [pc |-> "link", tipo |-> tipo]
      <2>1. e \in EmCurso /\ e.pc # "pendentes" /\ e.pc # "usa"
            BY DEF EmCurso
      <2>2. curso' = [curso EXCEPT ![r] = e] /\ UNCHANGED <<links, passo, usos>>
            BY <1>1 DEF PedeLink
      <2>3. passo' \in Nat /\ passo' >= passo
            BY <1>0, <2>2
      <2> HIDE DEF e
      <2> QED BY <2>1, <2>2, <2>3, LinksSeSoLe
<1>2. ASSUME NEW r \in Solicitantes, InvalidaPendentes(r) PROVE InvLinks'
      <2> DEFINE e == [pc |-> "pendentes", tipo |-> curso[r].tipo, de |-> passo + 1,
                       mortos |-> {l.id : l \in Pendentes(curso[r].tipo)}]
      <2>1. curso[r].tipo \in Tipos
            BY <1>0, <1>2, CamposDoCurso DEF InvalidaPendentes
      <2>2. {l.id : l \in Pendentes(curso[r].tipo)} \in SUBSET Nat
            BY <1>0 DEF Pendentes, TypeOKLinks, Link
      <2>3. e \in EmCurso
            BY <1>0, <2>1, <2>2 DEF EmCurso
      <2>4. /\ e.pc = "pendentes" /\ e.de = passo + 1
            /\ e.mortos = {l.id : l \in Pendentes(e.tipo)}
            OBVIOUS
      <2>5. /\ curso' = [curso EXCEPT ![r] = e] /\ passo' = passo + 1
            /\ UNCHANGED <<links, usos>>
            BY <1>2 DEF InvalidaPendentes
      <2>6. e.pc # "usa" /\ e.de = passo' /\ passo' \in Nat /\ passo' >= passo
            BY <1>0, <2>5
      <2> HIDE DEF e
      <2> QED BY <2>3, <2>4, <2>5, <2>6, LinksSeSoLe
<1>3. ASSUME NEW r \in Solicitantes, NEW l \in links, AbreLink(r, l) PROVE InvLinks'
      <2> DEFINE e == [pc |-> "usa", id |-> l.id, leu |-> passo]
      <2>1. e \in EmCurso
            BY <1>0 DEF EmCurso, TypeOKLinks, Link
      <2>2. e.pc = "usa" /\ e.leu = passo /\ \A k \in links : k.id = e.id => ~k.usado
            BY <1>0, <1>3 DEF AbreLink, Aproveitavel, Serve, TypeOKLinks
      <2>3. curso' = [curso EXCEPT ![r] = e] /\ UNCHANGED <<links, passo, usos>>
            BY <1>3 DEF AbreLink
      <2>4. e.pc # "pendentes" /\ e.leu = passo' /\ passo' \in Nat /\ passo' >= passo
            BY <1>0, <2>3
      <2> HIDE DEF e
      <2> QED BY <2>1, <2>2, <2>3, <2>4, LinksSeSoLe
<1>4. ASSUME NEW r \in Solicitantes, UsaLink(r) PROVE InvLinks'
      <2> DEFINE F(l) == IF l.id = curso[r].id THEN Gasto(l) ELSE l
      <2>1. links' = {F(l) : l \in links} /\ passo' = passo + 1 /\ usos' \in Nat
            BY <1>0, <1>4 DEF UsaLink
      <2>2. /\ curso' \in [Solicitantes -> EmCurso]
            /\ \A o \in Solicitantes : curso'[o] = curso[o] \/ curso'[o] = Parado
            BY <1>0, <1>4 DEF UsaLink, TypeOKLinks, EmCurso
      <2>3. ASSUME NEW l \in links PROVE Segue(F(l), l)
            <3>1. /\ l \in Link /\ l.gasto \in Nat
                  /\ l.gasto > 0 => l.usado
                  BY <1>0 DEF TypeOKLinks, Link, InvLinks, Ultrapassado
            <3>2. CASE l.id # curso[r].id
                  BY <3>1, <3>2 DEF Segue
            <3>3. CASE l.id = curso[r].id
                  <4>1. F(l) = Gasto(l)
                        BY <3>3
                  <4> HIDE DEF F
                  <4>2. l.gasto = 0 \/ l.gasto > 0
                        BY <3>1
                  <4> QED BY <1>0, <2>1, <3>1, <4>1, <4>2, GastoDoLink DEF Segue
            <3> QED BY <3>2, <3>3
      <2> HIDE DEF F
      <2>4. \A n \in links' : \E l \in links : Segue(n, l)
            BY <2>1, <2>3
      <2>5. \A l \in links : \E n \in links' : Segue(n, l)
            BY <2>1, <2>3
      <2>6. \A n, m \in links' : n.id = m.id => n = m
            <3>1. \A l \in links : F(l).id = l.id
                  BY <2>3 DEF Segue
            <3> QED BY <1>0, <2>1, <3>1 DEF TypeOKLinks
      <2> QED BY <2>1, <2>2, <2>4, <2>5, <2>6, LinksQueSeguem
<1>5. ASSUME NEW l \in links, VenceLink(l) PROVE InvLinks'
      <2> DEFINE v == [l EXCEPT !.vencido = TRUE]
      <2>1. links' = (links \ {l}) \cup {v} /\ UNCHANGED <<curso, passo, usos>>
            BY <1>5 DEF VenceLink
      <2>2. Segue(v, l)
            BY <1>0 DEF TypeOKLinks, Link, Segue
      <2>3. \A k \in links : Segue(k, k)
            BY <1>0 DEF TypeOKLinks, Segue
      <2> HIDE DEF v
      <2>4. \A n \in links' : \E k \in links : Segue(n, k)
            BY <2>1, <2>2, <2>3
      <2>5. \A k \in links : \E n \in links' : Segue(n, k)
            BY <2>1, <2>2, <2>3
      <2>6. \A n, m \in links' : n.id = m.id => n = m
            BY <1>0, <2>1, <2>2 DEF TypeOKLinks, Segue
      <2> QED BY <1>0, <2>1, <2>4, <2>5, <2>6, LinksQueSeguem DEF TypeOKLinks
<1>6. CASE UNCHANGED varsLinks
      BY <1>6 DEF varsLinks, InvLinks, TypeOKLinks, MortosSaoOsPendentes, AbertoEraBom, Ultrapassado,
                  OMaisNovoServe
<1> QED BY <1>1, <1>2, <1>3, <1>4, <1>5, <1>6, PassoQueCria DEF NextLinks

LEMMA SempreInvLinks == SpecLinks => []InvLinks
BY InitDosLinks, PassoDosLinks, PTL DEF SpecLinks

(***************************************************************************)
(* The links and the requests are well formed, and the commits name them.  *)
(***************************************************************************)
THEOREM TipoDosLinks == SpecLinks => []TypeOKLinks
<1>1. InvLinks => TypeOKLinks
      BY DEF InvLinks
<1> QED BY <1>1, SempreInvLinks, PTL

(***************************************************************************)
(* For any number of requests: two links of one kind serve at once only if *)
(* the newer one was asked for before the older one was committed.         *)
(***************************************************************************)
THEOREM DoisServemSoSobrepostos == SpecLinks => []DoisLinksSoSobrepostos
<1>1. InvLinks => DoisLinksSoSobrepostos
      BY DEF InvLinks, Ultrapassado, DoisLinksSoSobrepostos, Serve, TypeOKLinks, Link
<1> QED BY <1>1, SempreInvLinks, PTL

(***************************************************************************)
(* A link that was killed unused was killed by a newer one of its kind.    *)
(***************************************************************************)
THEOREM UmNovoServe == SpecLinks => []OMaisNovoServe
<1>1. InvLinks => OMaisNovoServe
      BY DEF InvLinks, Ultrapassado
<1> QED BY <1>1, SempreInvLinks, PTL

(***************************************************************************)
(* For any number of requests: a link sets a second password, or one after *)
(* a newer link of its kind, only for a request that found it good before. *)
(***************************************************************************)
THEOREM LinkSempreGastoPorCorrida == SpecLinks => LinkGastoSoPorCorrida
<1>1. InvLinks /\ [NextLinks]_varsLinks =>
        [\A r \in Solicitantes :
          usos' = usos + 1 /\ curso[r].pc = "usa" /\ curso'[r] = Parado =>
              \A l \in links :
                  /\ l.id = curso[r].id /\ l.gasto > 0 => curso[r].leu < l.gasto
                  /\ \A k \in links : l.id = curso[r].id /\ k.tipo = l.tipo /\ k.de >= l.id
                                          => curso[r].leu < k.id]_varsLinks
      BY DEF InvLinks, AbertoEraBom
<1> QED BY <1>1, SempreInvLinks, PTL DEF SpecLinks, LinkGastoSoPorCorrida

-----------------------------------------------------------------------------
(***************************************************************************)
(* Permissions.  A list read from the database ages with its guard: until  *)
(* the guard's age reaches the validity, a name on it was lost no earlier  *)
(* than the list was asked for.                                            *)
(***************************************************************************)
ListaTemIdade ==
    \A q \in Guardas : guarda[q].pc = "grava" /\ guarda[q].idade < Validade =>
        \A p \in guarda[q].tem : perdeu[<<guarda[q].u, p>>] <= guarda[q].idade + 1

ContagemVale ==
    \A e \in Editores : edicao[e].pc = "exclui" =>
        \A u \in Contas : grupoDe[u] = edicao[e].g => u \in escrito

InvAcessos ==
    /\ TypeOKAcessos /\ ListaTemIdade /\ CacheAtrasaAValidade
    /\ ContagemVale /\ ExcluidoSoDeQuemFoiEscrito

LEMMA InitDosAcessos == InitAcessos => InvAcessos
<1> SUFFICES ASSUME InitAcessos PROVE InvAcessos
    OBVIOUS
<1>1. TypeOKAcessos
      BY AcessosAssumption DEF InitAcessos, TypeOKAcessos, Entrada, SemEntrada, NoGuarda, EmEdicao, TemPeloGrupo
<1>2. ListaTemIdade /\ CacheAtrasaAValidade /\ ContagemVale /\ ExcluidoSoDeQuemFoiEscrito
      BY DEF InitAcessos, Ocioso, SemEntrada, Vale, ListaTemIdade, CacheAtrasaAValidade, ContagemVale,
             ExcluidoSoDeQuemFoiEscrito
<1> QED BY <1>1, <1>2 DEF InvAcessos

\* What a guard and an edition carry, by where they stand.
LEMMA CamposDosAcessos ==
    ASSUME TypeOKAcessos
    PROVE  /\ \A q \in Guardas :
                /\ guarda[q].pc \in {"livre", "consulta", "grava"}
                /\ guarda[q].pc # "livre" => guarda[q].u \in Contas /\ guarda[q].idade \in 0..Validade
                /\ guarda[q].pc = "grava" => guarda[q].tem \subseteq Permissoes
           /\ \A e \in Editores :
                /\ edicao[e].pc \in {"grupo", "exclui"} => edicao[e].g \in Grupos
                /\ edicao[e].pc = "grupo" =>
                      edicao[e].copia \subseteq Permissoes /\ edicao[e].afetados \subseteq Contas
                /\ edicao[e].pc = "conta" => edicao[e].u \in Contas /\ edicao[e].copia \in Grupos
                /\ edicao[e].pc = "invalida" => edicao[e].us \subseteq Contas
<1>1. ASSUME NEW q \in Guardas
      PROVE  /\ guarda[q].pc \in {"livre", "consulta", "grava"}
             /\ guarda[q].pc # "livre" => guarda[q].u \in Contas /\ guarda[q].idade \in 0..Validade
             /\ guarda[q].pc = "grava" => guarda[q].tem \subseteq Permissoes
      <2>1. guarda[q] \in NoGuarda
            BY DEF TypeOKAcessos
      <2> QED BY <2>1 DEF NoGuarda, Ocioso
<1>2. ASSUME NEW e \in Editores
      PROVE  /\ edicao[e].pc \in {"grupo", "exclui"} => edicao[e].g \in Grupos
             /\ edicao[e].pc = "grupo" =>
                   edicao[e].copia \subseteq Permissoes /\ edicao[e].afetados \subseteq Contas
             /\ edicao[e].pc = "conta" => edicao[e].u \in Contas /\ edicao[e].copia \in Grupos
             /\ edicao[e].pc = "invalida" => edicao[e].us \subseteq Contas
      <2>1. edicao[e] \in EmEdicao
            BY DEF TypeOKAcessos
      <2> QED BY <2>1 DEF EmEdicao, Ocioso
<1> QED BY <1>1, <1>2

\* A change of groups or of links: what is lost was just lost, or was lost before.
LEMMA PerdasAnotadas ==
    ASSUME TypeOKAcessos, AnotaPerdas, grupoDe' \in [Contas -> Grupos],
           concede' \in [Grupos -> SUBSET Permissoes]
    PROVE  /\ perdeu' \in [Contas \X Permissoes -> 0..(Validade + 2)]
           /\ \A u \in Contas, p \in Permissoes :
                 /\ (perdeu'[<<u, p>>] = 0) <=> p \in TemPeloGrupo(u)'
                 /\ perdeu'[<<u, p>>] <= 1 \/ perdeu'[<<u, p>>] = perdeu[<<u, p>>]
<1>1. \A c \in Contas \X Permissoes : perdeu[c] \in 0..(Validade + 2)
      BY DEF TypeOKAcessos
<1>2. ASSUME NEW u \in Contas, NEW p \in Permissoes
      PROVE  perdeu'[<<u, p>>] = IF p \in concede'[grupoDe'[u]] THEN 0
                                 ELSE IF perdeu[<<u, p>>] = 0 THEN 1 ELSE perdeu[<<u, p>>]
      BY DEF AnotaPerdas
<1>3. perdeu' \in [Contas \X Permissoes -> 0..(Validade + 2)]
      BY <1>1, AcessosAssumption DEF AnotaPerdas
<1> QED BY <1>1, <1>2, <1>3, AcessosAssumption DEF TemPeloGrupo

LEMMA TipoDoPassoAcessos == TypeOKAcessos /\ NextAcessos => TypeOKAcessos'
<1> SUFFICES ASSUME TypeOKAcessos, NextAcessos PROVE TypeOKAcessos'
    OBVIOUS
<1>0. /\ Validade \in Nat /\ MaxEdicao \in Nat
      /\ Ocioso \in NoGuarda /\ Ocioso \in EmEdicao
      BY AcessosAssumption DEF NoGuarda, EmEdicao
<1>1. ASSUME NEW q \in Guardas, NEW u \in Contas, PerguntaAoBanco(q, u) PROVE TypeOKAcessos'
      <2>1. [pc |-> "consulta", u |-> u, idade |-> 0] \in NoGuarda
            BY <1>0 DEF NoGuarda
      <2> QED BY <1>1, <2>1 DEF PerguntaAoBanco, TypeOKAcessos, TemPeloGrupo
<1>2. ASSUME NEW q \in Guardas, LePermissoes(q) PROVE TypeOKAcessos'
      <2>1. guarda[q].u \in Contas /\ guarda[q].idade \in 0..Validade
            BY <1>2, CamposDosAcessos DEF LePermissoes
      <2>2. TemPeloGrupo(guarda[q].u) \in SUBSET Permissoes
            BY <2>1 DEF TemPeloGrupo, TypeOKAcessos
      <2>3. [pc |-> "grava", u |-> guarda[q].u, idade |-> guarda[q].idade,
             tem |-> TemPeloGrupo(guarda[q].u)] \in NoGuarda
            BY <2>1, <2>2 DEF NoGuarda
      <2> QED BY <1>2, <2>3 DEF LePermissoes, TypeOKAcessos, TemPeloGrupo
<1>3. ASSUME NEW q \in Guardas, GravaCache(q) PROVE TypeOKAcessos'
      <2>1. /\ guarda[q].u \in Contas /\ guarda[q].idade \in 0..Validade
            /\ guarda[q].tem \in SUBSET Permissoes
            BY <1>3, CamposDosAcessos DEF GravaCache
      <2>2. [tem |-> guarda[q].tem, resta |-> RestaDe(guarda[q].idade)] \in Entrada
            BY <1>0, <2>1 DEF Entrada, RestaDe
      <2> QED BY <1>0, <1>3, <2>2 DEF GravaCache, TypeOKAcessos, TemPeloGrupo
<1>4. ASSUME NEW e \in Editores, NEW estado \in EmEdicao, IniciaEdicao(e, estado) PROVE TypeOKAcessos'
      BY <1>0, <1>4 DEF IniciaEdicao, TypeOKAcessos, TemPeloGrupo
<1>5. ASSUME NEW e \in Editores, NEW g \in Grupos, NEW troca \in BOOLEAN, LeGrupo(e, g, troca)
      PROVE TypeOKAcessos'
      <2>1. [pc |-> "grupo", g |-> g, troca |-> troca, copia |-> concede[g],
             afetados |-> {u \in Contas : grupoDe[u] = g}] \in EmEdicao
            BY DEF EmEdicao, TypeOKAcessos
      <2> QED BY <1>4, <1>5, <2>1 DEF LeGrupo
<1>6. ASSUME NEW e \in Editores, NEW g \in Grupos, ContaUsuarios(e, g) PROVE TypeOKAcessos'
      <2>1. [pc |-> "exclui", g |-> g] \in EmEdicao
            BY DEF EmEdicao
      <2> QED BY <1>4, <1>6, <2>1 DEF ContaUsuarios
<1>7. ASSUME NEW e \in Editores, NEW u \in Contas, LeConta(e, u) PROVE TypeOKAcessos'
      <2>1. [pc |-> "conta", u |-> u, copia |-> grupoDe[u]] \in EmEdicao
            BY DEF EmEdicao, TypeOKAcessos
      <2> QED BY <1>4, <1>7, <2>1 DEF LeConta
<1>8. ASSUME NEW e \in Editores, NEW novas \in SUBSET Permissoes, GravaGrupo(e, novas) PROVE TypeOKAcessos'
      <2>1. /\ edicao[e].g \in Grupos /\ edicao[e].copia \in SUBSET Permissoes
            /\ edicao[e].afetados \in SUBSET Contas
            BY <1>8, CamposDosAcessos DEF GravaGrupo
      <2>2. /\ concede' \in [Grupos -> SUBSET Permissoes] /\ grupoDe' \in [Contas -> Grupos]
            BY <1>8, <2>1 DEF GravaGrupo, VinculosDe, TypeOKAcessos
      <2>3. [pc |-> "invalida", us |-> edicao[e].afetados] \in EmEdicao
            BY <2>1 DEF EmEdicao
      <2>4. edicao' \in [Editores -> EmEdicao] /\ AnotaPerdas
            BY <1>8, <2>3 DEF GravaGrupo, TypeOKAcessos
      <2> QED BY <1>8, <2>2, <2>4, PerdasAnotadas DEF GravaGrupo, TypeOKAcessos
<1>9. ASSUME NEW e \in Editores, NEW troca \in BOOLEAN, NEW g \in Grupos, GravaConta(e, troca, g)
      PROVE TypeOKAcessos'
      <2>1. edicao[e].u \in Contas /\ edicao[e].copia \in Grupos
            BY <1>9, CamposDosAcessos DEF GravaConta
      <2>2. /\ concede' \in [Grupos -> SUBSET Permissoes] /\ grupoDe' \in [Contas -> Grupos]
            /\ escrito' \subseteq Contas
            BY <1>9, <2>1 DEF GravaConta, TypeOKAcessos
      <2>3. [pc |-> "invalida", us |-> {edicao[e].u}] \in EmEdicao
            BY <2>1 DEF EmEdicao
      <2>4. edicao' \in [Editores -> EmEdicao] /\ AnotaPerdas
            BY <1>0, <1>9, <2>3 DEF GravaConta, TypeOKAcessos
      <2> QED BY <1>9, <2>2, <2>4, PerdasAnotadas DEF GravaConta, TypeOKAcessos
<1>10. ASSUME NEW e \in Editores, Invalida(e) PROVE TypeOKAcessos'
      <2>1. SemEntrada \in Entrada
            BY <1>0 DEF SemEntrada, Entrada
      <2> QED BY <1>0, <1>10, <2>1 DEF Invalida, TypeOKAcessos, TemPeloGrupo
<1>11. ASSUME NEW e \in Editores, ExcluiGrupo(e) PROVE TypeOKAcessos'
      BY <1>0, <1>11 DEF ExcluiGrupo, TypeOKAcessos, TemPeloGrupo
<1>12. CASE Tique
      <2>1. ASSUME NEW u \in Contas
            PROVE  [cache[u] EXCEPT !.resta = IF @ = 0 THEN 0 ELSE @ - 1] \in Entrada
            BY <1>0 DEF TypeOKAcessos, Entrada
      <2>2. ASSUME NEW q \in Guardas
            PROVE  (IF guarda[q] = Ocioso THEN Ocioso
                    ELSE [guarda[q] EXCEPT !.idade = AteValidade(@ + 1, Validade)]) \in NoGuarda
            <3>1. guarda[q] \in NoGuarda
                  BY DEF TypeOKAcessos
            <3> QED BY <1>0, <3>1 DEF NoGuarda, AteValidade
      <2>3. ASSUME NEW c \in Contas \X Permissoes
            PROVE  /\ perdeu'[c] = IF perdeu[c] = 0 THEN 0 ELSE AteValidade(perdeu[c] + 1, Validade + 2)
                   /\ perdeu'[c] \in 0..(Validade + 2) /\ (perdeu'[c] = 0 <=> perdeu[c] = 0)
            BY <1>0, <1>12 DEF Tique, AteValidade, TypeOKAcessos
      <2>4. perdeu' \in [Contas \X Permissoes -> 0..(Validade + 2)]
            BY <1>12, <2>3 DEF Tique
      <2> QED BY <1>12, <2>1, <2>2, <2>3, <2>4 DEF Tique, TypeOKAcessos, TemPeloGrupo
<1> QED BY <1>1, <1>2, <1>3, <1>5, <1>6, <1>7, <1>8, <1>9, <1>10, <1>11, <1>12 DEF NextAcessos

\* The lists and the entries get older with the clock only.
LEMMA IdadesDoPasso == InvAcessos /\ NextAcessos => ListaTemIdade' /\ CacheAtrasaAValidade'
<1> SUFFICES ASSUME InvAcessos, NextAcessos PROVE ListaTemIdade' /\ CacheAtrasaAValidade'
    OBVIOUS
<1> DEFINE Feito == ListaTemIdade' /\ CacheAtrasaAValidade'
<1>0. /\ TypeOKAcessos /\ Validade \in Nat /\ Ocioso.pc = "livre"
      /\ \A u \in Contas : cache[u].tem \subseteq Permissoes /\ cache[u].resta \in 0..Validade
      /\ \A u \in Contas, p \in Permissoes : perdeu[<<u, p>>] \in 0..(Validade + 2)
      BY AcessosAssumption DEF InvAcessos, TypeOKAcessos, Ocioso, Entrada
<1>1. /\ \A q \in Guardas : guarda[q].pc = "grava" /\ guarda[q].idade < Validade =>
            \A p \in guarda[q].tem : perdeu[<<guarda[q].u, p>>] <= guarda[q].idade + 1
      /\ \A u \in Contas : cache[u].resta > 0 =>
            \A p \in cache[u].tem : perdeu[<<u, p>>] + cache[u].resta <= Validade + 1
      BY DEF InvAcessos, ListaTemIdade, CacheAtrasaAValidade, Vale
<1>2. ASSUME UNCHANGED <<cache, guarda, perdeu>> PROVE Feito
      BY <1>1, <1>2 DEF ListaTemIdade, CacheAtrasaAValidade, Vale
<1>3. ASSUME NEW q \in Guardas, NEW u \in Contas, PerguntaAoBanco(q, u) PROVE Feito
      BY <1>0, <1>1, <1>3 DEF PerguntaAoBanco, ListaTemIdade, CacheAtrasaAValidade, Vale, TypeOKAcessos
<1>4. ASSUME NEW q \in Guardas, LePermissoes(q) PROVE Feito
      <2>1. guarda[q].u \in Contas /\ guarda[q].idade \in 0..Validade
            BY <1>0, <1>4, CamposDosAcessos DEF LePermissoes
      <2>2. \A p \in TemPeloGrupo(guarda[q].u) : perdeu[<<guarda[q].u, p>>] = 0
            BY <1>0, <2>1 DEF TypeOKAcessos, TemPeloGrupo
      <2>3. /\ guarda'[q].u = guarda[q].u /\ guarda'[q].idade = guarda[q].idade
            /\ guarda'[q].tem = TemPeloGrupo(guarda[q].u)
            /\ \A o \in Guardas \ {q} : guarda'[o] = guarda[o]
            BY <1>0, <1>4 DEF LePermissoes, TypeOKAcessos
      <2>4. ListaTemIdade'
            BY <1>0, <1>1, <1>4, <2>1, <2>2, <2>3 DEF LePermissoes, ListaTemIdade
      <2>5. CacheAtrasaAValidade'
            BY <1>1, <1>4 DEF LePermissoes, CacheAtrasaAValidade, Vale
      <2> QED BY <2>4, <2>5
<1>5. ASSUME NEW q \in Guardas, GravaCache(q) PROVE Feito
      <2>1. /\ guarda[q].u \in Contas /\ guarda[q].idade \in 0..Validade /\ guarda[q].tem \subseteq Permissoes
            BY <1>0, <1>5, CamposDosAcessos DEF GravaCache
      <2>2. /\ cache'[guarda[q].u].tem = guarda[q].tem
            /\ cache'[guarda[q].u].resta = Validade - guarda[q].idade
            /\ \A u \in Contas \ {guarda[q].u} : cache'[u] = cache[u]
            BY <1>0, <1>5, <2>1 DEF GravaCache, RestaDe, TypeOKAcessos
      <2>3. CacheAtrasaAValidade'
            BY <1>0, <1>1, <1>5, <2>1, <2>2 DEF GravaCache, CacheAtrasaAValidade, Vale
      <2>4. ListaTemIdade'
            BY <1>0, <1>1, <1>5 DEF GravaCache, ListaTemIdade, TypeOKAcessos
      <2> QED BY <2>3, <2>4
<1>6. ASSUME NEW e \in Editores, Invalida(e) PROVE Feito
      <2>1. \A u \in Contas : cache'[u] = cache[u] \/ cache'[u] = SemEntrada
            BY <1>6 DEF Invalida
      <2> QED BY <1>1, <1>6, <2>1 DEF Invalida, ListaTemIdade, CacheAtrasaAValidade, Vale, SemEntrada
<1>7. ASSUME UNCHANGED <<cache, guarda>>, AnotaPerdas, grupoDe' \in [Contas -> Grupos],
             concede' \in [Grupos -> SUBSET Permissoes]
      PROVE  Feito
      <2>1. \A u \in Contas, p \in Permissoes : perdeu'[<<u, p>>] <= 1 \/ perdeu'[<<u, p>>] = perdeu[<<u, p>>]
            BY <1>0, <1>7, PerdasAnotadas
      <2>2. \A u \in Contas, p \in Permissoes : perdeu'[<<u, p>>] \in 0..(Validade + 2)
            BY <1>0, <1>7, PerdasAnotadas
      <2>3. CacheAtrasaAValidade'
            BY <1>0, <1>1, <1>7, <2>1, <2>2 DEF CacheAtrasaAValidade, Vale
      <2>4. ListaTemIdade'
            <3>1. \A q \in Guardas : guarda[q].pc = "grava" =>
                     guarda[q].u \in Contas /\ guarda[q].idade \in 0..Validade /\ guarda[q].tem \subseteq Permissoes
                  BY <1>0, CamposDosAcessos
            <3> QED BY <1>0, <1>1, <1>7, <2>1, <2>2, <3>1 DEF ListaTemIdade
      <2> QED BY <2>3, <2>4
<1>8. CASE Tique
      <2>1. ASSUME NEW u \in Contas, NEW p \in Permissoes
            PROVE  /\ perdeu'[<<u, p>>] \in Nat
                   /\ perdeu'[<<u, p>>] <= perdeu[<<u, p>>] + 1
                   /\ perdeu[<<u, p>>] = 0 => perdeu'[<<u, p>>] = 0
            BY <1>0, <1>8 DEF Tique, AteValidade
      <2>2. CacheAtrasaAValidade'
            <3> SUFFICES ASSUME NEW u \in Contas, cache'[u].resta > 0, NEW p \in cache'[u].tem
                         PROVE  perdeu'[<<u, p>>] + cache'[u].resta <= Validade + 1
                BY DEF CacheAtrasaAValidade, Vale
            <3>1. cache[u] \in Entrada /\ cache'[u] = [cache[u] EXCEPT !.resta = IF @ = 0 THEN 0 ELSE @ - 1]
                  BY <1>0, <1>8 DEF Tique, TypeOKAcessos
            <3>2. /\ cache'[u].tem = cache[u].tem /\ cache[u].resta \in Nat
                  /\ cache'[u].resta = IF cache[u].resta = 0 THEN 0 ELSE cache[u].resta - 1
                  BY <1>0, <3>1 DEF Entrada
            <3>3. cache[u].resta > 0 /\ cache'[u].resta = cache[u].resta - 1 /\ p \in cache[u].tem /\ p \in Permissoes
                  BY <1>0, <3>2
            <3> QED BY <1>0, <1>1, <2>1, <3>2, <3>3
      <2>3. ListaTemIdade'
            <3> SUFFICES ASSUME NEW q \in Guardas, guarda'[q].pc = "grava", guarda'[q].idade < Validade,
                                NEW p \in guarda'[q].tem
                         PROVE  perdeu'[<<guarda'[q].u, p>>] <= guarda'[q].idade + 1
                BY <1>8 DEF ListaTemIdade, Tique
            <3>1. guarda[q] # Ocioso /\ guarda'[q] = [guarda[q] EXCEPT !.idade = AteValidade(@ + 1, Validade)]
                  BY <1>0, <1>8 DEF Tique
            <3>2. guarda[q] \in NoGuarda
                  BY <1>0 DEF TypeOKAcessos
            <3>3. /\ guarda[q].pc = "grava" /\ guarda'[q].u = guarda[q].u /\ guarda'[q].tem = guarda[q].tem
                  /\ guarda[q].idade \in 0..Validade /\ guarda[q].u \in Contas /\ p \in Permissoes
                  /\ guarda'[q].idade = AteValidade(guarda[q].idade + 1, Validade)
                  BY <3>1, <3>2 DEF NoGuarda
            <3>4. guarda[q].idade < Validade /\ guarda'[q].idade = guarda[q].idade + 1
                  BY <1>0, <3>3 DEF AteValidade
            <3> QED BY <1>0, <1>1, <2>1, <3>3, <3>4
      <2> QED BY <2>2, <2>3
<1>9. ASSUME NEW e \in Editores, NEW novas \in SUBSET Permissoes, GravaGrupo(e, novas) PROVE Feito
      BY <1>0, <1>7, <1>9, TipoDoPassoAcessos DEF GravaGrupo, TypeOKAcessos
<1>10. ASSUME NEW e \in Editores, NEW troca \in BOOLEAN, NEW g \in Grupos, GravaConta(e, troca, g) PROVE Feito
      BY <1>0, <1>7, <1>10, TipoDoPassoAcessos DEF GravaConta, TypeOKAcessos
<1> QED BY <1>2, <1>3, <1>4, <1>5, <1>6, <1>8, <1>9, <1>10
        DEF NextAcessos, ContaUsuarios, LeGrupo, LeConta, IniciaEdicao, ExcluiGrupo

\* Only an edition of the user itself gives a removed group a user.
LEMMA ExcluidosDoPasso == InvAcessos /\ NextAcessos => ContagemVale' /\ ExcluidoSoDeQuemFoiEscrito'
<1> SUFFICES ASSUME InvAcessos, NextAcessos PROVE ContagemVale' /\ ExcluidoSoDeQuemFoiEscrito'
    OBVIOUS
<1> DEFINE Feito == ContagemVale' /\ ExcluidoSoDeQuemFoiEscrito'
<1>0. TypeOKAcessos /\ ContagemVale /\ ExcluidoSoDeQuemFoiEscrito /\ Ocioso.pc = "livre"
      BY DEF InvAcessos, Ocioso
<1>1. ASSUME UNCHANGED <<grupoDe, excluido, escrito>>,
             \A e \in Editores : edicao'[e] = edicao[e] \/ edicao'[e].pc # "exclui"
      PROVE  Feito
      BY <1>0, <1>1 DEF ContagemVale, ExcluidoSoDeQuemFoiEscrito
<1>2. ASSUME NEW e \in Editores, NEW g \in Grupos, ContaUsuarios(e, g) PROVE Feito
      BY <1>0, <1>2 DEF ContaUsuarios, IniciaEdicao, SemUsuarios, ContagemVale, ExcluidoSoDeQuemFoiEscrito,
                        TypeOKAcessos
<1>3. ASSUME NEW e \in Editores, NEW troca \in BOOLEAN, NEW g \in Grupos, GravaConta(e, troca, g) PROVE Feito
      <2>1. edicao[e].u \in Contas /\ edicao'[e].pc # "exclui"
            BY <1>0, <1>3, CamposDosAcessos DEF GravaConta, TypeOKAcessos
      <2>2. \A o \in Editores \ {e} : edicao'[o] = edicao[o]
            BY <1>0, <1>3 DEF GravaConta, TypeOKAcessos
      <2>3. /\ escrito' = escrito \cup {edicao[e].u} /\ excluido' = excluido
            /\ \A u \in Contas \ {edicao[e].u} : grupoDe'[u] = grupoDe[u]
            BY <1>0, <1>3, <2>1 DEF GravaConta, TypeOKAcessos
      <2> QED BY <1>0, <2>1, <2>2, <2>3 DEF ContagemVale, ExcluidoSoDeQuemFoiEscrito
<1>4. ASSUME NEW e \in Editores, ExcluiGrupo(e) PROVE Feito
      BY <1>0, <1>4 DEF ExcluiGrupo, ContagemVale, ExcluidoSoDeQuemFoiEscrito, TypeOKAcessos
<1>5. ASSUME NEW e \in Editores, NEW g \in Grupos, NEW troca \in BOOLEAN, LeGrupo(e, g, troca) PROVE Feito
      BY <1>0, <1>1, <1>5 DEF LeGrupo, IniciaEdicao, TypeOKAcessos
<1>6. ASSUME NEW e \in Editores, NEW novas \in SUBSET Permissoes, GravaGrupo(e, novas) PROVE Feito
      BY <1>0, <1>1, <1>6 DEF GravaGrupo, TypeOKAcessos
<1>7. ASSUME NEW e \in Editores, NEW u \in Contas, LeConta(e, u) PROVE Feito
      BY <1>0, <1>1, <1>7 DEF LeConta, IniciaEdicao, TypeOKAcessos
<1>8. ASSUME NEW e \in Editores, Invalida(e) PROVE Feito
      BY <1>0, <1>1, <1>8 DEF Invalida, TypeOKAcessos
<1>9. ASSUME NEW q \in Guardas, (\E u \in Contas : PerguntaAoBanco(q, u)) \/ LePermissoes(q) \/ GravaCache(q)
      PROVE Feito
      BY <1>1, <1>9 DEF PerguntaAoBanco, LePermissoes, GravaCache
<1>10. CASE Tique
      BY <1>1, <1>10 DEF Tique
<1> QED BY <1>2, <1>3, <1>4, <1>5, <1>6, <1>7, <1>8, <1>9, <1>10 DEF NextAcessos

LEMMA PassoDosAcessos == InvAcessos /\ [NextAcessos]_varsAcessos => InvAcessos'
<1>1. CASE NextAcessos
      BY <1>1, TipoDoPassoAcessos, IdadesDoPasso, ExcluidosDoPasso DEF InvAcessos
<1>2. CASE UNCHANGED varsAcessos
      BY <1>2 DEF varsAcessos, InvAcessos, TypeOKAcessos, TemPeloGrupo, ListaTemIdade, CacheAtrasaAValidade,
                  Vale, ContagemVale, ExcluidoSoDeQuemFoiEscrito
<1> QED BY <1>1, <1>2

LEMMA SempreInvAcessos == SpecAcessos => []InvAcessos
BY InitDosAcessos, PassoDosAcessos, PTL DEF SpecAcessos

(***************************************************************************)
(* Groups, entries, guards and editions are well formed, and what a user   *)
(* holds counts as not lost.                                               *)
(***************************************************************************)
THEOREM TipoDosAcessos == SpecAcessos => []TypeOKAcessos
<1>1. InvAcessos => TypeOKAcessos
      BY DEF InvAcessos
<1> QED BY <1>1, SempreInvAcessos, PTL

(***************************************************************************)
(* For any users, guards and editors, and any validity: a permission that  *)
(* was lost is granted by the cache for the validity at most, also when    *)
(* the entry was written after the edition had discarded it.               *)
(***************************************************************************)
THEOREM CacheSempreAtrasaAValidade == SpecAcessos => []CacheAtrasaAValidade
<1>1. InvAcessos => CacheAtrasaAValidade
      BY DEF InvAcessos
<1> QED BY <1>1, SempreInvAcessos, PTL

(***************************************************************************)
(* A removed group has no user but those whose group an edition wrote.     *)
(***************************************************************************)
THEOREM ExcluidoSempreDeQuemFoiEscrito == SpecAcessos => []ExcluidoSoDeQuemFoiEscrito
<1>1. InvAcessos => ExcluidoSoDeQuemFoiEscrito
      BY DEF InvAcessos
<1> QED BY <1>1, SempreInvAcessos, PTL

-----------------------------------------------------------------------------
LEMMA LivreDaChamada ==
    SemChamada \in [tipo : TiposDeChamada \cup {"nenhum"}, pc : {"fora", "espera", "dentro"}, tem : 0..2]
BY DEF SemChamada

LEMMA TipoInicialDasConexoes == InitConexoes => TypeOKConexoes
<1> SUFFICES ASSUME InitConexoes PROVE TypeOKConexoes
    OBVIOUS
<1>1. \A c \in Chamadas : chamada[c] = SemChamada
      BY DEF InitConexoes
<1>2. /\ SemChamada.tem <= Precisa(SemChamada.tipo) /\ SemChamada.pc = "fora"
      BY DEF SemChamada, Precisa
<1>3. livres \in Nat /\ abertas \in Nat /\ doSuporte \in BOOLEAN
      BY ConexoesAssumption DEF InitConexoes
<1> QED BY <1>1, <1>2, <1>3, LivreDaChamada DEF InitConexoes, TypeOKConexoes

LEMMA TipoDoPassoConexoes == TypeOKConexoes /\ NextConexoes => TypeOKConexoes'
<1> SUFFICES ASSUME TypeOKConexoes, NEW c \in Chamadas,
                    \/ \E tipo \in TiposDeChamada : Chega(c, tipo)
                    \/ ChegaComConexao(c) \/ Recebe(c) \/ Desiste(c) \/ TerminaChamada(c)
             PROVE  TypeOKConexoes'
    BY DEF NextConexoes, Anda
<1>1. ASSUME NEW tipo \in TiposDeChamada, Chega(c, tipo) PROVE TypeOKConexoes'
      BY <1>1 DEF Chega, TypeOKConexoes, TiposDeChamada, Precisa, SemChamada
<1>2. CASE ChegaComConexao(c)
      BY <1>2 DEF ChegaComConexao, TypeOKConexoes, TiposDeChamada, Precisa, SemChamada
<1>3. CASE Recebe(c)
  <2> DEFINE ch == chamada[c]
             tem == ch.tem + 1
             novo == [ch EXCEPT !.tem = tem, !.pc = IF tem = Precisa(ch.tipo) THEN "dentro" ELSE "espera"]
  <2>1. /\ ch.tem \in 0..2 /\ ch.tem < Precisa(ch.tipo) /\ Precisa(ch.tipo) \in 1..2
        /\ ch \in [tipo : TiposDeChamada \cup {"nenhum"}, pc : {"fora", "espera", "dentro"}, tem : 0..2]
        BY <1>3 DEF Recebe, TypeOKConexoes, Precisa
  <2>2. tem \in 0..2 /\ tem <= Precisa(ch.tipo)
        BY <2>1
  <2>3. /\ novo \in [tipo : TiposDeChamada \cup {"nenhum"}, pc : {"fora", "espera", "dentro"}, tem : 0..2]
        /\ novo.tem = tem /\ novo.tipo = ch.tipo /\ novo.pc # "fora"
        /\ novo.pc = "espera" => tem # Precisa(ch.tipo)
        BY <2>1, <2>2
  <2>4. chamada' = [chamada EXCEPT ![c] = novo]
        BY <1>3 DEF Recebe
  <2>5. livres' \in Nat /\ abertas' \in Nat /\ doSuporte' \in BOOLEAN
        BY <1>3 DEF Recebe, TypeOKConexoes
  <2> HIDE DEF novo, tem
  <2>6. novo.pc = "espera" => tem < Precisa(ch.tipo)
        BY <2>1, <2>2, <2>3
  <2> QED BY <2>2, <2>3, <2>4, <2>5, <2>6 DEF TypeOKConexoes
<1>4. ASSUME NEW falhou \in BOOLEAN, Larga(c, falhou) PROVE TypeOKConexoes'
  <2>1. Devolve(chamada[c], falhou) \in Nat
        BY DEF Devolve, TypeOKConexoes
  <2> QED BY <1>4, <2>1, LivreDaChamada DEF Larga, TypeOKConexoes, SemChamada, Precisa
<1> QED BY <1>1, <1>2, <1>3, <1>4 DEF Desiste, TerminaChamada

(***************************************************************************)
(* A call holds no more clients than its kind needs, and one that waits    *)
(* has fewer: for any calls and any size of the pool.                      *)
(***************************************************************************)
THEOREM TipoDasConexoes == SpecConexoes => []TypeOKConexoes
<1>1. TypeOKConexoes /\ UNCHANGED varsConexoes => TypeOKConexoes'
      BY DEF TypeOKConexoes, varsConexoes
<1>2. TypeOKConexoes /\ [NextConexoes]_varsConexoes => TypeOKConexoes'
      BY <1>1, TipoDoPassoConexoes
<1> QED BY TipoInicialDasConexoes, <1>2, PTL DEF SpecConexoes

-----------------------------------------------------------------------------
\* The calls that are going to give back a client, and those that give back two: finite sets
\* whatever the calls are, and a step adds its call to one of them or takes it from both.
Volta(ch) == Devolve(ch, TRUE)
Devem(n) == {c \in Chamadas : Volta(chamada[c]) >= n}
ADevolver == Cardinality(Devem(1)) + Cardinality(Devem(2))
DaSuporte == IF doSuporte THEN 1 ELSE 0

\* The pool's account, and what makes the one connection of SupportsService one.
ContaFecha ==
    /\ IsFiniteSet(Devem(1)) /\ IsFiniteSet(Devem(2))
    /\ livres + ADevolver + abertas + DaSuporte = MaxConexoes
UmSuporte ==
    /\ ~doSuporte => \A c, k \in Chamadas :
           chamada[c].tipo = "suporte" /\ chamada[k].tipo = "suporte" => c = k
    /\ \A c \in Chamadas : chamada[c].tipo = "suporte" /\ chamada[c].pc = "espera" => ~doSuporte
InvConexoes == TypeOKConexoes /\ ContaFecha /\ UmSuporte

LEMMA DevolveAteDois ==
    ASSUME TypeOKConexoes, NEW c \in Chamadas, NEW falhou \in BOOLEAN
    PROVE  Devolve(chamada[c], falhou) \in 0..2 /\ Devolve(chamada[c], falhou) = Volta(chamada[c])
<1>1. chamada[c].tem \in 0..2
      BY DEF TypeOKConexoes
<1> QED BY <1>1 DEF Volta, Devolve

LEMMA ADevolverNatural ==
    ASSUME ContaFecha
    PROVE  Cardinality(Devem(1)) \in Nat /\ Cardinality(Devem(2)) \in Nat /\ ADevolver \in Nat
<1>1. Cardinality(Devem(1)) \in Nat /\ Cardinality(Devem(2)) \in Nat
      BY FS_CardinalityType DEF ContaFecha
<1> QED BY <1>1 DEF ADevolver

\* What a step does to the sets, when the call c alone changes.
LEMMA PoeUm ==
    ASSUME TypeOKConexoes, ContaFecha, NEW c \in Chamadas,
           \A k \in Chamadas \ {c} : chamada'[k] = chamada[k],
           Volta(chamada'[c]) = Volta(chamada[c]) + 1, Volta(chamada[c]) < 2
    PROVE  /\ IsFiniteSet(Devem(1)') /\ IsFiniteSet(Devem(2)')
           /\ ADevolver' = ADevolver + 1
<1> DEFINE d == Volta(chamada[c])
<1>0. d \in 0..2 /\ d < 2 /\ IsFiniteSet(Devem(1)) /\ IsFiniteSet(Devem(2))
      BY DevolveAteDois DEF ContaFecha
<1>d. d = 0 \/ d = 1
      BY <1>0
<1>k. ASSUME NEW k \in Chamadas, k # c PROVE Volta(chamada'[k]) = Volta(chamada[k])
      BY <1>k
<1>1. CASE d = 0
  <2>1. Devem(1)' = Devem(1) \cup {c} /\ c \notin Devem(1) /\ Devem(2)' = Devem(2)
    <3>1. Volta(chamada'[c]) = 1 /\ Volta(chamada[c]) = 0
          BY <1>1
    <3> QED BY <1>k, <3>1 DEF Devem
  <2>2. IsFiniteSet(Devem(1)') /\ Cardinality(Devem(1)') = Cardinality(Devem(1)) + 1
        BY <1>0, <2>1, FS_AddElement
  <2> QED BY <1>0, <2>1, <2>2, ADevolverNatural DEF ADevolver
<1>2. CASE d = 1
  <2>1. Devem(2)' = Devem(2) \cup {c} /\ c \notin Devem(2) /\ Devem(1)' = Devem(1)
    <3>1. Volta(chamada'[c]) = 2 /\ Volta(chamada[c]) = 1
          BY <1>2
    <3> QED BY <1>k, <3>1 DEF Devem
  <2>2. IsFiniteSet(Devem(2)') /\ Cardinality(Devem(2)') = Cardinality(Devem(2)) + 1
        BY <1>0, <2>1, FS_AddElement
  <2> QED BY <1>0, <2>1, <2>2, ADevolverNatural DEF ADevolver
<1> QED BY <1>d, <1>1, <1>2

LEMMA MantemTodos ==
    ASSUME ContaFecha, \A k \in Chamadas : Volta(chamada'[k]) = Volta(chamada[k])
    PROVE  IsFiniteSet(Devem(1)') /\ IsFiniteSet(Devem(2)') /\ ADevolver' = ADevolver
<1>1. Devem(1)' = Devem(1) /\ Devem(2)' = Devem(2)
      BY DEF Devem
<1> QED BY <1>1 DEF ContaFecha, ADevolver

LEMMA TiraTodos ==
    ASSUME TypeOKConexoes, ContaFecha, NEW c \in Chamadas,
           \A k \in Chamadas \ {c} : chamada'[k] = chamada[k], chamada'[c] = SemChamada
    PROVE  /\ IsFiniteSet(Devem(1)') /\ IsFiniteSet(Devem(2)')
           /\ ADevolver' = ADevolver - Volta(chamada[c])
<1> DEFINE d == Volta(chamada[c])
<1>0. d \in 0..2 /\ Volta(SemChamada) = 0 /\ IsFiniteSet(Devem(1)) /\ IsFiniteSet(Devem(2))
      BY DevolveAteDois DEF ContaFecha, Volta, Devolve, SemChamada
<1>1. /\ Devem(1)' = Devem(1) \ {c} /\ (c \in Devem(1) <=> d >= 1)
      /\ Devem(2)' = Devem(2) \ {c} /\ (c \in Devem(2) <=> d >= 2)
  <2>1. ASSUME NEW k \in Chamadas, k # c PROVE Volta(chamada'[k]) = Volta(chamada[k])
        BY <2>1
  <2>2. Volta(chamada'[c]) = 0
        BY <1>0
  <2> QED BY <2>1, <2>2 DEF Devem
<1>2. ASSUME NEW S, IsFiniteSet(S)
      PROVE  /\ IsFiniteSet(S \ {c})
             /\ c \in S => Cardinality(S \ {c}) = Cardinality(S) - 1
             /\ c \notin S => S \ {c} = S
      BY <1>2, FS_RemoveElement
<1>3. /\ IsFiniteSet(Devem(1)') /\ IsFiniteSet(Devem(2)')
      /\ d >= 1 => Cardinality(Devem(1)') = Cardinality(Devem(1)) - 1
      /\ ~(d >= 1) => Cardinality(Devem(1)') = Cardinality(Devem(1))
      /\ d >= 2 => Cardinality(Devem(2)') = Cardinality(Devem(2)) - 1
      /\ ~(d >= 2) => Cardinality(Devem(2)') = Cardinality(Devem(2))
      BY <1>0, <1>1, <1>2
<1>4. Cardinality(Devem(1)') + Cardinality(Devem(2)') = Cardinality(Devem(1)) + Cardinality(Devem(2)) - d
  <2>1. d = 0 \/ d = 1 \/ d = 2
        BY <1>0
  <2> HIDE DEF d
  <2> QED BY <2>1, <1>3, ADevolverNatural
<1>5. ADevolver' = Cardinality(Devem(1)') + Cardinality(Devem(2)')
      BY DEF ADevolver
<1>6. ADevolver = Cardinality(Devem(1)) + Cardinality(Devem(2))
      BY DEF ADevolver
<1>7. ADevolver' = ADevolver - d
  <2>1. d \in Int /\ Cardinality(Devem(1)') \in Int /\ Cardinality(Devem(2)') \in Int
        BY <1>0, <1>3, FS_CardinalityType
  <2> HIDE DEF d
  <2> QED BY <1>4, <1>5, <1>6, <2>1, ADevolverNatural
<1> QED BY <1>3, <1>7

LEMMA ContaNoPasso == InvConexoes /\ NextConexoes => InvConexoes'
<1> SUFFICES ASSUME InvConexoes, NextConexoes PROVE InvConexoes'
    OBVIOUS
<1>0. TypeOKConexoes /\ ContaFecha /\ UmSuporte /\ TypeOKConexoes'
      BY TipoDoPassoConexoes DEF InvConexoes
<1>c. PICK c \in Chamadas : \/ \E tipo \in TiposDeChamada : Chega(c, tipo)
                            \/ ChegaComConexao(c) \/ Recebe(c) \/ Desiste(c) \/ TerminaChamada(c)
      BY DEF NextConexoes, Anda
<1>d. /\ livres \in Nat /\ abertas \in Nat /\ ADevolver \in Nat /\ DaSuporte \in 0..1
      /\ livres + ADevolver + abertas + DaSuporte = MaxConexoes
      BY <1>0, ADevolverNatural DEF TypeOKConexoes, ContaFecha, DaSuporte
<1>1. ASSUME NEW tipo \in TiposDeChamada, Chega(c, tipo) PROVE ContaFecha' /\ UmSuporte'
  <2>1. /\ chamada[c] = SemChamada /\ chamada'[c] = [tipo |-> tipo, pc |-> "espera", tem |-> 0]
        /\ \A k \in Chamadas \ {c} : chamada'[k] = chamada[k]
        /\ UNCHANGED <<livres, doSuporte, abertas>>
        BY <1>0, <1>1 DEF Chega, TypeOKConexoes
  <2>2. Volta(chamada'[c]) = 0 /\ Volta(chamada[c]) = 0
        BY <2>1 DEF Volta, Devolve, SemChamada
  <2>3. IsFiniteSet(Devem(1)') /\ IsFiniteSet(Devem(2)') /\ ADevolver' = ADevolver
        BY <1>0, <2>1, <2>2, MantemTodos
  <2>4. UmSuporte'
    <3>1. tipo = "suporte" => ~doSuporte /\ \A k \in Chamadas : chamada[k].tipo # "suporte"
          BY <1>1 DEF Chega
    <3> QED BY <1>0, <2>1, <3>1 DEF UmSuporte
  <2>5. DaSuporte' = DaSuporte
        BY <2>1 DEF DaSuporte
  <2>9. livres' + ADevolver' + abertas' + DaSuporte' = MaxConexoes
        BY <1>d, <2>1, <2>3, <2>5
  <2> QED BY <2>3, <2>4, <2>9 DEF ContaFecha
<1>2. ASSUME ChegaComConexao(c) PROVE ContaFecha' /\ UmSuporte'
  <2>1. /\ chamada[c] = SemChamada /\ chamada'[c] = [tipo |-> "suporte", pc |-> "dentro", tem |-> 0]
        /\ \A k \in Chamadas \ {c} : chamada'[k] = chamada[k]
        /\ UNCHANGED <<livres, doSuporte, abertas>> /\ doSuporte
        BY <1>0, <1>2 DEF ChegaComConexao, TypeOKConexoes
  <2>2. Volta(chamada'[c]) = 0 /\ Volta(chamada[c]) = 0
        BY <2>1 DEF Volta, Devolve, SemChamada
  <2>3. IsFiniteSet(Devem(1)') /\ IsFiniteSet(Devem(2)') /\ ADevolver' = ADevolver
        BY <1>0, <2>1, <2>2, MantemTodos
  <2>4. UmSuporte'
        BY <1>0, <2>1 DEF UmSuporte
  <2>5. DaSuporte' = DaSuporte
        BY <2>1 DEF DaSuporte
  <2>9. livres' + ADevolver' + abertas' + DaSuporte' = MaxConexoes
        BY <1>d, <2>1, <2>3, <2>5
  <2> QED BY <2>3, <2>4, <2>9 DEF ContaFecha
<1>3. ASSUME Recebe(c) PROVE ContaFecha' /\ UmSuporte'
  <2> DEFINE ch == chamada[c]
  <2>1. /\ ch.tem \in 0..2 /\ ch.tem < Precisa(ch.tipo) /\ ch.pc = "espera" /\ livres > 0
        BY <1>0, <1>3 DEF Recebe, TypeOKConexoes
  <2>2. /\ chamada'[c].tem = ch.tem + 1 /\ chamada'[c].tipo = ch.tipo
        /\ chamada'[c].pc = (IF ch.tem + 1 = Precisa(ch.tipo) THEN "dentro" ELSE "espera")
        /\ \A k \in Chamadas \ {c} : chamada'[k] = chamada[k]
        BY <1>0, <1>3 DEF Recebe, TypeOKConexoes
  <2>3. /\ livres' = livres - 1
        /\ abertas' = IF ch.tipo = "usuarios" /\ ch.tem = 0 THEN abertas + 1 ELSE abertas
        /\ doSuporte' = (doSuporte \/ ch.tipo = "suporte")
        BY <1>3 DEF Recebe
  <2>4. CASE ch.tipo = "suporte"
    <3>1. ~doSuporte /\ \A k \in Chamadas \ {c} : chamada[k].tipo # "suporte"
          BY <1>0, <2>1, <2>4 DEF UmSuporte
    <3>2. Volta(chamada'[c]) = 0 /\ Volta(chamada[c]) = 0
          BY <2>2, <2>4 DEF Volta, Devolve
    <3>3. IsFiniteSet(Devem(1)') /\ IsFiniteSet(Devem(2)') /\ ADevolver' = ADevolver
          BY <1>0, <2>2, <3>2, MantemTodos
    <3>4. DaSuporte' = DaSuporte + 1 /\ abertas' = abertas
      <4>1. doSuporte' /\ ~doSuporte /\ abertas' = abertas
            BY <2>3, <2>4, <3>1
      <4>2. DaSuporte' = 1 /\ DaSuporte = 0
            BY <4>1 DEF DaSuporte
      <4> QED BY <4>1, <4>2
    <3>5. chamada'[c].pc = "dentro"
          BY <2>1, <2>2, <2>4 DEF Precisa
    <3>6. UmSuporte'
      <4>1. doSuporte'
            BY <2>3, <2>4
      <4>2. ASSUME NEW k \in Chamadas PROVE ~(chamada'[k].tipo = "suporte" /\ chamada'[k].pc = "espera")
            BY <2>2, <3>1, <3>5
      <4> QED BY <4>1, <4>2 DEF UmSuporte
    <3>9. livres' + ADevolver' + abertas' + DaSuporte' = MaxConexoes
          BY <1>d, <2>3, <3>3, <3>4
    <3> QED BY <3>3, <3>6, <3>9 DEF ContaFecha
  <2>5. CASE ch.tipo # "suporte"
    <3>1. UmSuporte' /\ DaSuporte' = DaSuporte
      <4>1. doSuporte' = doSuporte
            BY <1>0, <2>3, <2>5 DEF TypeOKConexoes
      <4> QED BY <1>0, <2>2, <2>5, <4>1 DEF UmSuporte, DaSuporte
    <3>2. CASE ch.tipo = "usuarios" /\ ch.tem = 0
      <4>1. Volta(chamada'[c]) = 0 /\ Volta(chamada[c]) = 0
            BY <2>2, <3>2 DEF Volta, Devolve
      <4>2. IsFiniteSet(Devem(1)') /\ IsFiniteSet(Devem(2)') /\ ADevolver' = ADevolver
            BY <1>0, <2>2, <4>1, MantemTodos
      <4>3. abertas' = abertas + 1
            BY <2>3, <3>2
      <4>9. livres' + ADevolver' + abertas' + DaSuporte' = MaxConexoes
            BY <1>d, <2>3, <3>1, <4>2, <4>3
      <4> QED BY <4>2, <3>1, <4>9 DEF ContaFecha
    <3>3. CASE ~(ch.tipo = "usuarios" /\ ch.tem = 0)
      <4>1. Volta(chamada'[c]) = Volta(chamada[c]) + 1 /\ Volta(chamada[c]) < 2
            BY <2>1, <2>2, <2>5, <3>3 DEF Volta, Devolve, Precisa
      <4>2. IsFiniteSet(Devem(1)') /\ IsFiniteSet(Devem(2)') /\ ADevolver' = ADevolver + 1
            BY <1>0, <2>2, <4>1, PoeUm
      <4>3. abertas' = abertas
            BY <2>3, <3>3
      <4>9. livres' + ADevolver' + abertas' + DaSuporte' = MaxConexoes
            BY <1>d, <2>3, <3>1, <4>2, <4>3
      <4> QED BY <4>2, <3>1, <4>9 DEF ContaFecha
    <3> QED BY <3>2, <3>3
  <2> QED BY <2>4, <2>5
<1>4. ASSUME NEW falhou \in BOOLEAN, Larga(c, falhou) PROVE ContaFecha' /\ UmSuporte'
  <2>1. /\ chamada'[c] = SemChamada /\ \A k \in Chamadas \ {c} : chamada'[k] = chamada[k]
        /\ livres' = livres + Volta(chamada[c]) /\ UNCHANGED <<doSuporte, abertas>>
        /\ Volta(chamada[c]) \in 0..2
        BY <1>0, <1>4, DevolveAteDois DEF Larga, TypeOKConexoes
  <2>2. /\ IsFiniteSet(Devem(1)') /\ IsFiniteSet(Devem(2)')
        /\ ADevolver' = ADevolver - Volta(chamada[c])
        BY <1>0, <2>1, TiraTodos
  <2>3. UmSuporte'
    <3>1. SemChamada.tipo # "suporte"
          BY DEF SemChamada
    <3> QED BY <1>0, <2>1, <3>1 DEF UmSuporte
  <2>4. DaSuporte' = DaSuporte
        BY <2>1 DEF DaSuporte
  <2>9. livres' + ADevolver' + abertas' + DaSuporte' = MaxConexoes
    <3> DEFINE d == Volta(chamada[c])
    <3>1. livres' = livres + d /\ ADevolver' = ADevolver - d /\ d \in Int /\ abertas' = abertas
          BY <2>1, <2>2
    <3> HIDE DEF d
    <3> QED BY <1>d, <2>4, <3>1
  <2> QED BY <2>2, <2>3, <2>9 DEF ContaFecha
<1>5. ContaFecha' /\ UmSuporte'
  <2>1. CASE Desiste(c)
    <3>1. Larga(c, TRUE)
          BY <2>1 DEF Desiste
    <3> QED BY <1>4, <3>1
  <2>2. CASE TerminaChamada(c)
    <3>1. PICK falhou \in BOOLEAN : Larga(c, falhou)
          BY <2>2 DEF TerminaChamada
    <3> QED BY <1>4, <3>1
  <2>3. CASE \E tipo \in TiposDeChamada : Chega(c, tipo)
        BY <1>1, <2>3
  <2> QED BY <1>c, <1>2, <1>3, <2>1, <2>2, <2>3
<1> QED BY <1>0, <1>5 DEF InvConexoes

(***************************************************************************)
(* When nothing runs, the pool lacks exactly what UsersService and         *)
(* SupportsService took: for any calls and any size of the pool.           *)
(***************************************************************************)
THEOREM FaltamSempreSoAsDeUsuarios == SpecConexoes => []FaltamSoAsDeUsuarios
<1>1. InitConexoes => InvConexoes
  <2> SUFFICES ASSUME InitConexoes PROVE InvConexoes
      OBVIOUS
  <2>1. \A c \in Chamadas : chamada[c] = SemChamada
        BY DEF InitConexoes
  <2>2. Devem(1) = {} /\ Devem(2) = {}
        BY <2>1 DEF Devem, Volta, Devolve, SemChamada
  <2>3. ContaFecha
    <3>1. IsFiniteSet(Devem(1)) /\ IsFiniteSet(Devem(2)) /\ ADevolver = 0
          BY <2>2, FS_EmptySet DEF ADevolver
    <3> QED BY <3>1, ConexoesAssumption DEF InitConexoes, ContaFecha, DaSuporte
  <2>4. UmSuporte
        BY <2>1 DEF UmSuporte, SemChamada
  <2> QED BY <2>3, <2>4, TipoInicialDasConexoes DEF InvConexoes
<1>2. InvConexoes /\ UNCHANGED varsConexoes => InvConexoes'
  <2> SUFFICES ASSUME InvConexoes, UNCHANGED varsConexoes PROVE InvConexoes'
      OBVIOUS
  <2>1. UNCHANGED <<livres, chamada, doSuporte, abertas>>
        BY DEF varsConexoes
  <2>2. Devem(1)' = Devem(1) /\ Devem(2)' = Devem(2)
        BY <2>1 DEF Devem
  <2>3. TypeOKConexoes'
        BY <2>1 DEF InvConexoes, TypeOKConexoes
  <2>4. UmSuporte'
        BY <2>1 DEF InvConexoes, UmSuporte
  <2> QED BY <2>1, <2>2, <2>3, <2>4 DEF InvConexoes, ContaFecha, ADevolver, DaSuporte
<1>3. InvConexoes => FaltamSoAsDeUsuarios
  <2> SUFFICES ASSUME InvConexoes, PoolOcioso PROVE FaltamSoAsDeUsuarios
      BY DEF FaltamSoAsDeUsuarios
  <2>1. Devem(1) = {} /\ Devem(2) = {}
        BY DEF PoolOcioso, Devem, Volta, Devolve, SemChamada
  <2>2. ADevolver = 0
        BY <2>1, FS_EmptySet DEF ADevolver
  <2>3. livres \in Nat /\ abertas \in Nat /\ livres + 0 + abertas + DaSuporte = MaxConexoes
        BY <2>2 DEF InvConexoes, ContaFecha, TypeOKConexoes
  <2> QED BY <2>3, ConexoesAssumption DEF FaltamSoAsDeUsuarios, DaSuporte
<1> QED BY <1>1, <1>2, <1>3, ContaNoPasso, PTL DEF SpecConexoes

-----------------------------------------------------------------------------
(***************************************************************************)
(* Files.  The inductive invariant says whose each key is: a message is    *)
(* sent with a copy of its own, and a form's upload is nobody else's, so   *)
(* that what retention and editions delete is not what the row shows.      *)
(***************************************************************************)
\* The first message of a set of them is one of them.
LEMMA MinimoPertence ==
    ASSUME NEW S, S \subseteq Nat, S # {}
    PROVE  Min(S) \in S /\ \A y \in S : Min(S) <= y
<1> DEFINE R == OpToRel(<, Nat)
<1>1. IsWellFoundedOn(R, Nat) BY NatLessThanWellFounded
<1>2. \A x, y \in Nat : <<y, x>> \in R <=> y < x BY DEF OpToRel
<1> HIDE DEF R
<1>3. PICK x \in S : \A y \in S : ~ (<<y, x>> \in R) BY <1>1, WFMin
<1>4. ASSUME NEW y \in S PROVE x <= y
  <2>1. x \in Nat /\ y \in Nat OBVIOUS
  <2>2. ~(y < x) BY <1>2, <1>3, <2>1
  <2> QED BY <2>1, <2>2
<1> QED BY <1>4 DEF Min

Formulario == [pc : {"fechado", "aberto", "leu", "grava", "removeu"}, mostra : Nat, lido : Nat, manda : Nat]
MensagemComMidia == [chave : Nat, expirada : BOOLEAN, velha : BOOLEAN]
RodadaDaRetencao == [pc : {"fora", "busca", "apaga", "marca"}, lote : SUBSET Nat, cheio : BOOLEAN]
TypeOKMidias ==
    /\ chaves \in Nat /\ objetos \subseteq Nat \ {0}
    /\ cadastro \in [chave : Nat, removido : BOOLEAN]
    /\ formulario \in [Formularios -> Formulario]
    /\ mensagens \in Seq(MensagemComMidia)
    /\ rodada \in RodadaDaRetencao
    /\ rodada.lote \subseteq Enviadas /\ (rodada.pc = "marca" => rodada.lote # {})

ChavesDoFormulario(q) == {q.mostra, q.lido, q.manda}

\* Every key in use was given.
ChavesDadas ==
    /\ \A c \in objetos : c <= chaves
    /\ cadastro.chave <= chaves
    /\ \A f \in Formularios : \A c \in ChavesDoFormulario(formulario[f]) : c <= chaves
    /\ \A m \in Enviadas : mensagens[m].chave <= chaves

\* The copy a message is sent with is of nobody else.
CopiaSeparada ==
    \A m \in Enviadas : mensagens[m].chave # 0 =>
        /\ mensagens[m].chave # cadastro.chave
        /\ \A f \in Formularios : mensagens[m].chave \notin ChavesDoFormulario(formulario[f])

\* The file a form has just uploaded is there, and no one else has its key.
Subiu(q) == q.pc \in {"leu", "grava"} /\ q.manda \notin {0, q.mostra}
EnvioSeparado ==
    \A f \in Formularios : Subiu(formulario[f]) =>
        /\ formulario[f].manda \in objetos
        /\ formulario[f].manda \notin {cadastro.chave, formulario[f].lido}
        /\ \A g \in Formularios \ {f} : formulario[f].manda \notin ChavesDoFormulario(formulario[g])

\* Who removed the row left it removed.
RemovidoFica == \A f \in Formularios : formulario[f].pc = "removeu" => cadastro.removido

\* The edition that took the file away is one that replaces it.
TemOuTroca ==
    \/ cadastro.removido \/ cadastro.chave \in objetos \cup {0} \/ estrago # {}
    \/ \E f \in Formularios : /\ formulario[f].pc = "grava" /\ TrocouAnexo(formulario[f])
                              /\ formulario[f].lido = cadastro.chave

IndMidias == TypeOKMidias /\ ChavesDadas /\ CopiaSeparada /\ EnvioSeparado /\ RemovidoFica /\ TemOuTroca

LEMMA FatosDasMidias ==
    ASSUME TypeOKMidias
    PROVE  /\ \A f \in Formularios : formulario[f] \in Formulario
           /\ Enviadas = 1 .. Len(mensagens) /\ Len(mensagens) \in Nat
           /\ \A m \in Enviadas : mensagens[m] \in MensagemComMidia /\ mensagens[m].chave \in Nat
           /\ cadastro.chave \in Nat /\ cadastro.removido \in BOOLEAN
<1>1. DOMAIN mensagens = 1 .. Len(mensagens) /\ Len(mensagens) \in Nat
  BY LenProperties DEF TypeOKMidias
<1>2. \A m \in 1 .. Len(mensagens) : mensagens[m] \in MensagemComMidia
  BY ElementOfSeq DEF TypeOKMidias
<1> QED BY <1>1, <1>2 DEF TypeOKMidias, Enviadas, MensagemComMidia

LEMMA InicioDasMidias == InitMidias => IndMidias
<1> SUFFICES ASSUME InitMidias PROVE IndMidias OBVIOUS
<1>1. /\ \A f \in Formularios : formulario[f] = Fechado
      /\ Fechado \in Formulario /\ Fechado.pc = "fechado"
      /\ ChavesDoFormulario(Fechado) = {0}
  BY DEF InitMidias, Fechado, Formulario, ChavesDoFormulario
<1>2. mensagens = <<>> /\ Enviadas = {} BY DEF InitMidias, Enviadas
<1>3. TypeOKMidias
  <2>1. rodada \in RodadaDaRetencao /\ rodada.lote = {} /\ rodada.pc = "fora"
    BY DEF InitMidias, SemRodada, RodadaDaRetencao
  <2> QED BY <1>1, <1>2, <2>1, EmptySeq DEF InitMidias, TypeOKMidias
<1>4. ChavesDadas BY <1>1, <1>2 DEF InitMidias, ChavesDadas
<1>5. CopiaSeparada BY <1>2 DEF CopiaSeparada
<1>6. EnvioSeparado BY <1>1 DEF EnvioSeparado, Subiu
<1>7. RemovidoFica BY <1>1 DEF RemovidoFica
<1>8. TemOuTroca BY DEF InitMidias, TemOuTroca
<1> QED BY <1>3, <1>4, <1>5, <1>6, <1>7, <1>8 DEF IndMidias

\* A form that uploads nothing takes keys that are shown already: the row's and its own.
LEMMA FormularioSemEnvio ==
    ASSUME IndMidias, NEW f \in Formularios, NEW q \in Formulario,
           formulario' = [formulario EXCEPT ![f] = q], mensagens' = mensagens, chaves' = chaves,
           rodada' = rodada, cadastro' \in [chave : Nat, removido : BOOLEAN],
           ChavesDoFormulario(q) \subseteq ChavesDoFormulario(formulario[f]) \cup {0, cadastro.chave},
           cadastro'.chave \in ChavesDoFormulario(formulario[f]) \cup {0, cadastro.chave},
           objetos' \subseteq objetos
    PROVE  TypeOKMidias' /\ ChavesDadas' /\ CopiaSeparada'
           /\ \A g \in Formularios : formulario'[g] = IF g = f THEN q ELSE formulario[g]
<1>1. \A g \in Formularios : formulario'[g] = IF g = f THEN q ELSE formulario[g]
  BY DEF IndMidias, TypeOKMidias
<1>2. TypeOKMidias' BY DEF IndMidias, TypeOKMidias, Enviadas
<1>3. \A c \in ChavesDoFormulario(q) \cup {cadastro'.chave} : c <= chaves
  BY DEF IndMidias, ChavesDadas, TypeOKMidias
<1>4. ChavesDadas' BY <1>1, <1>3 DEF IndMidias, ChavesDadas, Enviadas
<1>5. CopiaSeparada'
  <2> SUFFICES ASSUME NEW m \in Enviadas, mensagens[m].chave # 0
               PROVE  /\ mensagens[m].chave # cadastro'.chave
                      /\ \A g \in Formularios : mensagens[m].chave \notin ChavesDoFormulario(formulario'[g])
    BY DEF CopiaSeparada, Enviadas
  <2>1. /\ mensagens[m].chave # cadastro.chave
        /\ \A g \in Formularios : mensagens[m].chave \notin ChavesDoFormulario(formulario[g])
    BY DEF IndMidias, CopiaSeparada
  <2> QED BY <1>1, <2>1
<1> QED BY <1>1, <1>2, <1>4, <1>5

LEMMA AbreMantem == ASSUME IndMidias, NEW f \in Formularios, AbreFormulario(f) PROVE IndMidias'
<1> DEFINE q == [Fechado EXCEPT !.pc = "aberto", !.mostra = cadastro.chave]
<1>1. /\ q \in Formulario /\ q.pc = "aberto" /\ ChavesDoFormulario(q) = {0, cadastro.chave}
      /\ formulario[f].pc = "fechado"
  <2>1. cadastro.chave \in Nat BY FatosDasMidias DEF IndMidias
  <2>2. Fechado \in Formulario /\ Fechado.lido = 0 /\ Fechado.manda = 0 BY DEF Fechado, Formulario
  <2>3. formulario[f].pc = "fechado" BY DEF AbreFormulario, Fechado
  <2>4. q \in Formulario /\ q.pc = "aberto" /\ q.mostra = cadastro.chave /\ q.lido = 0 /\ q.manda = 0
    BY <2>1, <2>2 DEF Formulario
  <2> HIDE DEF q
  <2> QED BY <2>3, <2>4 DEF ChavesDoFormulario
<1>2. /\ formulario' = [formulario EXCEPT ![f] = q] /\ mensagens' = mensagens /\ chaves' = chaves
      /\ rodada' = rodada /\ cadastro' = cadastro /\ objetos' = objetos /\ estrago' = estrago
  BY DEF AbreFormulario
<1> HIDE DEF q
<1>3. cadastro \in [chave : Nat, removido : BOOLEAN] BY DEF IndMidias, TypeOKMidias
<1>4. TypeOKMidias' /\ ChavesDadas' /\ CopiaSeparada'
      /\ \A g \in Formularios : formulario'[g] = IF g = f THEN q ELSE formulario[g]
  BY <1>1, <1>2, <1>3, FormularioSemEnvio
<1>5. EnvioSeparado'
  <2> SUFFICES ASSUME NEW g \in Formularios, Subiu(formulario'[g])
               PROVE  /\ formulario'[g].manda \in objetos
                      /\ formulario'[g].manda \notin {cadastro.chave, formulario'[g].lido}
                      /\ \A h \in Formularios \ {g} : formulario'[g].manda \notin ChavesDoFormulario(formulario'[h])
    BY <1>2 DEF EnvioSeparado
  <2>1. g # f BY <1>1, <1>4 DEF Subiu
  <2>2. /\ formulario'[g] = formulario[g] /\ Subiu(formulario[g]) /\ formulario[g].manda # 0
    BY <1>4, <2>1 DEF Subiu
  <2> QED BY <1>1, <1>4, <2>1, <2>2 DEF IndMidias, EnvioSeparado
<1>6. RemovidoFica' BY <1>1, <1>2, <1>4 DEF IndMidias, RemovidoFica
<1>7. TemOuTroca' BY <1>1, <1>2, <1>4 DEF IndMidias, TemOuTroca
<1> QED BY <1>4, <1>5, <1>6, <1>7 DEF IndMidias

\* A form that asks for a change uploads its file first, with a key of its own.
LEMMA PedeMantem ==
    ASSUME IndMidias, NEW f \in Formularios, NEW sobe \in BOOLEAN, NEW tira \in BOOLEAN, PedeEdicao(f, sobe, tira)
    PROVE  IndMidias'
<1> DEFINE manda == CASE sobe -> chaves + 1 [] tira -> 0 [] OTHER -> formulario[f].mostra
           q == [formulario[f] EXCEPT !.pc = "leu", !.lido = cadastro.chave, !.manda = manda]
<1>0. /\ formulario[f] \in Formulario /\ cadastro.chave \in Nat /\ chaves \in Nat
      /\ \A g \in Formularios : formulario[g] \in Formulario
      /\ Enviadas' = Enviadas
  BY FatosDasMidias DEF IndMidias, TypeOKMidias, PedeEdicao, Enviadas
<1>1. /\ q \in Formulario /\ q.pc = "leu" /\ q.lido = cadastro.chave /\ q.mostra = formulario[f].mostra
      /\ sobe => q.manda = chaves + 1
      /\ ~sobe => q.manda \in {0, formulario[f].mostra}
  <2>1. (sobe => manda = chaves + 1) /\ (~sobe => manda \in {0, formulario[f].mostra})
    BY DEF PedeEdicao
  <2> HIDE DEF manda
  <2>2. formulario[f].mostra \in Nat BY <1>0 DEF Formulario
  <2>3. manda \in Nat BY <1>0, <2>1, <2>2
  <2> QED BY <1>0, <2>1, <2>3 DEF Formulario
<1>2. /\ formulario' = [formulario EXCEPT ![f] = q] /\ formulario[f].pc = "aberto"
      /\ chaves' = (IF sobe THEN chaves + 1 ELSE chaves)
      /\ objetos' = (IF sobe THEN objetos \cup {chaves + 1} ELSE objetos)
      /\ mensagens' = mensagens /\ rodada' = rodada /\ cadastro' = cadastro /\ estrago' = estrago
  BY DEF PedeEdicao, IndMidias, TypeOKMidias
<1> HIDE DEF q, manda
<1>3. \A g \in Formularios : formulario'[g] = IF g = f THEN q ELSE formulario[g]
  BY <1>2 DEF IndMidias, TypeOKMidias
<1>4. /\ \A g \in Formularios : chaves + 1 \notin ChavesDoFormulario(formulario[g])
      /\ \A m \in Enviadas : mensagens[m].chave # chaves + 1
      /\ chaves + 1 # cadastro.chave /\ chaves + 1 # 0
      /\ formulario[f].mostra <= chaves
  BY <1>0, FatosDasMidias DEF IndMidias, ChavesDadas, ChavesDoFormulario, Formulario
<1>5. ChavesDoFormulario(q) \subseteq {formulario[f].mostra, cadastro.chave, 0} \cup (IF sobe THEN {chaves + 1} ELSE {})
  BY <1>1 DEF ChavesDoFormulario
<1>6. TypeOKMidias' BY <1>0, <1>1, <1>2, <1>3 DEF IndMidias, TypeOKMidias
<1>7. ChavesDadas'
  <2>1. chaves' \in Nat /\ chaves' >= chaves BY <1>0, <1>2
  <2>2. \A c \in ChavesDoFormulario(q) : c <= chaves'
    <3>1. chaves + 1 \in Nat /\ cadastro.chave <= chaves /\ formulario[f].mostra \in Nat
      BY <1>0 DEF IndMidias, ChavesDadas, Formulario
    <3>2. \A c \in {formulario[f].mostra, cadastro.chave, 0} : c \in Nat /\ c <= chaves
      BY <1>0, <1>4, <3>1
    <3>3. CASE sobe BY <1>0, <1>2, <1>5, <3>2, <3>3
    <3>4. CASE ~sobe BY <1>0, <1>2, <1>5, <3>2, <3>4
    <3> QED BY <3>3, <3>4
  <2>3. \A g \in Formularios : \A c \in ChavesDoFormulario(formulario[g]) : c \in Nat /\ c <= chaves
    BY <1>0 DEF IndMidias, ChavesDadas, ChavesDoFormulario, Formulario
  <2>4. \A c \in objetos' : c <= chaves' BY <1>0, <1>2 DEF IndMidias, ChavesDadas, TypeOKMidias
  <2>5. \A m \in Enviadas : mensagens[m].chave <= chaves'
    BY <1>0, <2>1, FatosDasMidias DEF IndMidias, ChavesDadas
  <2>6. cadastro.chave <= chaves' BY <1>0, <2>1 DEF IndMidias, ChavesDadas
  <2>7. ASSUME NEW g \in Formularios, NEW c \in ChavesDoFormulario(formulario'[g]) PROVE c <= chaves'
    <3>1. CASE g = f BY <1>3, <2>2, <2>7, <3>1
    <3>2. CASE g # f
      <4>1. c \in ChavesDoFormulario(formulario[g]) BY <1>3, <2>7, <3>2
      <4>2. c \in Nat /\ c <= chaves BY <2>3, <4>1
      <4>3. chaves \in Nat /\ chaves' \in Nat /\ chaves <= chaves' BY <1>0, <2>1
      <4> QED BY <4>2, <4>3
    <3> QED BY <3>1, <3>2
  <2>8. \A g \in Formularios : \A c \in ChavesDoFormulario(formulario[g])' : c <= chaves'
    BY <2>7 DEF ChavesDoFormulario
  <2>9. mensagens' = mensagens /\ cadastro' = cadastro BY <1>2
  <2> QED BY <2>4, <2>5, <2>6, <2>8, <2>9 DEF ChavesDadas, Enviadas
<1>8. CopiaSeparada'
  <2> SUFFICES ASSUME NEW m \in Enviadas, mensagens[m].chave # 0
               PROVE  /\ mensagens[m].chave # cadastro.chave
                      /\ \A g \in Formularios : mensagens[m].chave \notin ChavesDoFormulario(formulario'[g])
    BY <1>0, <1>2 DEF CopiaSeparada
  <2>1. /\ mensagens[m].chave # cadastro.chave /\ mensagens[m].chave # chaves + 1
        /\ \A g \in Formularios : mensagens[m].chave \notin ChavesDoFormulario(formulario[g])
    BY <1>4 DEF IndMidias, CopiaSeparada
  <2>2. formulario[f].mostra \in ChavesDoFormulario(formulario[f]) BY DEF ChavesDoFormulario
  <2>3. mensagens[m].chave \notin ChavesDoFormulario(q) BY <1>5, <2>1, <2>2
  <2> QED BY <1>3, <2>1, <2>3
<1>9. EnvioSeparado'
  <2> SUFFICES ASSUME NEW g \in Formularios, Subiu(formulario'[g])
               PROVE  /\ formulario'[g].manda \in objetos'
                      /\ formulario'[g].manda \notin {cadastro.chave, formulario'[g].lido}
                      /\ \A h \in Formularios \ {g} : formulario'[g].manda \notin ChavesDoFormulario(formulario'[h])
    BY <1>2 DEF EnvioSeparado
  <2>1. CASE g = f
    <3>1. sobe BY <1>1, <1>3, <2>1 DEF Subiu
    <3>2. formulario'[g] = q /\ q.manda = chaves + 1 /\ objetos' = objetos \cup {chaves + 1}
      <4>1. objetos' = objetos \cup {chaves + 1} BY <1>2, <3>1
      <4>2. formulario'[g] = q BY <1>3, <2>1
      <4> QED BY <1>1, <3>1, <4>1, <4>2
    <3>3. \A h \in Formularios \ {g} : formulario'[h] = formulario[h] BY <1>3, <2>1
    <3> QED BY <1>1, <1>4, <3>2, <3>3
  <2>2. CASE g # f
    <3>1. formulario'[g] = formulario[g] /\ Subiu(formulario[g]) /\ formulario[g].manda # 0
      BY <1>3, <2>2 DEF Subiu
    <3>2. /\ formulario[g].manda \in objetos /\ formulario[g].manda \notin {cadastro.chave, formulario[g].lido}
          /\ \A h \in Formularios \ {g} : formulario[g].manda \notin ChavesDoFormulario(formulario[h])
      BY <3>1 DEF IndMidias, EnvioSeparado
    <3>3. formulario[g].manda # chaves + 1 /\ formulario[g].manda # formulario[f].mostra
      BY <1>4, <2>2, <3>2 DEF ChavesDoFormulario
    <3>4. formulario[g].manda \notin ChavesDoFormulario(q) BY <1>5, <3>1, <3>2, <3>3
    <3>5. objetos \subseteq objetos' BY <1>2
    <3> QED BY <1>3, <3>1, <3>2, <3>4, <3>5
  <2> QED BY <2>1, <2>2
<1>10. RemovidoFica' BY <1>1, <1>2, <1>3 DEF IndMidias, RemovidoFica
<1>11. TemOuTroca'
  <2>1. objetos \subseteq objetos' BY <1>2
  <2> QED BY <1>2, <1>3, <2>1 DEF IndMidias, TemOuTroca
<1> QED BY <1>6, <1>7, <1>8, <1>9, <1>10, <1>11 DEF IndMidias

LEMMA ApagaMantem == ASSUME IndMidias, NEW f \in Formularios, ApagaAntigo(f) PROVE IndMidias'
<1> DEFINE q == [formulario[f] EXCEPT !.pc = "grava"]
<1>0. formulario[f] \in Formulario BY FatosDasMidias DEF IndMidias
<1>1. /\ q \in Formulario /\ q.pc = "grava" /\ q.lido = formulario[f].lido
      /\ q.mostra = formulario[f].mostra /\ q.manda = formulario[f].manda
  BY <1>0 DEF Formulario
<1>2. /\ formulario' = [formulario EXCEPT ![f] = q] /\ mensagens' = mensagens /\ chaves' = chaves
      /\ rodada' = rodada /\ cadastro' = cadastro /\ estrago' = estrago /\ formulario[f].pc = "leu"
      /\ objetos' = objetos \/ (TrocouAnexo(formulario[f]) /\ objetos' = objetos \ {formulario[f].lido})
  BY DEF ApagaAntigo, IndMidias, TypeOKMidias
<1> HIDE DEF q
<1>3. cadastro \in [chave : Nat, removido : BOOLEAN] BY DEF IndMidias, TypeOKMidias
<1>4. TypeOKMidias' /\ ChavesDadas' /\ CopiaSeparada'
      /\ \A g \in Formularios : formulario'[g] = IF g = f THEN q ELSE formulario[g]
  <2>1. ChavesDoFormulario(q) = ChavesDoFormulario(formulario[f]) BY <1>1 DEF ChavesDoFormulario
  <2>2. objetos' \subseteq objetos BY <1>2
  <2> QED BY <1>1, <1>2, <1>3, <2>1, <2>2, FormularioSemEnvio
<1>5. EnvioSeparado'
  <2> SUFFICES ASSUME NEW g \in Formularios, Subiu(formulario'[g])
               PROVE  /\ formulario'[g].manda \in objetos'
                      /\ formulario'[g].manda \notin {cadastro.chave, formulario'[g].lido}
                      /\ \A h \in Formularios \ {g} : formulario'[g].manda \notin ChavesDoFormulario(formulario'[h])
    BY <1>2 DEF EnvioSeparado
  <2>1. /\ formulario'[g].manda = formulario[g].manda /\ formulario'[g].lido = formulario[g].lido
        /\ Subiu(formulario[g])
    BY <1>1, <1>2, <1>4 DEF Subiu
  <2>2. /\ formulario[g].manda \in objetos
        /\ formulario[g].manda \notin {cadastro.chave, formulario[g].lido}
        /\ \A h \in Formularios \ {g} : formulario[g].manda \notin ChavesDoFormulario(formulario[h])
    BY <2>1 DEF IndMidias, EnvioSeparado
  <2>3. \A h \in Formularios : ChavesDoFormulario(formulario'[h]) = ChavesDoFormulario(formulario[h])
    BY <1>1, <1>4 DEF ChavesDoFormulario
  <2>4. formulario[g].manda # formulario[f].lido BY <2>2 DEF ChavesDoFormulario
  <2> QED BY <1>2, <2>1, <2>2, <2>3, <2>4
<1>6. RemovidoFica' BY <1>1, <1>2, <1>4 DEF IndMidias, RemovidoFica
<1>7. TemOuTroca'
  <2>1. \A g \in Formularios : formulario[g].pc = "grava" => formulario'[g] = formulario[g] BY <1>2, <1>4
  <2>2. CASE cadastro.chave \in objetos /\ cadastro.chave \notin objetos'
    <3>1. TrocouAnexo(formulario[f]) /\ formulario[f].lido = cadastro.chave BY <1>2, <2>2
    <3>2. formulario'[f] = q /\ TrocouAnexo(q) BY <1>1, <1>4, <3>1 DEF TrocouAnexo
    <3> QED BY <1>1, <1>2, <3>1, <3>2 DEF TemOuTroca
  <2>3. CASE ~(cadastro.chave \in objetos /\ cadastro.chave \notin objetos')
    BY <1>2, <2>1, <2>3 DEF IndMidias, TemOuTroca
  <2> QED BY <2>2, <2>3
<1> QED BY <1>4, <1>5, <1>6, <1>7 DEF IndMidias

LEMMA GravaMantem == ASSUME IndMidias, NEW f \in Formularios, GravaCadastro(f) PROVE IndMidias'
<1> DEFINE q == formulario[f]
<1>0. /\ q \in Formulario /\ Fechado \in Formulario /\ Fechado.pc = "fechado"
      /\ ChavesDoFormulario(Fechado) = {0} /\ q.manda \in Nat
      /\ cadastro \in [chave : Nat, removido : BOOLEAN]
  BY FatosDasMidias DEF IndMidias, TypeOKMidias, Fechado, Formulario, ChavesDoFormulario
<1>1. /\ formulario' = [formulario EXCEPT ![f] = Fechado] /\ mensagens' = mensagens /\ chaves' = chaves
      /\ rodada' = rodada /\ cadastro' = [cadastro EXCEPT !.chave = q.manda] /\ objetos' = objetos
      /\ q.pc = "grava" /\ estrago \subseteq estrago'
      /\ q.manda = q.mostra /\ (q.mostra # q.lido \/ cadastro.chave # q.lido) => estrago' # {}
  BY DEF GravaCadastro
<1>2. /\ cadastro' \in [chave : Nat, removido : BOOLEAN] /\ cadastro'.chave = q.manda
      /\ cadastro'.removido = cadastro.removido
  BY <1>0, <1>1
<1>3. TypeOKMidias' /\ ChavesDadas' /\ CopiaSeparada'
      /\ \A g \in Formularios : formulario'[g] = IF g = f THEN Fechado ELSE formulario[g]
  <2>1. q.manda \in ChavesDoFormulario(formulario[f]) BY DEF ChavesDoFormulario
  <2> QED BY <1>0, <1>1, <1>2, <2>1, FormularioSemEnvio
<1>4. EnvioSeparado'
  <2> SUFFICES ASSUME NEW g \in Formularios, Subiu(formulario'[g])
               PROVE  /\ formulario'[g].manda \in objetos
                      /\ formulario'[g].manda \notin {cadastro'.chave, formulario'[g].lido}
                      /\ \A h \in Formularios \ {g} : formulario'[g].manda \notin ChavesDoFormulario(formulario'[h])
    BY <1>1 DEF EnvioSeparado
  <2>1. g # f /\ formulario'[g] = formulario[g] /\ Subiu(formulario[g]) /\ formulario[g].manda # 0
    BY <1>0, <1>3 DEF Subiu
  <2>2. /\ formulario[g].manda \in objetos
        /\ formulario[g].manda \notin {cadastro.chave, formulario[g].lido}
        /\ \A h \in Formularios \ {g} : formulario[g].manda \notin ChavesDoFormulario(formulario[h])
    BY <2>1 DEF IndMidias, EnvioSeparado
  <2>3. formulario[g].manda # q.manda BY <2>1, <2>2 DEF ChavesDoFormulario
  <2> QED BY <1>0, <1>2, <1>3, <2>1, <2>2, <2>3
<1>5. RemovidoFica' BY <1>0, <1>2, <1>3 DEF IndMidias, RemovidoFica
<1>6. TemOuTroca'
  <2>1. CASE cadastro.removido \/ estrago # {} BY <1>1, <1>2, <2>1 DEF TemOuTroca
  <2>2. CASE q.manda = 0 BY <1>2, <2>2 DEF TemOuTroca
  <2>3. CASE Subiu(q)
    <3>1. q.manda \in objetos BY <2>3 DEF IndMidias, EnvioSeparado
    <3> QED BY <1>1, <1>2, <3>1 DEF TemOuTroca
  <2>4. CASE ~cadastro.removido /\ estrago = {} /\ q.manda # 0 /\ q.manda = q.mostra
    <3>1. CASE q.mostra # q.lido \/ cadastro.chave # q.lido BY <1>1, <2>4, <3>1 DEF TemOuTroca
    <3>2. CASE q.mostra = q.lido /\ cadastro.chave = q.lido
      <4>1. ~TrocouAnexo(q) /\ cadastro'.chave = cadastro.chave BY <1>2, <2>4, <3>2 DEF TrocouAnexo
      <4>2. CASE cadastro.chave \in objetos BY <1>1, <4>1, <4>2 DEF TemOuTroca
      <4>3. CASE \E g \in Formularios : /\ formulario[g].pc = "grava" /\ TrocouAnexo(formulario[g])
                                       /\ formulario[g].lido = cadastro.chave
        <5>1. PICK g \in Formularios : /\ formulario[g].pc = "grava" /\ TrocouAnexo(formulario[g])
                                       /\ formulario[g].lido = cadastro.chave
          BY <4>3
        <5>2. formulario'[g] = formulario[g] BY <1>3, <4>1, <5>1
        <5> QED BY <4>1, <5>1, <5>2 DEF TemOuTroca
      <4> QED BY <2>4, <3>2, <4>2, <4>3 DEF IndMidias, TemOuTroca
    <3> QED BY <3>1, <3>2
  <2> QED BY <1>1, <2>1, <2>2, <2>3, <2>4 DEF Subiu
<1> QED BY <1>3, <1>4, <1>5, <1>6 DEF IndMidias

LEMMA FalhaMantem == ASSUME IndMidias, NEW f \in Formularios, FalhaCadastro(f) PROVE IndMidias'
<1>0. /\ Fechado \in Formulario /\ Fechado.pc = "fechado" /\ ChavesDoFormulario(Fechado) = {0}
      /\ cadastro \in [chave : Nat, removido : BOOLEAN]
  BY DEF IndMidias, TypeOKMidias, Fechado, Formulario, ChavesDoFormulario
<1>1. /\ formulario' = [formulario EXCEPT ![f] = Fechado] /\ mensagens' = mensagens /\ chaves' = chaves
      /\ rodada' = rodada /\ cadastro' = cadastro /\ objetos' = objetos
      /\ estrago \subseteq estrago' /\ (TrocouAnexo(formulario[f]) => estrago' # {})
  BY DEF FalhaCadastro
<1>2. TypeOKMidias' /\ ChavesDadas' /\ CopiaSeparada'
      /\ \A g \in Formularios : formulario'[g] = IF g = f THEN Fechado ELSE formulario[g]
  BY <1>0, <1>1, FormularioSemEnvio
<1>3. EnvioSeparado'
  <2> SUFFICES ASSUME NEW g \in Formularios, Subiu(formulario'[g])
               PROVE  /\ formulario'[g].manda \in objetos
                      /\ formulario'[g].manda \notin {cadastro.chave, formulario'[g].lido}
                      /\ \A h \in Formularios \ {g} : formulario'[g].manda \notin ChavesDoFormulario(formulario'[h])
    BY <1>1 DEF EnvioSeparado
  <2>1. g # f /\ formulario'[g] = formulario[g] /\ Subiu(formulario[g]) /\ formulario[g].manda # 0
    BY <1>0, <1>2 DEF Subiu
  <2> QED BY <1>0, <1>2, <2>1 DEF IndMidias, EnvioSeparado
<1>4. RemovidoFica' BY <1>0, <1>1, <1>2 DEF IndMidias, RemovidoFica
<1>5. TemOuTroca' BY <1>0, <1>1, <1>2 DEF IndMidias, TemOuTroca
<1> QED BY <1>2, <1>3, <1>4, <1>5 DEF IndMidias

LEMMA RemoveMantem ==
    ASSUME IndMidias, NEW f \in Formularios, RemoveCadastro(f) \/ ApagaDoRemovido(f) PROVE IndMidias'
<1> DEFINE q == IF formulario[f].pc = "aberto" THEN [formulario[f] EXCEPT !.pc = "removeu", !.lido = cadastro.chave]
                ELSE Fechado
<1>0. /\ formulario[f] \in Formulario /\ cadastro.chave \in Nat
      /\ cadastro \in [chave : Nat, removido : BOOLEAN]
  BY FatosDasMidias DEF IndMidias, TypeOKMidias
<1>1. /\ q \in Formulario /\ q.pc \in {"removeu", "fechado"}
      /\ ChavesDoFormulario(q) \subseteq ChavesDoFormulario(formulario[f]) \cup {0, cadastro.chave}
  BY <1>0 DEF Fechado, Formulario, ChavesDoFormulario
<1>2. /\ formulario' = [formulario EXCEPT ![f] = q] /\ mensagens' = mensagens /\ chaves' = chaves
      /\ rodada' = rodada /\ cadastro' = [cadastro EXCEPT !.removido = TRUE]
      /\ objetos' = objetos \/ objetos' = objetos \ {formulario[f].lido}
      /\ formulario[f].pc = "aberto" => objetos' = objetos
      /\ formulario[f].pc \in {"aberto", "removeu"}
  <2>1. CASE RemoveCadastro(f) BY <2>1 DEF RemoveCadastro, IndMidias, TypeOKMidias
  <2>2. CASE ApagaDoRemovido(f)
    <3>1. formulario[f].pc = "removeu" /\ cadastro.removido
      BY <2>2 DEF ApagaDoRemovido, IndMidias, RemovidoFica
    <3>2. cadastro = [cadastro EXCEPT !.removido = TRUE] BY <1>0, <3>1
    <3> QED BY <2>2, <3>1, <3>2 DEF ApagaDoRemovido
  <2> QED BY <2>1, <2>2
<1> HIDE DEF q
<1>3. /\ cadastro' \in [chave : Nat, removido : BOOLEAN] /\ cadastro'.chave = cadastro.chave
      /\ cadastro'.removido
  BY <1>0, <1>2
<1>4. TypeOKMidias' /\ ChavesDadas' /\ CopiaSeparada'
      /\ \A g \in Formularios : formulario'[g] = IF g = f THEN q ELSE formulario[g]
  <2>1. objetos' \subseteq objetos BY <1>2
  <2>2. cadastro'.chave \in ChavesDoFormulario(formulario[f]) \cup {0, cadastro.chave} BY <1>3
  <2>3. cadastro' \in [chave : Nat, removido : BOOLEAN] BY <1>3
  <2>4. /\ formulario' = [formulario EXCEPT ![f] = q] /\ mensagens' = mensagens /\ chaves' = chaves
        /\ rodada' = rodada
    BY <1>2
  <2> QED BY <1>1, <2>1, <2>2, <2>3, <2>4, FormularioSemEnvio
<1>5. EnvioSeparado'
  <2> SUFFICES ASSUME NEW g \in Formularios, Subiu(formulario'[g])
               PROVE  /\ formulario'[g].manda \in objetos'
                      /\ formulario'[g].manda \notin {cadastro.chave, formulario'[g].lido}
                      /\ \A h \in Formularios \ {g} : formulario'[g].manda \notin ChavesDoFormulario(formulario'[h])
    BY <1>3 DEF EnvioSeparado
  <2>1. g # f /\ formulario'[g] = formulario[g] /\ Subiu(formulario[g]) /\ formulario[g].manda # 0
    BY <1>1, <1>4 DEF Subiu
  <2>2. /\ formulario[g].manda \in objetos
        /\ formulario[g].manda \notin {cadastro.chave, formulario[g].lido}
        /\ \A h \in Formularios \ {g} : formulario[g].manda \notin ChavesDoFormulario(formulario[h])
    BY <2>1 DEF IndMidias, EnvioSeparado
  <2>3. formulario[g].manda # formulario[f].lido BY <2>1, <2>2 DEF ChavesDoFormulario
  <2> QED BY <1>1, <1>2, <1>4, <2>1, <2>2, <2>3
<1>6. RemovidoFica' BY <1>3 DEF RemovidoFica
<1>7. TemOuTroca' BY <1>3 DEF TemOuTroca
<1> QED BY <1>4, <1>5, <1>6, <1>7 DEF IndMidias

-----------------------------------------------------------------------------
\* What is done with messages leaves the row and the forms as they are.
LEMMA MensagensMantem ==
    ASSUME IndMidias, UNCHANGED <<cadastro, formulario, estrago>>,
           TypeOKMidias', chaves' \in Nat, chaves' >= chaves,
           \A c \in objetos' : c <= chaves',
           \A m \in Enviadas' : \/ mensagens'[m].chave \in {0, chaves'} /\ (mensagens'[m].chave = 0 \/ chaves' > chaves)
                                \/ m \in Enviadas /\ mensagens'[m].chave = mensagens[m].chave,
           \E m \in Enviadas \cup {0} : objetos \ objetos' \subseteq (IF m = 0 THEN {} ELSE {mensagens[m].chave})
    PROVE  IndMidias'
<1>0. /\ chaves \in Nat /\ cadastro.chave \in Nat /\ 0 \notin objetos
      /\ Enviadas = 1 .. Len(mensagens) /\ Len(mensagens) \in Nat
      /\ \A m \in Enviadas : mensagens[m].chave \in Nat /\ mensagens[m].chave <= chaves
      /\ \A f \in Formularios : formulario[f] \in Formulario
      /\ \A f \in Formularios : \A c \in ChavesDoFormulario(formulario[f]) : c \in Nat /\ c <= chaves
      /\ cadastro.chave <= chaves
  BY FatosDasMidias DEF IndMidias, TypeOKMidias, ChavesDadas, ChavesDoFormulario, Formulario
<1>1. ChavesDadas'
  <2>0. \A c \in Nat : c <= chaves => c <= chaves' BY <1>0
  <2>1. \A m \in Enviadas' : mensagens'[m].chave <= chaves'
    <3> SUFFICES ASSUME NEW m \in Enviadas' PROVE mensagens'[m].chave <= chaves' OBVIOUS
    <3>1. CASE mensagens'[m].chave \in {0, chaves'} BY <3>1
    <3>2. CASE m \in Enviadas /\ mensagens'[m].chave = mensagens[m].chave BY <1>0, <2>0, <3>2
    <3> QED BY <3>1, <3>2
  <2>2. cadastro.chave <= chaves' BY <1>0, <2>0
  <2>3. \A f \in Formularios : \A c \in ChavesDoFormulario(formulario[f]) : c <= chaves' BY <1>0, <2>0
  <2> QED BY <2>1, <2>2, <2>3 DEF ChavesDadas
<1>2. CopiaSeparada'
  <2> SUFFICES ASSUME NEW m \in Enviadas', mensagens'[m].chave # 0
               PROVE  /\ mensagens'[m].chave # cadastro.chave
                      /\ \A f \in Formularios : mensagens'[m].chave \notin ChavesDoFormulario(formulario[f])
    BY DEF CopiaSeparada
  <2>1. CASE mensagens'[m].chave = chaves' /\ chaves' > chaves BY <1>0, <2>1
  <2>2. CASE m \in Enviadas /\ mensagens'[m].chave = mensagens[m].chave
    BY <2>2 DEF IndMidias, CopiaSeparada
  <2> QED BY <2>1, <2>2
<1>3. \A c \in objetos : (c = cadastro.chave \/ \E f \in Formularios : c \in ChavesDoFormulario(formulario[f]))
                            => c \in objetos'
  <2> SUFFICES ASSUME NEW c \in objetos, c \notin objetos',
                      c = cadastro.chave \/ \E f \in Formularios : c \in ChavesDoFormulario(formulario[f])
               PROVE  FALSE
    OBVIOUS
  <2>1. PICK m \in Enviadas \cup {0} : objetos \ objetos' \subseteq (IF m = 0 THEN {} ELSE {mensagens[m].chave})
    OBVIOUS
  <2>2. m \in Enviadas /\ c = mensagens[m].chave /\ c # 0 BY <1>0, <2>1
  <2> QED BY <2>2 DEF IndMidias, CopiaSeparada
<1>4. EnvioSeparado' BY <1>3 DEF IndMidias, EnvioSeparado, ChavesDoFormulario
<1>5. RemovidoFica' BY DEF IndMidias, RemovidoFica
<1>6. TemOuTroca' BY <1>3 DEF IndMidias, TemOuTroca
<1> QED BY <1>1, <1>2, <1>4, <1>5, <1>6 DEF IndMidias

LEMMA EnviaMantem == ASSUME IndMidias, EnviaAnexo PROVE IndMidias'
<1> DEFINE nova == [chave |-> ChaveDoEnvio(cadastro.chave, chaves + 1), expirada |-> FALSE, velha |-> FALSE]
<1>0. chaves \in Nat /\ mensagens \in Seq(MensagemComMidia) /\ objetos \subseteq Nat \ {0}
      /\ rodada.lote \subseteq Enviadas
      /\ Enviadas = 1 .. Len(mensagens) /\ Len(mensagens) \in Nat /\ \A c \in objetos : c <= chaves
  BY FatosDasMidias DEF IndMidias, TypeOKMidias, ChavesDadas
<1>1. nova \in MensagemComMidia /\ nova.chave = chaves + 1 BY <1>0 DEF MensagemComMidia, ChaveDoEnvio
<1>2. /\ mensagens' = Append(mensagens, nova) /\ chaves' = chaves + 1 /\ objetos' = objetos \cup {chaves + 1}
      /\ UNCHANGED <<cadastro, formulario, estrago>> /\ rodada' = rodada
  BY DEF EnviaAnexo
<1> HIDE DEF nova
<1>3. /\ mensagens' \in Seq(MensagemComMidia) /\ Enviadas' = 1 .. (Len(mensagens) + 1)
      /\ \A m \in Enviadas : mensagens'[m] = mensagens[m]
      /\ mensagens'[Len(mensagens) + 1] = nova
  BY <1>0, <1>1, <1>2, AppendProperties, LenProperties DEF Enviadas
<1>4. TypeOKMidias'
  <2>1. rodada'.lote \subseteq Enviadas' BY <1>0, <1>2, <1>3
  <2> QED BY <1>0, <1>2, <1>3, <2>1 DEF IndMidias, TypeOKMidias
<1>5. \A m \in Enviadas' : \/ mensagens'[m].chave \in {0, chaves'} /\ (mensagens'[m].chave = 0 \/ chaves' > chaves)
                           \/ m \in Enviadas /\ mensagens'[m].chave = mensagens[m].chave
  <2> SUFFICES ASSUME NEW m \in Enviadas', m \notin Enviadas PROVE mensagens'[m].chave = chaves' /\ chaves' > chaves
    BY <1>3
  <2>1. m = Len(mensagens) + 1 BY <1>0, <1>3
  <2> QED BY <1>0, <1>1, <1>2, <1>3, <2>1
<1>6. chaves' \in Nat /\ chaves' >= chaves /\ \A c \in objetos' : c <= chaves' BY <1>0, <1>2
<1>7. objetos \ objetos' = {} BY <1>2
<1> QED BY <1>2, <1>4, <1>5, <1>6, <1>7, MensagensMantem

\* A step of the retention or of time: messages keep their number, and their key or none.
\* The retention deletes what messages were sent with, which is of no attachment.
LEMMA RetencaoMantem ==
    ASSUME IndMidias, AndaRodada \/ QuedaDaRodada \/ \E m \in Enviadas : Envelhece(m)
    PROVE  IndMidias'
<1>0. /\ chaves \in Nat /\ mensagens \in Seq(MensagemComMidia) /\ objetos \subseteq Nat \ {0}
      /\ rodada.lote \subseteq Enviadas /\ (rodada.pc = "marca" => rodada.lote # {})
      /\ Enviadas = 1 .. Len(mensagens) /\ Len(mensagens) \in Nat /\ \A c \in objetos : c <= chaves
      /\ \A m \in Enviadas : mensagens[m] \in MensagemComMidia
  BY FatosDasMidias DEF IndMidias, TypeOKMidias, ChavesDadas
<1>1. UNCHANGED <<cadastro, formulario, estrago, chaves>>
  BY DEF AndaRodada, IniciaRodada, BuscaLote, ApagaMidia, MarcaExpirada, FimDoLote, QuedaDaRodada, Envelhece
<1>2. rodada.lote # {} => Min(rodada.lote) \in rodada.lote
  <2>1. rodada.lote \subseteq Nat BY <1>0
  <2> QED BY <2>1, MinimoPertence
<1>3. ASSUME mensagens' \in Seq(MensagemComMidia), Enviadas' = Enviadas, objetos' \subseteq objetos,
             rodada' \in RodadaDaRetencao, rodada'.lote \subseteq Enviadas, rodada'.pc = "marca" => rodada'.lote # {},
             \A m \in Enviadas : mensagens'[m].chave \in {0, mensagens[m].chave},
             \E m \in Enviadas \cup {0} : objetos \ objetos' \subseteq (IF m = 0 THEN {} ELSE {mensagens[m].chave})
      PROVE  IndMidias'
  <2>1. TypeOKMidias' BY <1>0, <1>1, <1>3 DEF IndMidias, TypeOKMidias
  <2>2. chaves' = chaves /\ chaves' >= chaves /\ \A c \in objetos' : c <= chaves' BY <1>0, <1>1, <1>3
  <2>3. \A m \in Enviadas' : \/ mensagens'[m].chave \in {0, chaves'} /\ (mensagens'[m].chave = 0 \/ chaves' > chaves)
                             \/ m \in Enviadas /\ mensagens'[m].chave = mensagens[m].chave
    BY <1>3
  <2>4. chaves' \in Nat BY <1>0, <2>2
  <2> QED BY <1>1, <1>3, <2>1, <2>2, <2>3, <2>4, MensagensMantem
<1>4. ASSUME mensagens' = mensagens, objetos' = objetos, rodada' \in RodadaDaRetencao, rodada'.lote \subseteq Enviadas,
             rodada'.pc = "marca" => rodada'.lote # {}
      PROVE  IndMidias'
  <2>1. Enviadas' = Enviadas /\ objetos \ objetos' = {} BY <1>4 DEF Enviadas
  <2> QED BY <1>0, <1>3, <1>4, <2>1
<1>5. SemRodada \in RodadaDaRetencao /\ SemRodada.lote = {} /\ SemRodada.pc = "fora"
  BY DEF SemRodada, RodadaDaRetencao
<1>6. rodada \in RodadaDaRetencao BY DEF IndMidias, TypeOKMidias
<1>7. CASE IniciaRodada
  <2>1. rodada' \in RodadaDaRetencao /\ rodada'.lote = {} /\ rodada'.pc = "busca"
    BY <1>7 DEF IniciaRodada, SemRodada, RodadaDaRetencao
  <2> QED BY <1>4, <1>7, <2>1 DEF IniciaRodada
<1>8. CASE BuscaLote
  <2>1. MaisAntigas(Vencidas) \subseteq Enviadas /\ Enviadas \subseteq Nat BY <1>0 DEF MaisAntigas, Vencidas
  <2>2. CASE MaisAntigas(Vencidas) = {}
    <3>1. rodada' = SemRodada BY <1>8, <2>2 DEF BuscaLote
    <3> QED BY <1>4, <1>5, <1>8, <3>1 DEF BuscaLote
  <2>3. CASE MaisAntigas(Vencidas) # {}
    <3>1. rodada' = [pc |-> "apaga", lote |-> MaisAntigas(Vencidas),
                     cheio |-> Cardinality(MaisAntigas(Vencidas)) = TamanhoLote]
      BY <1>8, <2>3 DEF BuscaLote
    <3>2. rodada' \in RodadaDaRetencao /\ rodada'.lote \subseteq Enviadas /\ rodada'.pc = "apaga"
      BY <2>1, <3>1 DEF RodadaDaRetencao
    <3> QED BY <1>4, <1>8, <3>2 DEF BuscaLote
  <2> QED BY <2>2, <2>3
<1>9. CASE ApagaMidia
  <2> DEFINE m == Min(rodada.lote)
  <2>1. m \in rodada.lote /\ m \in Enviadas /\ rodada.pc = "apaga" /\ mensagens' = mensagens /\ Enviadas' = Enviadas
    BY <1>0, <1>2, <1>9 DEF ApagaMidia, Enviadas
  <2>2. CASE Recusa(m)
    <3>1. rodada' = [rodada EXCEPT !.lote = @ \ {m}] /\ objetos' = objetos BY <1>9, <2>2 DEF ApagaMidia
    <3> HIDE DEF m
    <3>2. rodada' \in RodadaDaRetencao /\ rodada'.lote \subseteq Enviadas /\ rodada'.pc = "apaga"
      BY <1>0, <1>6, <2>1, <3>1 DEF RodadaDaRetencao
    <3> QED BY <1>4, <2>1, <3>1, <3>2
  <2>3. CASE ~Recusa(m)
    <3>1. rodada' = [rodada EXCEPT !.pc = "marca"] /\ objetos' = objetos \ {mensagens[m].chave}
      BY <1>9, <2>3 DEF ApagaMidia
    <3> HIDE DEF m
    <3>2. rodada' \in RodadaDaRetencao /\ rodada'.lote \subseteq Enviadas /\ rodada'.lote # {}
      BY <1>0, <1>6, <2>1, <3>1 DEF RodadaDaRetencao
    <3>3. m \in Enviadas \cup {0} /\ objetos \ objetos' \subseteq (IF m = 0 THEN {} ELSE {mensagens[m].chave})
      BY <1>0, <2>1, <3>1
    <3>4. objetos' \subseteq objetos /\ \A k \in Enviadas : mensagens'[k].chave \in {0, mensagens[k].chave}
      BY <2>1, <3>1
    <3> QED BY <1>0, <1>3, <2>1, <3>2, <3>3, <3>4
  <2> QED BY <2>2, <2>3
<1>10. CASE MarcaExpirada
  <2> DEFINE m == Min(rodada.lote)
             nova == [mensagens[m] EXCEPT !.chave = 0, !.expirada = TRUE]
  <2>1. m \in rodada.lote /\ m \in Enviadas BY <1>0, <1>2, <1>10 DEF MarcaExpirada
  <2>2. mensagens[m] \in MensagemComMidia BY <1>0, <2>1
  <2>3. /\ rodada' = [rodada EXCEPT !.pc = "apaga", !.lote = @ \ {m}] /\ objetos' = objetos
        /\ mensagens' = [mensagens EXCEPT ![m] = nova]
    BY <1>10, <2>1 DEF MarcaExpirada, Enviadas
  <2> HIDE DEF m
  <2>4. nova \in MensagemComMidia /\ nova.chave = 0 BY <2>2 DEF MensagemComMidia
  <2> HIDE DEF nova
  <2>5. /\ mensagens' \in Seq(MensagemComMidia) /\ Len(mensagens') = Len(mensagens)
        /\ \A k \in 1 .. Len(mensagens) : mensagens'[k] = IF k = m THEN nova ELSE mensagens[k]
    BY <1>0, <2>1, <2>3, <2>4, ExceptSeq
  <2>6. Enviadas' = Enviadas BY <1>0, <2>5, LenProperties DEF Enviadas
  <2>7. rodada' \in RodadaDaRetencao /\ rodada'.lote \subseteq Enviadas /\ rodada'.pc = "apaga"
    BY <1>0, <1>6, <2>3 DEF RodadaDaRetencao
  <2>8. \A k \in Enviadas : mensagens'[k].chave \in {0, mensagens[k].chave} BY <1>0, <2>4, <2>5
  <2>9. objetos \ objetos' = {} BY <2>3
  <2> QED BY <1>3, <2>3, <2>5, <2>6, <2>7, <2>8, <2>9
<1>11. CASE FimDoLote
  <2>1. rodada' = [SemRodada EXCEPT !.pc = "busca"] \/ rodada' = SemRodada BY <1>11 DEF FimDoLote
  <2>2. rodada' \in RodadaDaRetencao /\ rodada'.lote = {} /\ rodada'.pc # "marca"
    <3>1. CASE rodada' = [SemRodada EXCEPT !.pc = "busca"] BY <1>5, <3>1 DEF RodadaDaRetencao
    <3>2. CASE rodada' = SemRodada BY <1>5, <3>2
    <3> QED BY <2>1, <3>1, <3>2
  <2> QED BY <1>4, <1>11, <2>2 DEF FimDoLote
<1>12. CASE QuedaDaRodada BY <1>4, <1>5, <1>12 DEF QuedaDaRodada
<1>13. ASSUME NEW m \in Enviadas, Envelhece(m) PROVE IndMidias'
  <2> DEFINE nova == [mensagens[m] EXCEPT !.velha = TRUE]
  <2>1. mensagens[m] \in MensagemComMidia BY <1>0
  <2>2. rodada' = rodada /\ objetos' = objetos /\ mensagens' = [mensagens EXCEPT ![m] = nova]
    BY <1>13 DEF Envelhece, Enviadas
  <2>3. nova \in MensagemComMidia /\ nova.chave = mensagens[m].chave BY <2>1 DEF MensagemComMidia
  <2> HIDE DEF nova
  <2>4. /\ mensagens' \in Seq(MensagemComMidia) /\ Len(mensagens') = Len(mensagens)
        /\ \A k \in 1 .. Len(mensagens) : mensagens'[k] = IF k = m THEN nova ELSE mensagens[k]
    BY <1>0, <2>2, <2>3, ExceptSeq
  <2>5. Enviadas' = Enviadas BY <1>0, <2>4, LenProperties DEF Enviadas
  <2>6. \A k \in Enviadas : mensagens'[k].chave \in {0, mensagens[k].chave} BY <1>0, <2>3, <2>4
  <2>7. objetos \ objetos' = {} BY <2>2
  <2> QED BY <1>0, <1>3, <1>6, <2>2, <2>4, <2>5, <2>6, <2>7
<1> QED BY <1>7, <1>8, <1>9, <1>10, <1>11, <1>12, <1>13 DEF AndaRodada

LEMMA IndutivoDasMidias == SpecMidias => []IndMidias
<1>1. IndMidias /\ [NextMidias]_varsMidias => IndMidias'
  <2>1. CASE UNCHANGED varsMidias
    BY <2>1 DEF varsMidias, IndMidias, TypeOKMidias, Enviadas, ChavesDadas, CopiaSeparada, EnvioSeparado,
                RemovidoFica, TemOuTroca
  <2>2. ASSUME IndMidias, NextCadastro PROVE IndMidias'
    BY <2>2, AbreMantem, PedeMantem, ApagaMantem, GravaMantem, FalhaMantem, RemoveMantem DEF NextCadastro
  <2>3. ASSUME IndMidias, NextRetencao PROVE IndMidias'
    BY <2>3, EnviaMantem, RetencaoMantem DEF NextRetencao
  <2> QED BY <2>1, <2>2, <2>3 DEF NextMidias
<1> QED BY <1>1, InicioDasMidias, PTL DEF SpecMidias

(****************************************************************************)
(* Files, forms, messages and the round of the retention are well formed,   *)
(* for any forms at the same time, any number of messages sent and any size *)
(* of a batch.                                                              *)
(****************************************************************************)
THEOREM TipoDasMidias == SpecMidias => []TypeOKMidias
<1>1. IndMidias => TypeOKMidias BY DEF IndMidias
<1> QED BY <1>1, IndutivoDasMidias, PTL

(****************************************************************************)
(* A registered attachment keeps its file whatever is sent and whatever the *)
(* retention deletes: only an edition takes it away, while it replaces it,  *)
(* when its write fails, or when a form sends back a key that another       *)
(* replaced.                                                                *)
(****************************************************************************)
THEOREM AnexoSoSomePorEdicao == SpecMidias => []AnexoSomeSoPorEdicao
<1>1. IndMidias => AnexoSomeSoPorEdicao BY DEF IndMidias, TemOuTroca, AnexoSomeSoPorEdicao
<1> QED BY <1>1, IndutivoDasMidias, PTL

-----------------------------------------------------------------------------
(***************************************************************************)
(* The files that were sent.  Besides whose each key is, the invariant     *)
(* says what the retention carries between its steps: its batch is of old  *)
(* messages not yet marked, and one is marked only if it was deleted.      *)
(***************************************************************************)
\* The file of a message is gone only because the retention took it.
EnvioSomeSoVelho ==
    \A m \in Enviadas : mensagens[m].chave \notin objetos => mensagens[m].velha /\ m \notin teimosas

CopiaUnica ==
    \A m, n \in Enviadas : m # n /\ mensagens[m].chave # 0 => mensagens[m].chave # mensagens[n].chave

LoteVencido ==
    /\ \A m \in rodada.lote : mensagens[m].velha /\ mensagens[m].chave # 0
    /\ rodada.pc = "marca" => Min(rodada.lote) \notin teimosas

IndEnvios == EnvioSomeSoVelho /\ CopiaUnica /\ LoteVencido

\* No form has the key of a message, to delete it.
LEMMA FormularioNaoApagaEnvio ==
    ASSUME IndMidias, NEW f \in Formularios, NEW m \in Enviadas, mensagens[m].chave \in objetos
    PROVE  mensagens[m].chave \in objetos \ {formulario[f].lido}
<1>1. mensagens[m].chave # 0 BY DEF IndMidias, TypeOKMidias
<1> QED BY <1>1 DEF IndMidias, CopiaSeparada, ChavesDoFormulario

LEMMA CadastroDeixaEnvios ==
    ASSUME IndMidias, IndEnvios, NextCadastro
    PROVE  IndEnvios'
<1>1. UNCHANGED <<mensagens, rodada, teimosas>>
  BY DEF NextCadastro, AbreFormulario, PedeEdicao, ApagaAntigo, GravaCadastro, FalhaCadastro,
         RemoveCadastro, ApagaDoRemovido
<1>2. \A m \in Enviadas : mensagens[m].chave \in objetos => mensagens[m].chave \in objetos'
  <2>1. PICK f \in Formularios : \/ objetos \subseteq objetos'
                                 \/ objetos \ {formulario[f].lido} \subseteq objetos'
    BY DEF NextCadastro, AbreFormulario, PedeEdicao, ApagaAntigo, GravaCadastro, FalhaCadastro,
           RemoveCadastro, ApagaDoRemovido
  <2> QED BY <2>1, FormularioNaoApagaEnvio
<1> QED BY <1>1, <1>2 DEF IndEnvios, EnvioSomeSoVelho, CopiaUnica, LoteVencido, Enviadas

LEMMA EnviaDeixaEnvios ==
    ASSUME IndMidias, IndEnvios, EnviaAnexo
    PROVE  IndEnvios'
<1> DEFINE nova == [chave |-> ChaveDoEnvio(cadastro.chave, chaves + 1), expirada |-> FALSE, velha |-> FALSE]
           n == Len(mensagens) + 1
<1>0. /\ chaves \in Nat /\ mensagens \in Seq(MensagemComMidia)
      /\ rodada.lote \subseteq Enviadas /\ (rodada.pc = "marca" => rodada.lote # {})
      /\ Enviadas = 1 .. Len(mensagens) /\ Len(mensagens) \in Nat
      /\ \A m \in Enviadas : mensagens[m].chave \in Nat /\ mensagens[m].chave <= chaves
  BY FatosDasMidias DEF IndMidias, TypeOKMidias, ChavesDadas
<1>1. nova \in MensagemComMidia /\ nova.chave = chaves + 1 BY <1>0 DEF MensagemComMidia, ChaveDoEnvio
<1>2. /\ mensagens' = Append(mensagens, nova) /\ objetos' = objetos \cup {chaves + 1}
      /\ UNCHANGED <<rodada, teimosas>>
  BY DEF EnviaAnexo
<1> HIDE DEF nova
<1>3. /\ Enviadas' = Enviadas \cup {n} /\ n \notin Enviadas
      /\ \A m \in Enviadas : mensagens'[m] = mensagens[m]
      /\ mensagens'[n] = nova
  BY <1>0, <1>1, <1>2, AppendProperties, LenProperties DEF Enviadas
<1>4. mensagens'[n].chave = chaves + 1 /\ chaves + 1 \in objetos' BY <1>1, <1>2, <1>3
<1> HIDE DEF n
<1>5. EnvioSomeSoVelho' BY <1>2, <1>3, <1>4 DEF IndEnvios, EnvioSomeSoVelho
<1>6. CopiaUnica'
  <2>1. \A m \in Enviadas : mensagens[m].chave # chaves + 1 BY <1>0
  <2> QED BY <1>3, <1>4, <2>1 DEF IndEnvios, CopiaUnica
<1>7. LoteVencido' BY <1>0, <1>2, <1>3 DEF IndEnvios, LoteVencido
<1> QED BY <1>5, <1>6, <1>7 DEF IndEnvios

LEMMA UmaMensagemMuda ==
    ASSUME IndMidias, NEW m \in Enviadas, NEW nova \in MensagemComMidia,
           mensagens' = [mensagens EXCEPT ![m] = nova]
    PROVE  /\ Enviadas' = Enviadas
           /\ \A k \in Enviadas : mensagens'[k] = IF k = m THEN nova ELSE mensagens[k]
<1>1. mensagens \in Seq(MensagemComMidia) /\ Enviadas = 1 .. Len(mensagens)
  BY FatosDasMidias DEF IndMidias, TypeOKMidias
<1>2. /\ mensagens' \in Seq(MensagemComMidia) /\ Len(mensagens') = Len(mensagens)
      /\ \A k \in 1 .. Len(mensagens) : mensagens'[k] = IF k = m THEN nova ELSE mensagens[k]
  BY <1>1, ExceptSeq
<1> QED BY <1>1, <1>2, LenProperties DEF Enviadas

LEMMA RetencaoDeixaEnvios ==
    ASSUME IndMidias, IndEnvios, AndaRodada \/ QuedaDaRodada \/ \E m \in Enviadas : Envelhece(m)
    PROVE  IndEnvios'
<1>0. /\ 0 \notin objetos /\ rodada \in RodadaDaRetencao
      /\ rodada.lote \subseteq Enviadas /\ (rodada.pc = "marca" => rodada.lote # {})
      /\ Enviadas \subseteq Nat
      /\ \A m \in Enviadas : mensagens[m] \in MensagemComMidia
  BY FatosDasMidias DEF IndMidias, TypeOKMidias
<1>1. teimosas' = teimosas
  BY DEF AndaRodada, IniciaRodada, BuscaLote, ApagaMidia, MarcaExpirada, FimDoLote, QuedaDaRodada, Envelhece
<1>2. rodada.lote # {} => Min(rodada.lote) \in rodada.lote
  <2>1. rodada.lote \subseteq Nat BY <1>0
  <2> QED BY <2>1, MinimoPertence
<1>3. ASSUME mensagens' = mensagens, objetos' = objetos,
             \A m \in rodada'.lote : mensagens[m].velha /\ mensagens[m].chave # 0,
             rodada'.pc # "marca"
      PROVE  IndEnvios'
  BY <1>1, <1>3 DEF IndEnvios, EnvioSomeSoVelho, CopiaUnica, LoteVencido, Enviadas
<1>4. CASE IniciaRodada \/ FimDoLote \/ QuedaDaRodada
  <2>1. rodada'.lote = {} /\ rodada'.pc # "marca" /\ mensagens' = mensagens /\ objetos' = objetos
    BY <1>4 DEF IniciaRodada, FimDoLote, QuedaDaRodada, SemRodada
  <2> QED BY <1>3, <2>1
<1>5. CASE BuscaLote
  <2>1. mensagens' = mensagens /\ objetos' = objetos /\ rodada'.pc # "marca"
        /\ rodada'.lote \subseteq Vencidas
    BY <1>5 DEF BuscaLote, SemRodada, MaisAntigas
  <2> QED BY <1>3, <2>1 DEF Vencidas
<1>6. CASE ApagaMidia
  <2> DEFINE m == Min(rodada.lote)
  <2>1. m \in rodada.lote /\ m \in Enviadas /\ rodada.pc = "apaga" /\ mensagens' = mensagens
    BY <1>0, <1>2, <1>6 DEF ApagaMidia
  <2>2. CASE Recusa(m)
    <3>1. rodada' = [rodada EXCEPT !.lote = @ \ {m}] /\ objetos' = objetos BY <1>6, <2>2 DEF ApagaMidia
    <3>2. rodada'.lote \subseteq rodada.lote /\ rodada'.pc = "apaga"
      BY <1>0, <2>1, <3>1 DEF RodadaDaRetencao
    <3> QED BY <1>3, <2>1, <3>1, <3>2 DEF IndEnvios, LoteVencido
  <2>3. CASE ~Recusa(m)
    <3>1. rodada' = [rodada EXCEPT !.pc = "marca"] /\ objetos' = objetos \ {mensagens[m].chave}
      BY <1>6, <2>3 DEF ApagaMidia
    <3>2. rodada'.lote = rodada.lote BY <1>0, <3>1 DEF RodadaDaRetencao
    <3>3. m \notin teimosas BY <2>3 DEF Recusa
    <3>4. mensagens[m].velha /\ mensagens[m].chave # 0 BY <2>1 DEF IndEnvios, LoteVencido
    <3>5. LoteVencido' BY <1>1, <2>1, <3>2, <3>3 DEF IndEnvios, LoteVencido
    <3> HIDE DEF m
    <3>6. \A k \in Enviadas \ {m} : mensagens[k].chave # mensagens[m].chave
      BY <2>1, <3>4 DEF IndEnvios, CopiaUnica
    <3>7. EnvioSomeSoVelho'
      BY <1>1, <2>1, <3>1, <3>3, <3>4, <3>6 DEF IndEnvios, EnvioSomeSoVelho, Enviadas
    <3> QED BY <2>1, <3>5, <3>7 DEF IndEnvios, CopiaUnica, Enviadas
  <2> QED BY <2>2, <2>3
<1>7. CASE MarcaExpirada
  <2> DEFINE m == Min(rodada.lote)
             nova == [mensagens[m] EXCEPT !.chave = 0, !.expirada = TRUE]
  <2>1. m \in rodada.lote /\ m \in Enviadas /\ m \notin teimosas
    BY <1>0, <1>2, <1>7 DEF MarcaExpirada, IndEnvios, LoteVencido
  <2>2. mensagens[m] \in MensagemComMidia /\ mensagens[m].velha BY <1>0, <2>1 DEF IndEnvios, LoteVencido
  <2>3. /\ rodada' = [rodada EXCEPT !.pc = "apaga", !.lote = @ \ {m}] /\ objetos' = objetos
        /\ mensagens' = [mensagens EXCEPT ![m] = nova]
    BY <1>7, <2>1 DEF MarcaExpirada, Enviadas
  <2> HIDE DEF m
  <2>4. nova \in MensagemComMidia /\ nova.chave = 0 /\ nova.velha BY <2>2 DEF MensagemComMidia
  <2> HIDE DEF nova
  <2>5. /\ Enviadas' = Enviadas
        /\ \A k \in Enviadas : mensagens'[k] = IF k = m THEN nova ELSE mensagens[k]
    BY <2>1, <2>3, <2>4, UmaMensagemMuda
  <2>6. rodada'.lote = rodada.lote \ {m} /\ rodada'.pc = "apaga"
    BY <1>0, <2>3 DEF RodadaDaRetencao
  <2>7. LoteVencido' BY <1>0, <2>5, <2>6 DEF IndEnvios, LoteVencido
  <2>8. EnvioSomeSoVelho' BY <1>1, <2>1, <2>3, <2>4, <2>5 DEF IndEnvios, EnvioSomeSoVelho
  <2>9. CopiaUnica' BY <2>4, <2>5 DEF IndEnvios, CopiaUnica
  <2> QED BY <2>7, <2>8, <2>9 DEF IndEnvios
<1>8. ASSUME NEW m \in Enviadas, Envelhece(m) PROVE IndEnvios'
  <2> DEFINE nova == [mensagens[m] EXCEPT !.velha = TRUE]
  <2>1. rodada' = rodada /\ objetos' = objetos /\ mensagens' = [mensagens EXCEPT ![m] = nova]
    BY <1>8 DEF Envelhece, Enviadas
  <2>2. nova \in MensagemComMidia /\ nova.chave = mensagens[m].chave /\ nova.velha
    BY <1>0 DEF MensagemComMidia
  <2> HIDE DEF nova
  <2>3. /\ Enviadas' = Enviadas
        /\ \A k \in Enviadas : mensagens'[k] = IF k = m THEN nova ELSE mensagens[k]
    BY <2>1, <2>2, UmaMensagemMuda
  <2>4. LoteVencido' BY <1>0, <1>1, <2>1, <2>2, <2>3 DEF IndEnvios, LoteVencido
  <2>5. EnvioSomeSoVelho' BY <1>1, <2>1, <2>2, <2>3 DEF IndEnvios, EnvioSomeSoVelho
  <2>6. CopiaUnica' BY <2>2, <2>3 DEF IndEnvios, CopiaUnica
  <2> QED BY <2>4, <2>5, <2>6 DEF IndEnvios
<1> QED BY <1>4, <1>5, <1>6, <1>7, <1>8 DEF AndaRodada

(****************************************************************************)
(* What was sent keeps its file whatever becomes of the attachment it was   *)
(* copied from, edited, removed or failed to be written: only the retention *)
(* takes it, from a message old enough, never one the storage refused.      *)
(****************************************************************************)
THEOREM EnvioSempreSomeVelho == SpecMidias => []EnvioSomeSoVelho
<1>1. InitMidias => IndEnvios
  BY DEF InitMidias, IndEnvios, EnvioSomeSoVelho, CopiaUnica, LoteVencido, Enviadas, SemRodada
<1>2. IndMidias /\ IndEnvios /\ [NextMidias]_varsMidias => IndEnvios'
  <2>1. CASE UNCHANGED varsMidias
    BY <2>1 DEF varsMidias, IndEnvios, EnvioSomeSoVelho, CopiaUnica, LoteVencido, Enviadas
  <2>2. ASSUME IndMidias, IndEnvios, NextMidias PROVE IndEnvios'
    BY <2>2, CadastroDeixaEnvios, EnviaDeixaEnvios, RetencaoDeixaEnvios DEF NextMidias, NextRetencao
  <2> QED BY <2>1, <2>2
<1>3. IndEnvios => EnvioSomeSoVelho BY DEF IndEnvios
<1> QED BY <1>1, <1>2, <1>3, IndutivoDasMidias, PTL DEF SpecMidias

=============================================================================
