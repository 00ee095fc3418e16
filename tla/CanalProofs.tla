------------------------------ MODULE CanalProofs ------------------------------
(****************************************************************************)
(* Proofs about Canal, the connection of a channel: the types; that the     *)
(* instances at the provider are of the channel's session; and that the row *)
(* agrees with the provider when all is quiet. For the last one the         *)
(* inductive invariant follows the webhooks on their way: each fits on the  *)
(* row that the ones before it leave, the last one says what the instance   *)
(* is, and the answer a request is about to write is what the instance      *)
(* still is unless it was marked as overtaken.                              *)
(****************************************************************************)
EXTENDS Canal, SequenceTheorems, TLAPS

--------------------------------------------------------------------------------
(* The connection of a channel *)

LEMMA TipoInicialDoCanal == InitCanal => TypeOKCanal
BY CanalAssumption DEF InitCanal, TypeOKCanal, LinhaDoCanal, Instancia, Trabalho, Comando, SemInstancia, SemTrabalho,
       SemComando, StatusDoCanal, Codigos, Sessoes

\* What the provider says keeps the types of what it changes.
LEMMA TipoDoAviso ==
    ASSUME TypeOKCanal, NEW tipo \in {"QR_RECEIVED", "READY", "DISCONNECTED"}, NEW s \in Sessoes,
           NEW i \in Instancia, Avisa(tipo, s, i)
    PROVE  /\ instancia' \in [Sessoes -> Instancia]
           /\ fila' \in Seq(EventoDaSessao)
           /\ perdas' \in 0..Perdas
           /\ atropelos' \subseteq {"perda", "atraso", "sessao"}
<1>1. Evento(tipo, s, i) \in EventoDaSessao
  BY DEF Evento, EventoDaSessao, Instancia
<1>2. perdas < Perdas => perdas + 1 \in 0..Perdas
  BY CanalAssumption DEF TypeOKCanal
<1>3. [instancia EXCEPT ![s] = i] \in [Sessoes -> Instancia]
  BY DEF TypeOKCanal
<1>4. Append(fila, Evento(tipo, s, i)) \in Seq(EventoDaSessao)
  BY <1>1 DEF TypeOKCanal
<1>5. fila' = Append(fila, Evento(tipo, s, i)) \/ fila' = fila
  BY DEF Avisa
<1>6. CASE UNCHANGED <<perdas, atropelos>>
  BY <1>3, <1>4, <1>5, <1>6 DEF Avisa, TypeOKCanal
<1>7. CASE perdas < Perdas /\ perdas' = perdas + 1 /\ atropelos' = atropelos \cup {"perda"}
  BY <1>2, <1>3, <1>4, <1>5, <1>7 DEF Avisa, TypeOKCanal
<1> QED BY <1>6, <1>7 DEF Avisa

\* A request that an instance overtook keeps its fields but one.
LEMMA TipoDoAtraso ==
    ASSUME TypeOKCanal, NEW s \in Sessoes
    PROVE  /\ Atrasa(s) \in [Operadores -> Comando]
           /\ \A o \in Operadores :
                 /\ Atrasa(s)[o].pc = comando[o].pc /\ Atrasa(s)[o].tipo = comando[o].tipo
                 /\ Atrasa(s)[o].lido = comando[o].lido /\ Atrasa(s)[o].resp = comando[o].resp
                 /\ Atrasa(s)[o].sessao = comando[o].sessao
                 /\ comando[o].pc = "grava" /\ comando[o].sessao = s => Atrasa(s)[o].atraso
                 /\ ~Atrasa(s)[o].atraso => Atrasa(s)[o] = comando[o]
<1>1. ASSUME NEW o \in Operadores PROVE [comando[o] EXCEPT !.atraso = TRUE] \in Comando
  <2>1. comando[o] \in Comando
    BY DEF TypeOKCanal
  <2> QED BY <2>1 DEF Comando
<1>2. \A o \in Operadores : Atrasa(s)[o] \in {comando[o], [comando[o] EXCEPT !.atraso = TRUE]}
  BY DEF Atrasa
<1>3. Atrasa(s) \in [Operadores -> Comando]
  BY <1>1, <1>2 DEF Atrasa, TypeOKCanal
<1>4. \A o \in Operadores : comando[o] \in Comando
  BY DEF TypeOKCanal
<1>5. \A o \in Operadores : comando[o].pc = "grava" /\ comando[o].sessao = s =>
           Atrasa(s)[o] = [comando[o] EXCEPT !.atraso = TRUE]
  BY DEF Atrasa
<1> QED BY <1>2, <1>3, <1>4, <1>5 DEF Comando

\* A request moves on: the others stay as they are.
LEMMA TipoDoComando ==
    ASSUME TypeOKCanal, NEW o \in Operadores, NEW c \in Comando, comando' = [comando EXCEPT ![o] = c],
           c.pc # "fora" => c.lido \in LinhaDoCanal,
           c.pc = "grava" /\ c.tipo \in {"start", "sync"} => c.resp \in Instancia
    PROVE  /\ comando' \in [Operadores -> Comando]
           /\ \A k \in Operadores :
                 /\ comando'[k].pc # "fora" => comando'[k].lido \in LinhaDoCanal
                 /\ comando'[k].pc = "grava" /\ comando'[k].tipo \in {"start", "sync"} =>
                       comando'[k].resp \in Instancia
BY DEF TypeOKCanal

\* An instance overtakes the requests of its session while one of them ends.
LEMMA ComandosComAtraso ==
    ASSUME TypeOKCanal, NEW s \in Sessoes, NEW o \in Operadores,
           comando' = [Atrasa(s) EXCEPT ![o] = SemComando]
    PROVE  /\ comando' \in [Operadores -> Comando]
           /\ \A k \in Operadores :
                 /\ comando'[k].pc # "fora" => comando'[k].lido \in LinhaDoCanal
                 /\ comando'[k].pc = "grava" /\ comando'[k].tipo \in {"start", "sync"} =>
                       comando'[k].resp \in Instancia
<1>1. SemComando \in Comando /\ SemComando.pc = "fora"
  BY DEF SemComando, Comando
<1>2. comando'[o] = SemComando /\ \A k \in Operadores \ {o} : comando'[k] = Atrasa(s)[k]
  BY TipoDoAtraso
<1>3. comando' \in [Operadores -> Comando]
  BY <1>1, TipoDoAtraso
<1>4. \A k \in Operadores :
        /\ comando[k].pc # "fora" => comando[k].lido \in LinhaDoCanal
        /\ comando[k].pc = "grava" /\ comando[k].tipo \in {"start", "sync"} => comando[k].resp \in Instancia
  BY DEF TypeOKCanal
<1> QED BY <1>1, <1>2, <1>3, <1>4, TipoDoAtraso

LEMMA TipoDaLarga ==
    ASSUME TypeOKCanal, NEW o \in Operadores, Larga(o)
    PROVE  /\ comando' \in [Operadores -> Comando]
           /\ \A k \in Operadores :
                 /\ comando'[k].pc # "fora" => comando'[k].lido \in LinhaDoCanal
                 /\ comando'[k].pc = "grava" /\ comando'[k].tipo \in {"start", "sync"} =>
                       comando'[k].resp \in Instancia
<1>1. SemComando \in Comando /\ SemComando.pc = "fora"
  BY DEF SemComando, Comando
<1> QED BY <1>1, TipoDoComando DEF Larga

\* Handling an event keeps the row's type.
LEMMA TipoDoAplicado ==
    ASSUME NEW linha \in LinhaDoCanal, NEW lido \in LinhaDoCanal, NEW ev \in EventoDaSessao
    PROVE  Aplicado(linha, lido, ev) \in LinhaDoCanal
<1>1. CodigoMantido(lido, ev) \in Codigos /\ TelefoneLido(lido, ev) \in Telefones \cup {Nenhum}
  BY DEF LinhaDoCanal, EventoDaSessao, CodigoMantido, TelefoneLido
<1>2. 0 \in Codigos
  BY CanalAssumption DEF Codigos
<1>3. CASE ev.tipo = "QR_RECEIVED"
  BY <1>1, <1>2, <1>3 DEF LinhaDoCanal, Aplicado, StatusDoCanal
<1>4. CASE ev.tipo = "READY"
  BY <1>1, <1>2, <1>4 DEF LinhaDoCanal, Aplicado, StatusDoCanal
<1>5. CASE ev.tipo = "DISCONNECTED"
  BY <1>2, <1>5 DEF LinhaDoCanal, Aplicado, StatusDoCanal, Desconectado
<1> QED BY <1>3, <1>4, <1>5 DEF EventoDaSessao

LEMMA TipoPreservadoDoCanal ==
    ASSUME TypeOKCanal, NextCanal PROVE TypeOKCanal'
<1> USE CanalAssumption
<1>1. ASSUME NEW s \in Sessoes, CaiInstancia(s) PROVE TypeOKCanal'
  <2>1. Fechada \in Instancia
    BY DEF Fechada, SemInstancia, Instancia, Codigos
  <2>2. quedas + 1 \in 0..Quedas
    BY <1>1 DEF CaiInstancia, TypeOKCanal
  <2>3. Avisa("DISCONNECTED", s, Fechada)
    BY <1>1 DEF CaiInstancia
  <2>4. /\ instancia' \in [Sessoes -> Instancia] /\ fila' \in Seq(EventoDaSessao)
        /\ perdas' \in 0..Perdas /\ atropelos' \subseteq {"perda", "atraso", "sessao"}
    BY <2>1, <2>3, TipoDoAviso
  <2>5. comando' = Atrasa(s) /\ quedas' = quedas + 1 /\ UNCHANGED <<canal, trabalho, inicios, pedidos>>
    BY <1>1 DEF CaiInstancia
  <2> QED BY SMTT(30), <2>2, <2>4, <2>5, TipoDoAtraso DEF TypeOKCanal
<1>2. ASSUME NEW s \in Sessoes, NEW t \in Telefones, Pareia(s, t) PROVE TypeOKCanal'
  <2>1. [estado |-> "open", codigo |-> 0, telefone |-> t] \in Instancia
    BY DEF Instancia, Codigos
  <2>2. /\ instancia' \in [Sessoes -> Instancia] /\ fila' \in Seq(EventoDaSessao)
        /\ perdas' \in 0..Perdas /\ atropelos' \subseteq {"perda", "atraso", "sessao"}
    BY <1>2, <2>1, TipoDoAviso DEF Pareia
  <2>3. comando' = Atrasa(s) /\ UNCHANGED <<canal, trabalho, inicios, pedidos, quedas>>
    BY <1>2 DEF Pareia
  <2> QED BY SMTT(30), <2>2, <2>3, TipoDoAtraso DEF TypeOKCanal
<1>3. CASE PegaJob
  <2>1. Head(fila) \in EventoDaSessao /\ Tail(fila) \in Seq(EventoDaSessao)
    BY <1>3 DEF PegaJob, TypeOKCanal
  <2> QED BY <1>3, <2>1 DEF PegaJob, TypeOKCanal, Trabalho
<1>4. CASE ConcluiJob
  <2>1. canal' \in LinhaDoCanal
    BY <1>4, TipoDoAplicado DEF ConcluiJob, TypeOKCanal, Trabalho
  <2> QED BY <1>4, <2>1 DEF ConcluiJob, TypeOKCanal, Trabalho, SemTrabalho
<1>5. CASE FalhaJob
  <2>1. trabalho.ev \in EventoDaSessao /\ perdas + 1 \in 0..Perdas
    BY <1>5 DEF FalhaJob, TypeOKCanal
  <2>2. Append(fila, trabalho.ev) \in Seq(EventoDaSessao)
    BY <2>1 DEF TypeOKCanal
  <2>3. fila' = fila \/ fila' = Append(fila, trabalho.ev)
    BY <1>5 DEF FalhaJob
  <2>4. fila' \in Seq(EventoDaSessao)
    BY <2>2, <2>3 DEF TypeOKCanal
  <2> QED BY <1>5, <2>1, <2>4 DEF FalhaJob, TypeOKCanal, Trabalho, SemTrabalho
<1>6. ASSUME NEW o \in Operadores, NEW n \in BOOLEAN,
             NEW tipo \in {"start", "close", "restart", "sync", "remove"}, Pede(o, tipo, n)
      PROVE  TypeOKCanal'
  <2> DEFINE c == [SemComando EXCEPT !.tipo = tipo, !.pc = "pede", !.lido = canal, !.numero = n,
                                     !.sessao = canal.sessao]
  <2>1. canal \in LinhaDoCanal /\ canal.sessao \in {0} \cup Sessoes
    BY DEF TypeOKCanal, LinhaDoCanal
  <2>2. c \in Comando /\ c.pc = "pede" /\ c.lido = canal
    BY <2>1 DEF Comando, SemComando
  <2>3. comando' = [comando EXCEPT ![o] = c]
    BY <1>6 DEF Pede
  <2>5. pedidos \in 0..Pedidos
    BY DEF TypeOKCanal
  <2>6. pedidos < Pedidos => pedidos + 1 \in 0..Pedidos
    BY <2>5
  <2> HIDE DEF c
  <2>4. /\ comando' \in [Operadores -> Comando]
        /\ \A k \in Operadores :
              /\ comando'[k].pc # "fora" => comando'[k].lido \in LinhaDoCanal
              /\ comando'[k].pc = "grava" /\ comando'[k].tipo \in {"start", "sync"} =>
                    comando'[k].resp \in Instancia
    BY <2>1, <2>2, <2>3, TipoDoComando
  <2> QED BY <1>6, <2>4, <2>6 DEF Pede, TypeOKCanal
<1>7. ASSUME NEW o \in Operadores, NomeiaSessao(o) PROVE TypeOKCanal'
  <2>1. inicios + 1 \in Sessoes /\ inicios + 1 \in 0..Inicios
    BY <1>7 DEF NomeiaSessao, TypeOKCanal, Sessoes
  <2> DEFINE c == [comando[o] EXCEPT !.sessao = inicios + 1]
  <2>2. c \in Comando /\ c.pc = "pede" /\ c.lido \in LinhaDoCanal
    <3>1. comando[o] \in Comando /\ comando[o].pc = "pede" /\ comando[o].lido \in LinhaDoCanal
      BY <1>7 DEF NomeiaSessao, TypeOKCanal
    <3> QED BY <2>1, <3>1 DEF Comando
  <2>3. comando' = [comando EXCEPT ![o] = c]
    BY <1>7 DEF NomeiaSessao
  <2>4. canal' \in LinhaDoCanal
    BY <1>7, <2>1 DEF NomeiaSessao, TypeOKCanal, LinhaDoCanal
  <2> HIDE DEF c
  <2>5. /\ comando' \in [Operadores -> Comando]
        /\ \A k \in Operadores :
              /\ comando'[k].pc # "fora" => comando'[k].lido \in LinhaDoCanal
              /\ comando'[k].pc = "grava" /\ comando'[k].tipo \in {"start", "sync"} =>
                    comando'[k].resp \in Instancia
    BY <2>2, <2>3, TipoDoComando
  <2> QED BY <1>7, <2>1, <2>4, <2>5 DEF NomeiaSessao, TypeOKCanal
<1>8. ASSUME NEW o \in Operadores, RelefSessao(o) PROVE TypeOKCanal'
  <2> DEFINE c == [comando[o] EXCEPT !.sessao = canal.sessao]
  <2>1. c \in Comando /\ c.pc = "pede" /\ c.lido \in LinhaDoCanal
    BY SMTT(30), <1>8 DEF RelefSessao, TypeOKCanal, Comando, LinhaDoCanal
  <2>2. comando' = [comando EXCEPT ![o] = c]
    BY <1>8 DEF RelefSessao
  <2> HIDE DEF c
  <2>3. /\ comando' \in [Operadores -> Comando]
        /\ \A k \in Operadores :
              /\ comando'[k].pc # "fora" => comando'[k].lido \in LinhaDoCanal
              /\ comando'[k].pc = "grava" /\ comando'[k].tipo \in {"start", "sync"} =>
                    comando'[k].resp \in Instancia
    BY <2>1, <2>2, TipoDoComando
  <2> QED BY <1>8, <2>3 DEF RelefSessao, TypeOKCanal
<1>9. ASSUME NEW o \in Operadores, DerrubaTentativa(o) PROVE TypeOKCanal'
  <2> DEFINE c == comando[o]
             s == c.sessao
  <2>1. s \in Sessoes /\ [c EXCEPT !.pc = "conecta"] \in Comando /\ c.lido \in LinhaDoCanal /\ SemComando \in Comando
    BY <1>9 DEF DerrubaTentativa, TypeOKCanal, Comando, SemComando
  <2>2. Fechada \in Instancia
    BY DEF Fechada, SemInstancia, Instancia, Codigos
  <2>3. CASE Larga(o) /\ UNCHANGED <<instancia, fila, perdas, atropelos>>
    BY <1>9, <2>1, <2>3 DEF DerrubaTentativa, Larga, TypeOKCanal, SemComando
  <2>4. CASE /\ comando' = [comando EXCEPT ![o] = [c EXCEPT !.pc = "conecta"]]
             /\ UNCHANGED <<instancia, fila, perdas, atropelos>>
    BY <1>9, <2>1, <2>4 DEF DerrubaTentativa, TypeOKCanal, Comando
  <2>5. CASE /\ comando' = [Atrasa(s) EXCEPT ![o] = [c EXCEPT !.pc = "conecta"]]
             /\ Avisa("DISCONNECTED", s, Fechada)
    BY <1>9, <2>1, <2>2, <2>5, TipoDoAtraso, TipoDoAviso DEF DerrubaTentativa, TypeOKCanal, Comando
  <2> QED BY <1>9, <2>3, <2>4, <2>5 DEF DerrubaTentativa
<1>10. ASSUME NEW o \in Operadores, Conecta(o) PROVE TypeOKCanal'
  <2> DEFINE c == comando[o]
             s == c.sessao
             i == instancia[s]
             novo == [estado |-> "connecting", codigo |-> IF c.numero THEN inicios + 1 ELSE 0,
                      telefone |-> Nenhum]
  <2>1. s \in Sessoes /\ i \in Instancia /\ c \in Comando /\ c.lido \in LinhaDoCanal /\ SemComando \in Comando
        /\ c.tipo = "start"
    BY <1>10 DEF Conecta, TypeOKCanal, Comando, SemComando
  <2>2. CASE Larga(o) /\ UNCHANGED <<instancia, fila, inicios, perdas, atropelos>>
    BY <1>10, <2>1, <2>2 DEF Conecta, Larga, TypeOKCanal, SemComando
  <2>3. CASE /\ inicios < Inicios /\ inicios' = inicios + 1
             /\ Avisa("QR_RECEIVED", s, novo)
             /\ comando' = [Atrasa(s) EXCEPT ![o] = [c EXCEPT !.pc = "grava", !.resp = novo]]
    <3>1. inicios + 1 \in 0..Inicios /\ novo \in Instancia
      BY <2>1, <2>3 DEF TypeOKCanal, Instancia, Codigos, Comando
    <3>2. [c EXCEPT !.pc = "grava", !.resp = novo] \in Comando
      BY <2>1, <3>1 DEF Comando
    <3> HIDE DEF novo
    <3>3. /\ instancia' \in [Sessoes -> Instancia] /\ fila' \in Seq(EventoDaSessao)
          /\ perdas' \in 0..Perdas /\ atropelos' \subseteq {"perda", "atraso", "sessao"}
      BY <2>1, <2>3, <3>1, TipoDoAviso
    <3>4. comando' \in [Operadores -> Comando]
      BY <2>1, <2>3, <3>2, TipoDoAtraso
    <3>5. ASSUME NEW k \in Operadores
          PROVE  /\ comando'[k].pc # "fora" => comando'[k].lido \in LinhaDoCanal
                 /\ comando'[k].pc = "grava" /\ comando'[k].tipo \in {"start", "sync"} =>
                       comando'[k].resp \in Instancia
      <4>1. CASE k = o
        BY <2>1, <2>3, <3>1, <4>1, TipoDoAtraso DEF Comando
      <4>2. CASE k # o
        BY SMTT(30), <2>1, <2>3, <4>2, TipoDoAtraso DEF TypeOKCanal
      <4> QED BY <4>1, <4>2
    <3> QED BY <1>10, <2>3, <3>1, <3>3, <3>4, <3>5 DEF Conecta, TypeOKCanal
  <2>4. CASE /\ comando' = [comando EXCEPT ![o] = [c EXCEPT !.pc = "grava", !.resp = i]]
             /\ UNCHANGED <<instancia, fila, inicios, perdas, atropelos>>
    <3>1. [c EXCEPT !.pc = "grava", !.resp = i] \in Comando
      BY <2>1 DEF Comando
    <3> QED BY <1>10, <2>1, <2>4, <3>1 DEF Conecta, TypeOKCanal, Comando
  <2> QED BY <1>10, <2>2, <2>3, <2>4 DEF Conecta
<1>11. ASSUME NEW o \in Operadores, GravaInicio(o) PROVE TypeOKCanal'
  <2>1. comando[o].resp \in Instancia /\ 0 \in Codigos
    BY <1>11 DEF GravaInicio, TypeOKCanal, Codigos
  <2>2. canal' \in LinhaDoCanal
    BY <1>11, <2>1 DEF GravaInicio, TypeOKCanal, LinhaDoCanal, Instancia, StatusDoCanal
  <2>3. Larga(o) /\ Registra(o)
    BY <1>11 DEF GravaInicio
  <2>4. atropelos' \subseteq {"perda", "atraso", "sessao"}
    BY <2>3 DEF Registra, TypeOKCanal
  <2> QED BY <1>11, <2>2, <2>3, <2>4, TipoDaLarga DEF GravaInicio, TypeOKCanal
<1>12. ASSUME NEW o \in Operadores, EncerraSessao(o) PROVE TypeOKCanal'
  <2> DEFINE c == comando[o]
             s == c.sessao
  <2>1. SemComando \in Comando /\ [c EXCEPT !.pc = "grava"] \in Comando /\ c.lido \in LinhaDoCanal /\ c.tipo = "close"
    BY SMTT(30), <1>12 DEF EncerraSessao, TypeOKCanal, Comando, SemComando
  <2>2. Fechada \in Instancia
    BY DEF Fechada, SemInstancia, Instancia, Codigos
  <2>3. CASE Larga(o) /\ UNCHANGED <<instancia, fila, perdas, atropelos>>
    BY <1>12, <2>1, <2>3 DEF EncerraSessao, Larga, TypeOKCanal, SemComando
  <2>4. CASE comando' = [comando EXCEPT ![o].pc = "grava"] /\ UNCHANGED <<instancia, fila, perdas, atropelos>>
    BY <1>12, <2>1, <2>4 DEF EncerraSessao, TypeOKCanal, Comando
  <2>5. CASE /\ Avisa("DISCONNECTED", s, Fechada)
             /\ comando' = [Atrasa(s) EXCEPT ![o] = SemComando] /\ s # 0
             /\ UNCHANGED <<canal, trabalho, inicios, pedidos, quedas>>
    <3>1. s \in Sessoes
      BY <2>5 DEF TypeOKCanal, Comando
    <3> HIDE DEF s
    <3>2. /\ instancia' \in [Sessoes -> Instancia] /\ fila' \in Seq(EventoDaSessao)
          /\ perdas' \in 0..Perdas /\ atropelos' \subseteq {"perda", "atraso", "sessao"}
      BY <2>2, <2>5, <3>1, TipoDoAviso
    <3> QED BY <2>5, <3>1, <3>2, ComandosComAtraso DEF TypeOKCanal
  <2> QED BY <1>12, <2>3, <2>4, <2>5 DEF EncerraSessao
<1>13. ASSUME NEW o \in Operadores, GravaEncerramento(o) PROVE TypeOKCanal'
  <2>0. 0 \in Codigos
    BY DEF Codigos
  <2>1. canal' \in LinhaDoCanal
    BY <1>13, <2>0 DEF GravaEncerramento, Desconectado, TypeOKCanal, LinhaDoCanal, StatusDoCanal
  <2>2. Larga(o) /\ Registra(o)
    BY <1>13 DEF GravaEncerramento
  <2>3. atropelos' \subseteq {"perda", "atraso", "sessao"}
    BY <2>2 DEF Registra, TypeOKCanal
  <2> QED BY <1>13, <2>1, <2>2, <2>3, TipoDaLarga DEF GravaEncerramento, TypeOKCanal
<1>14. ASSUME NEW o \in Operadores, Reinicia(o) PROVE TypeOKCanal'
  <2> DEFINE s == comando[o].sessao
  <2>1. UNCHANGED <<canal, trabalho, inicios, pedidos, quedas>>
    BY <1>14 DEF Reinicia
  <2>2. CASE Larga(o) /\ UNCHANGED <<instancia, fila, perdas, atropelos>>
    BY <2>1, <2>2, TipoDaLarga DEF TypeOKCanal
  <2>3. ASSUME s # 0, NEW tipo \in {"READY", "DISCONNECTED"}, NEW i \in Instancia, Avisa(tipo, s, i),
               \/ Larga(o)
               \/ comando' = [Atrasa(s) EXCEPT ![o] = SemComando]
        PROVE  TypeOKCanal'
    <3>1. s \in Sessoes /\ SemComando \in Comando /\ SemComando.pc = "fora"
      BY <2>3 DEF TypeOKCanal, Comando, SemComando
    <3>2. /\ instancia' \in [Sessoes -> Instancia] /\ fila' \in Seq(EventoDaSessao)
          /\ perdas' \in 0..Perdas /\ atropelos' \subseteq {"perda", "atraso", "sessao"}
      BY <2>3, <3>1, TipoDoAviso
    <3>3. CASE Larga(o)
      BY <2>1, <3>2, <3>3, TipoDaLarga DEF TypeOKCanal
    <3>4. CASE comando' = [Atrasa(s) EXCEPT ![o] = SemComando]
      BY <2>1, <3>1, <3>2, <3>4, ComandosComAtraso DEF TypeOKCanal
    <3> QED BY <2>3, <3>3, <3>4
  <2>4. s # 0 => /\ instancia[s] \in Instancia /\ Fechada \in Instancia
                 /\ [instancia[s] EXCEPT !.estado = "open"] \in Instancia
    BY DEF TypeOKCanal, Comando, Instancia, Fechada, SemInstancia, Codigos
  <2> QED BY <1>14, <2>2, <2>3, <2>4 DEF Reinicia
<1>15. ASSUME NEW o \in Operadores, Consulta(o) PROVE TypeOKCanal'
  <2> DEFINE c == comando[o]
             novo == [c EXCEPT !.pc = "grava", !.resp = instancia[c.sessao]]
  <2>1. CASE Larga(o)
    BY <1>15, <2>1, TipoDaLarga DEF Consulta, TypeOKCanal
  <2>2. CASE c.sessao # 0 /\ comando' = [comando EXCEPT ![o] = novo]
    <3>1. instancia[c.sessao] \in Instancia /\ c \in Comando /\ c.lido \in LinhaDoCanal
      BY <1>15, <2>2 DEF Consulta, TypeOKCanal, Comando
    <3>2. novo \in Comando /\ novo.lido \in LinhaDoCanal /\ novo.resp \in Instancia
      BY <3>1 DEF Comando
    <3> HIDE DEF novo
    <3>3. /\ comando' \in [Operadores -> Comando]
          /\ \A k \in Operadores :
                /\ comando'[k].pc # "fora" => comando'[k].lido \in LinhaDoCanal
                /\ comando'[k].pc = "grava" /\ comando'[k].tipo \in {"start", "sync"} =>
                      comando'[k].resp \in Instancia
      BY <2>2, <3>2, TipoDoComando
    <3> QED BY <1>15, <3>3 DEF Consulta, TypeOKCanal
  <2> QED BY <1>15, <2>1, <2>2 DEF Consulta
<1>16. ASSUME NEW o \in Operadores, GravaConsulta(o) PROVE TypeOKCanal'
  <2>1. EstadoReal(comando[o].resp) \in StatusDoCanal /\ 0 \in Codigos
    BY DEF EstadoReal, StatusDoCanal, Codigos
  <2>2. canal' \in LinhaDoCanal
    BY <1>16, <2>1 DEF GravaConsulta, TypeOKCanal, LinhaDoCanal
  <2>3. Larga(o) /\ Registra(o)
    BY <1>16 DEF GravaConsulta
  <2>4. atropelos' \subseteq {"perda", "atraso", "sessao"}
    BY <2>3 DEF Registra, TypeOKCanal
  <2>5. UNCHANGED <<instancia, fila, trabalho, inicios, pedidos, quedas, perdas>>
    BY <1>16 DEF GravaConsulta
  <2> QED BY <2>2, <2>3, <2>4, <2>5, TipoDaLarga DEF TypeOKCanal
<1>17. ASSUME NEW o \in Operadores, Remove(o) PROVE TypeOKCanal'
  <2>1. comando[o].lido \in LinhaDoCanal
    BY <1>17 DEF Remove, TypeOKCanal
  <2>2. canal' \in LinhaDoCanal
    BY <1>17, <2>1 DEF Remove, LinhaDoCanal, StatusDoCanal
  <2>3. Larga(o) /\ atropelos' \subseteq {"perda", "atraso", "sessao"}
    BY <1>17 DEF Remove, TypeOKCanal
  <2> QED BY <1>17, <2>2, <2>3, TipoDaLarga DEF Remove, TypeOKCanal
<1>18. ASSUME NEW s \in Sessoes, MorreSocket(s) PROVE TypeOKCanal'
  <2>1. [instancia[s] EXCEPT !.estado = "semSocket"] \in Instancia
    BY DEF TypeOKCanal, Instancia
  <2>2. instancia' = [instancia EXCEPT ![s] = [instancia[s] EXCEPT !.estado = "semSocket"]]
    BY <1>18 DEF MorreSocket, TypeOKCanal
  <2>3. quedas' \in 0..Quedas
    BY <1>18 DEF MorreSocket, TypeOKCanal
  <2>4. instancia' \in [Sessoes -> Instancia]
    BY <2>1, <2>2 DEF TypeOKCanal
  <2> QED BY <1>18, <2>3, <2>4 DEF MorreSocket, TypeOKCanal
<1> QED
  BY <1>1, <1>2, <1>3, <1>4, <1>5, <1>6, <1>7, <1>8, <1>9, <1>10, <1>11, <1>12, <1>13, <1>14, <1>15, <1>16, <1>17,
     <1>18
     DEF NextCanal

(****************************************************************************)
(* Row, instances, webhooks, job and requests are well formed, for any       *)
(* operators, phones and bounds: what a request writes is an answer of the   *)
(* provider that it has.                                                     *)
(****************************************************************************)
THEOREM TipoDoCanal == SpecCanal => []TypeOKCanal
<1>1. TypeOKCanal /\ UNCHANGED varsCanal => TypeOKCanal'
  BY DEF varsCanal, TypeOKCanal
<1>2. TypeOKCanal /\ [NextCanal]_varsCanal => TypeOKCanal'
  BY <1>1, TipoPreservadoDoCanal
<1> QED BY TipoInicialDoCanal, <1>2, PTL DEF SpecCanal
--------------------------------------------------------------------------------
(* The instance of the channel *)

\* A request that found no session has read none.
SemSessaoNaoLeu ==
    \A o \in Operadores : comando[o].pc = "pede" /\ comando[o].sessao = 0 => comando[o].lido.sessao = 0

\* A request that is about to write is of a session.
EscreveDeSessao == \A o \in Operadores : comando[o].pc = "grava" => comando[o].sessao # 0

LEMMA SemComandoFora ==
    /\ SemComando \in Comando /\ SemComando.pc = "fora" /\ SemComando.sessao = 0
    /\ SemInstancia \in Instancia /\ SemInstancia.estado = "inexistente" /\ SemInstancia.telefone = Nenhum
BY CanalAssumption DEF SemComando, Comando, SemInstancia, Instancia, Codigos

\* A request that does not ask any more, and perhaps others that an instance overtook.
LEMMA ComandosMantem ==
    ASSUME TypeOKCanal, SemSessaoNaoLeu, EscreveDeSessao, NEW o \in Operadores, NEW c \in Comando, c.pc # "pede",
           c.pc = "grava" => c.sessao # 0,
           \/ comando' = [comando EXCEPT ![o] = c]
           \/ \E s \in Sessoes : comando' = [Atrasa(s) EXCEPT ![o] = c]
    PROVE  SemSessaoNaoLeu' /\ EscreveDeSessao'
<1>1. \A k \in Operadores \ {o} : /\ comando'[k].pc = comando[k].pc /\ comando'[k].sessao = comando[k].sessao
                                  /\ comando'[k].lido = comando[k].lido
  BY TipoDoAtraso DEF TypeOKCanal
<1>2. comando'[o] = c BY TipoDoAtraso DEF TypeOKCanal
<1> QED BY <1>1, <1>2 DEF SemSessaoNaoLeu, EscreveDeSessao

LEMMA AtrasaMantem ==
    ASSUME TypeOKCanal, SemSessaoNaoLeu, EscreveDeSessao, NEW s \in Sessoes, comando' = Atrasa(s)
    PROVE  SemSessaoNaoLeu' /\ EscreveDeSessao'
BY TipoDoAtraso DEF SemSessaoNaoLeu, EscreveDeSessao

\* A request gets its session from the row it read, or from the row when it reads it again.
LEMMA SessaoLidaMantem ==
    ASSUME TypeOKCanal, SemSessaoNaoLeu, EscreveDeSessao, NextCanal
    PROVE  SemSessaoNaoLeu' /\ EscreveDeSessao'
<1> USE CanalAssumption
<1>1. ASSUME NEW s \in Sessoes, CaiInstancia(s) \/ \E t \in Telefones : Pareia(s, t)
      PROVE  SemSessaoNaoLeu' /\ EscreveDeSessao'
  <2>1. comando' = Atrasa(s) BY <1>1 DEF CaiInstancia, Pareia
  <2> QED BY <2>1, AtrasaMantem
<1>2. CASE UNCHANGED comando BY <1>2 DEF SemSessaoNaoLeu, EscreveDeSessao
<1>3. ASSUME NEW o \in Operadores, Larga(o) PROVE SemSessaoNaoLeu' /\ EscreveDeSessao'
  BY <1>3, SemComandoFora, ComandosMantem DEF Larga
<1>4. \A o \in Operadores : comando[o] \in Comando BY DEF TypeOKCanal
<1>5. ASSUME NEW o \in Operadores, NEW tipo \in {"start", "close", "restart", "sync", "remove"}, NEW n \in BOOLEAN,
             Pede(o, tipo, n)
      PROVE  SemSessaoNaoLeu' /\ EscreveDeSessao'
  <2>1. /\ \A k \in Operadores \ {o} : comando'[k] = comando[k]
        /\ comando'[o].pc = "pede" /\ comando'[o].sessao = canal.sessao /\ comando'[o].lido = canal
    BY <1>5 DEF Pede, TypeOKCanal, SemComando
  <2> QED BY <2>1 DEF SemSessaoNaoLeu, EscreveDeSessao
<1>6. ASSUME NEW o \in Operadores, NomeiaSessao(o) \/ RelefSessao(o) PROVE SemSessaoNaoLeu' /\ EscreveDeSessao'
  <2>0. inicios + 1 # 0 BY DEF TypeOKCanal
  <2>1. PICK n : n # 0 /\ comando' = [comando EXCEPT ![o].sessao = n]
    <3>1. CASE NomeiaSessao(o)
      <4>1. comando' = [comando EXCEPT ![o].sessao = inicios + 1] BY <3>1 DEF NomeiaSessao
      <4> QED BY <2>0, <4>1
    <3>2. CASE RelefSessao(o)
      <4>1. canal.sessao # 0 /\ comando' = [comando EXCEPT ![o].sessao = canal.sessao] BY <3>2 DEF RelefSessao
      <4> QED BY <4>1
    <3> QED BY <1>6, <3>1, <3>2
  <2>2. comando[o].pc = "pede" BY <1>6 DEF NomeiaSessao, RelefSessao
  <2>3. /\ \A k \in Operadores \ {o} : comando'[k] = comando[k]
        /\ comando'[o].pc = "pede" /\ comando'[o].sessao = n
    BY <1>4, <2>1, <2>2 DEF TypeOKCanal, Comando
  <2> QED BY <2>1, <2>3 DEF SemSessaoNaoLeu, EscreveDeSessao
<1>7. ASSUME NEW o \in Operadores, DerrubaTentativa(o) PROVE SemSessaoNaoLeu' /\ EscreveDeSessao'
  <2>1. CASE Larga(o) BY <1>3, <2>1
  <2>2. CASE ~Larga(o)
    <3> DEFINE c == [comando[o] EXCEPT !.pc = "conecta"]
    <3>1. c \in Comando /\ c.pc = "conecta" BY <1>4 DEF Comando
    <3>2. comando[o].sessao \in Sessoes
      BY <1>4, <1>7, <2>2 DEF DerrubaTentativa, Comando
    <3>3. \/ comando' = [comando EXCEPT ![o] = c]
          \/ comando' = [Atrasa(comando[o].sessao) EXCEPT ![o] = c]
      BY <1>7, <2>2 DEF DerrubaTentativa
    <3> HIDE DEF c
    <3> QED BY <3>1, <3>2, <3>3, ComandosMantem
  <2> QED BY <2>1, <2>2
<1>8. ASSUME NEW o \in Operadores, Conecta(o) PROVE SemSessaoNaoLeu' /\ EscreveDeSessao'
  <2>1. CASE Larga(o) BY <1>3, <2>1
  <2>2. CASE ~Larga(o)
    <3>1. comando[o].sessao \in Sessoes BY <1>4, <1>8 DEF Conecta, Comando
    <3>2. PICK i \in Instancia :
             \/ comando' = [comando EXCEPT ![o] = [comando[o] EXCEPT !.pc = "grava", !.resp = i]]
             \/ comando' = [Atrasa(comando[o].sessao) EXCEPT ![o] = [comando[o] EXCEPT !.pc = "grava", !.resp = i]]
      <4> DEFINE novo == [estado |-> "connecting", codigo |-> IF comando[o].numero THEN inicios + 1 ELSE 0,
                          telefone |-> Nenhum]
      <4>1. instancia[comando[o].sessao] \in Instancia BY <3>1 DEF TypeOKCanal
      <4>2. inicios < Inicios => novo \in Instancia BY DEF Instancia, Codigos, TypeOKCanal
      <4> QED BY <1>8, <2>2, <4>1, <4>2 DEF Conecta
    <3> DEFINE c == [comando[o] EXCEPT !.pc = "grava", !.resp = i]
    <3>3. c \in Comando /\ c.pc = "grava" /\ c.sessao = comando[o].sessao BY <1>4 DEF Comando
    <3>4. comando[o].sessao # 0 BY <3>1 DEF Sessoes
    <3> HIDE DEF c
    <3> QED BY <3>1, <3>2, <3>3, <3>4, ComandosMantem DEF c
  <2> QED BY <2>1, <2>2
<1>9. ASSUME NEW o \in Operadores, EncerraSessao(o) PROVE SemSessaoNaoLeu' /\ EscreveDeSessao'
  <2>1. CASE Larga(o) BY <1>3, <2>1
  <2>2. CASE ~Larga(o)
    <3>1. comando[o].sessao \in Sessoes /\ comando[o].sessao # 0
      BY <1>4, <1>9, <2>2 DEF EncerraSessao, Comando
    <3>2. CASE comando' = [comando EXCEPT ![o].pc = "grava"]
      <4> DEFINE c == [comando[o] EXCEPT !.pc = "grava"]
      <4>1. c \in Comando /\ c.pc = "grava" /\ c.sessao = comando[o].sessao BY <1>4 DEF Comando
      <4>2. comando' = [comando EXCEPT ![o] = c] BY <3>2 DEF TypeOKCanal
      <4> HIDE DEF c
      <4> QED BY <3>1, <4>1, <4>2, ComandosMantem
    <3>3. CASE comando' = [Atrasa(comando[o].sessao) EXCEPT ![o] = SemComando]
      BY <3>1, <3>3, SemComandoFora, ComandosMantem
    <3> QED BY <1>9, <2>2, <3>2, <3>3 DEF EncerraSessao
  <2> QED BY <2>1, <2>2
<1>10. ASSUME NEW o \in Operadores, Consulta(o) PROVE SemSessaoNaoLeu' /\ EscreveDeSessao'
  <2>1. CASE Larga(o) BY <1>3, <2>1
  <2>2. CASE ~Larga(o)
    <3> DEFINE c == [comando[o] EXCEPT !.pc = "grava", !.resp = instancia[comando[o].sessao]]
    <3>1. comando[o].sessao \in Sessoes /\ comando[o].sessao # 0 BY <1>4, <1>10, <2>2 DEF Consulta, Comando
    <3>2. instancia[comando[o].sessao] \in Instancia BY <3>1 DEF TypeOKCanal
    <3>3. c \in Comando /\ c.pc = "grava" /\ c.sessao = comando[o].sessao BY <1>4, <3>2 DEF Comando
    <3>4. comando' = [comando EXCEPT ![o] = c] BY <1>10, <2>2 DEF Consulta
    <3> HIDE DEF c
    <3> QED BY <3>1, <3>3, <3>4, ComandosMantem
  <2> QED BY <2>1, <2>2
<1>11. ASSUME NEW o \in Operadores,
              GravaInicio(o) \/ GravaEncerramento(o) \/ GravaConsulta(o) \/ Remove(o)
       PROVE  Larga(o)
  BY <1>11 DEF GravaInicio, GravaEncerramento, GravaConsulta, Remove
<1>12. PegaJob \/ ConcluiJob \/ FalhaJob => UNCHANGED comando BY DEF PegaJob, ConcluiJob, FalhaJob
<1>13. (\E s \in Sessoes : MorreSocket(s)) => UNCHANGED comando BY DEF MorreSocket
<1>14. ASSUME NEW o \in Operadores, Reinicia(o) PROVE SemSessaoNaoLeu' /\ EscreveDeSessao'
  <2>1. CASE Larga(o) BY <1>3, <2>1
  <2>2. CASE ~Larga(o)
    <3>1. comando[o].sessao \in Sessoes BY <1>4, <1>14, <2>2 DEF Reinicia, Comando
    <3>2. comando' = [Atrasa(comando[o].sessao) EXCEPT ![o] = SemComando] BY <1>14, <2>2 DEF Reinicia
    <3> QED BY <3>1, <3>2, SemComandoFora, ComandosMantem
  <2> QED BY <2>1, <2>2
<1> QED
  BY <1>1, <1>2, <1>3, <1>5, <1>6, <1>7, <1>8, <1>9, <1>10, <1>11, <1>12, <1>13, <1>14 DEF NextCanal

\* The instances that change are those of the session the row has.
LEMMA InstanciaMantem ==
    ASSUME TypeOKCanal, SemSessaoNaoLeu, InstanciaSoDoCanal, NextCanal
    PROVE  InstanciaSoDoCanal'
<1> USE CanalAssumption
<1>1. ASSUME NEW s \in Sessoes, NEW i, NEW tipo, Avisa(tipo, s, i), canal'.sessao = canal.sessao,
             s = canal.sessao \/ instancia[s] # SemInstancia
      PROVE  InstanciaSoDoCanal'
  <2>1. atropelos \subseteq atropelos' BY <1>1 DEF Avisa
  <2>2. \A k \in Sessoes : k # s => instancia'[k] = instancia[k] BY <1>1 DEF Avisa, TypeOKCanal
  <2> QED BY <1>1, <2>1, <2>2 DEF InstanciaSoDoCanal
<1>2. ASSUME instancia' = instancia, canal'.sessao = canal.sessao, atropelos \subseteq atropelos'
      PROVE  InstanciaSoDoCanal'
  BY <1>2 DEF InstanciaSoDoCanal
<1>3. ASSUME NEW s \in Sessoes, CaiInstancia(s) \/ \E t \in Telefones : Pareia(s, t)
      PROVE  InstanciaSoDoCanal'
  <2>1. instancia[s].estado # "inexistente" /\ canal' = canal
    <3>1. CASE CaiInstancia(s) BY <3>1 DEF CaiInstancia
    <3>2. CASE \E t \in Telefones : Pareia(s, t) BY <3>2 DEF Pareia
    <3> QED BY <1>3, <3>1, <3>2
  <2>2. instancia[s] # SemInstancia BY <2>1, SemComandoFora
  <2>3. CASE CaiInstancia(s) BY <1>1, <2>1, <2>2, <2>3 DEF CaiInstancia
  <2>4. ASSUME NEW t \in Telefones, Pareia(s, t) PROVE InstanciaSoDoCanal' BY <1>1, <2>1, <2>2, <2>4 DEF Pareia
  <2> QED BY <1>3, <2>3, <2>4
<1>4. CASE PegaJob BY <1>2, <1>4 DEF PegaJob
<1>5. CASE ConcluiJob
  <2>1. canal'.sessao = canal.sessao
    <3>1. CASE trabalho.lido = Nenhum BY <1>5, <3>1 DEF ConcluiJob
    <3>2. CASE trabalho.lido # Nenhum
      <4>1. canal' = Aplicado(canal, trabalho.lido, trabalho.ev) /\ trabalho.ev \in EventoDaSessao
        BY <1>5, <3>2 DEF ConcluiJob, TypeOKCanal
      <4>2. canal \in LinhaDoCanal BY DEF TypeOKCanal
      <4>3. CASE trabalho.ev.tipo = "QR_RECEIVED" BY <4>1, <4>2, <4>3 DEF Aplicado, LinhaDoCanal
      <4>4. CASE trabalho.ev.tipo = "READY" BY <4>1, <4>2, <4>4 DEF Aplicado, LinhaDoCanal
      <4>5. CASE trabalho.ev.tipo = "DISCONNECTED" BY <4>1, <4>2, <4>5 DEF Aplicado, Desconectado, LinhaDoCanal
      <4> QED BY <4>1, <4>3, <4>4, <4>5 DEF EventoDaSessao
    <3> QED BY <3>1, <3>2
  <2> QED BY <1>2, <1>5, <2>1 DEF ConcluiJob
<1>6. CASE FalhaJob BY <1>2, <1>6 DEF FalhaJob
<1>7. ASSUME NEW o \in Operadores,
             \/ \E n \in BOOLEAN : Pede(o, "start", n)
             \/ \E tipo \in {"close", "restart", "sync", "remove"} : Pede(o, tipo, FALSE)
             \/ RelefSessao(o) \/ Consulta(o)
      PROVE  InstanciaSoDoCanal'
  BY <1>2, <1>7 DEF Pede, RelefSessao, Consulta
<1>8. ASSUME NEW o \in Operadores, GravaInicio(o) \/ GravaEncerramento(o) \/ GravaConsulta(o)
      PROVE  InstanciaSoDoCanal'
  <2>1. canal \in LinhaDoCanal BY DEF TypeOKCanal
  <2>2. canal'.sessao = canal.sessao
    BY <1>8, <2>1 DEF GravaInicio, GravaEncerramento, GravaConsulta, Desconectado, LinhaDoCanal
  <2>3. instancia' = instancia /\ atropelos \subseteq atropelos'
    BY <1>8 DEF GravaInicio, GravaEncerramento, GravaConsulta, Registra
  <2> QED BY <1>2, <2>2, <2>3
<1>9. ASSUME NEW o \in Operadores,
             DerrubaTentativa(o) \/ Conecta(o) \/ EncerraSessao(o) \/ Reinicia(o)
      PROVE  InstanciaSoDoCanal'
  <2> DEFINE s == comando[o].sessao
  <2>1. canal' = canal BY <1>9 DEF DerrubaTentativa, Conecta, EncerraSessao, Reinicia
  <2>2. s \in {0} \cup Sessoes BY DEF TypeOKCanal, Comando
  <2>3. \/ instancia' = instancia /\ atropelos' = atropelos
        \/ /\ s # 0 /\ s = canal.sessao
           /\ \E tipo, i : Avisa(tipo, s, i)
    <3>1. CASE DerrubaTentativa(o) BY <3>1 DEF DerrubaTentativa
    <3>2. CASE Conecta(o) BY <3>2 DEF Conecta
    <3>3. CASE EncerraSessao(o) BY <3>3 DEF EncerraSessao
    <3>4. CASE Reinicia(o) BY <3>4 DEF Reinicia
    <3> QED BY <1>9, <3>1, <3>2, <3>3, <3>4
  <2> QED BY <1>1, <1>2, <2>1, <2>2, <2>3
<1>10. ASSUME NEW o \in Operadores, NomeiaSessao(o) PROVE InstanciaSoDoCanal'
  <2> SUFFICES ASSUME "sessao" \notin atropelos', NEW s \in Sessoes, instancia[s] # SemInstancia PROVE FALSE
    BY <1>10 DEF InstanciaSoDoCanal, NomeiaSessao
  <2>1. canal.sessao = comando[o].lido.sessao /\ "sessao" \notin atropelos BY <1>10 DEF NomeiaSessao
  <2>2. canal.sessao = 0 BY <1>10, <2>1 DEF NomeiaSessao, SemSessaoNaoLeu, FaltaSessao
  <2> QED BY <2>1, <2>2 DEF InstanciaSoDoCanal, Sessoes
<1>11. ASSUME NEW o \in Operadores, Remove(o) PROVE InstanciaSoDoCanal'
  <2>1. comando[o].lido \in LinhaDoCanal BY <1>11 DEF Remove, TypeOKCanal
  <2>2. /\ instancia' = instancia /\ canal'.sessao = comando[o].lido.sessao /\ atropelos \subseteq atropelos'
        /\ (comando[o].lido.sessao # canal.sessao => "sessao" \in atropelos')
    BY <1>11, <2>1 DEF Remove, LinhaDoCanal
  <2>3. CASE comando[o].lido.sessao = canal.sessao BY <1>2, <2>2, <2>3
  <2>4. CASE comando[o].lido.sessao # canal.sessao BY <2>2, <2>4 DEF InstanciaSoDoCanal
  <2> QED BY <2>3, <2>4
<1>12. ASSUME NEW s \in Sessoes, MorreSocket(s) PROVE InstanciaSoDoCanal'
  <2>1. /\ canal' = canal /\ atropelos' = atropelos /\ instancia[s] # SemInstancia
        /\ \A k \in Sessoes : k # s => instancia'[k] = instancia[k]
    BY <1>12, SemComandoFora DEF MorreSocket, TypeOKCanal
  <2> QED BY <2>1 DEF InstanciaSoDoCanal
<1> QED BY <1>3, <1>4, <1>5, <1>6, <1>7, <1>8, <1>9, <1>10, <1>11, <1>12 DEF NextCanal

IndInstancia == TypeOKCanal /\ SemSessaoNaoLeu /\ EscreveDeSessao /\ InstanciaSoDoCanal

LEMMA InicioDaInstancia == InitCanal => IndInstancia
<1> SUFFICES ASSUME InitCanal PROVE IndInstancia OBVIOUS
<1>1. \A o \in Operadores : comando[o].pc = "fora" BY DEF InitCanal, SemComando
<1>2. \A s \in Sessoes : instancia[s] = SemInstancia BY DEF InitCanal
<1> QED BY <1>1, <1>2, TipoInicialDoCanal DEF IndInstancia, SemSessaoNaoLeu, EscreveDeSessao, InstanciaSoDoCanal

LEMMA PassoDaInstancia == IndInstancia /\ [NextCanal]_varsCanal => IndInstancia'
<1>1. IndInstancia /\ UNCHANGED varsCanal => IndInstancia'
  BY DEF varsCanal, IndInstancia, TypeOKCanal, SemSessaoNaoLeu, EscreveDeSessao, InstanciaSoDoCanal
<1> QED BY <1>1, TipoPreservadoDoCanal, SessaoLidaMantem, InstanciaMantem DEF IndInstancia

(****************************************************************************)
(* Each instance at the provider is of the session that the channel's row   *)
(* has, however commands, webhooks and jobs interleave, unless two requests *)
(* named the session at once or a removal saved the row as it was before.   *)
(****************************************************************************)
THEOREM InstanciaSempreDoCanal == SpecCanal => []InstanciaSoDoCanal
<1>1. IndInstancia => InstanciaSoDoCanal BY DEF IndInstancia
<1> QED BY <1>1, InicioDaInstancia, PassoDaInstancia, PTL DEF SpecCanal

--------------------------------------------------------------------------------
(* The row and the connection *)

\* Nothing happened that the property excepts.
Intacto == atropelos = {} /\ ~canal.removido

Gravando == trabalho.pc = "grava"

\* The phone the row has once the job at hand is done.
Telefone == IF Gravando THEN trabalho.ev.telefone ELSE canal.telefone

\* An event that may be applied to a row with the phone t, which leaves its own there.
Cabe(t, ev) ==
    /\ ev.tipo = "READY" => t \in {Nenhum, ev.telefone}
    /\ ev.tipo = "QR_RECEIVED" => t = Nenhum
    /\ ev.tipo # "READY" => ev.telefone = Nenhum

\* The event says what the instance i is.
Conta(ev, i) ==
    /\ ev.tipo = "QR_RECEIVED" => i.estado = "connecting"
    /\ ev.tipo = "READY" => i.estado \in {"open", "semSocket"} /\ ev.telefone = i.telefone
    /\ ev.tipo = "DISCONNECTED" => i.estado = "close"

SemConexao ==
    canal.sessao = 0 => /\ fila = <<>> /\ ~Gravando
                        /\ canal.status = "DISCONNECTED" /\ canal.telefone = Nenhum

\* The webhooks on their way are of the channel's session, each fits after the one before,
\* and the job at hand both on the row it read and on the row as it is: the session may
\* have been closed in between.
EmOrdem ==
    /\ \A k \in DOMAIN fila :
          /\ fila[k].sessao = canal.sessao
          /\ Cabe(IF k = 1 THEN Telefone ELSE fila[k - 1].telefone, fila[k])
    /\ Gravando => /\ trabalho.lido # Nenhum /\ Cabe(trabalho.lido.telefone, trabalho.ev)
                   /\ Cabe(canal.telefone, trabalho.ev)
    /\ ~Gravando => trabalho = SemTrabalho

\* The row says what the instance is; of one without socket, perhaps that it is disconnected.
DizOQueE(i) ==
    /\ \/ canal.status = EstadoReal(i)
       \/ i.estado = "semSocket" /\ canal.status = "DISCONNECTED"
    /\ \/ canal.telefone = i.telefone
       \/ i.estado = "semSocket" /\ canal.telefone = Nenhum

\* The last webhook on its way says what the instance is, or else the row does.
LinhaConta ==
    canal.sessao # 0 =>
        LET i == instancia[canal.sessao]
        IN /\ fila # <<>> => Conta(fila[Len(fila)], i)
           /\ fila = <<>> /\ Gravando => Conta(trabalho.ev, i)
           /\ fila = <<>> /\ ~Gravando => DizOQueE(i)

\* Only an instance that is open, or was until its socket died, has a phone.
Aberta == {"open", "semSocket"}
TelefoneSoAberta == \A s \in Sessoes : instancia[s].estado \notin Aberta => instancia[s].telefone = Nenhum

\* The answer a request is about to write is what the provider still says of the instance i.
Vale(c, i) ==
    /\ c.tipo \in {"start", "sync"} => EstadoReal(c.resp) = EstadoReal(i)
    /\ c.tipo = "close" => JaSemConexao(i)
    /\ c.tipo = "start" => EstadoReal(i) \in {"CONNECTED", "CONNECTING"}
Atual(c) == c.sessao = canal.sessao /\ Vale(c, instancia[c.sessao])
RespostaAtual == \A o \in Operadores : comando[o].pc = "grava" /\ ~comando[o].atraso => Atual(comando[o])

LinhaEmDia == SemConexao /\ EmOrdem /\ LinhaConta /\ TelefoneSoAberta

IndCanal == IndInstancia /\ (Intacto => LinhaEmDia /\ RespostaAtual)

\* What was excepted stays so.
LEMMA IntactoAntes ==
    ASSUME TypeOKCanal, NextCanal, Intacto'
    PROVE  Intacto
<1>1. atropelos \subseteq atropelos' => atropelos = {} BY DEF Intacto
<1>2. canal \in LinhaDoCanal BY DEF TypeOKCanal
<1>3. CASE PegaJob \/ FalhaJob BY <1>1, <1>3 DEF Intacto, PegaJob, FalhaJob
<1>4. CASE ConcluiJob
  <2>1. canal'.removido = canal.removido
    <3>1. CASE trabalho.lido = Nenhum BY <1>4, <3>1 DEF ConcluiJob
    <3>2. CASE trabalho.lido # Nenhum
      <4>1. canal' = Aplicado(canal, trabalho.lido, trabalho.ev) /\ trabalho.ev \in EventoDaSessao
        BY <1>4, <3>2 DEF ConcluiJob, TypeOKCanal
      <4>2. CASE trabalho.ev.tipo = "QR_RECEIVED" BY <1>2, <4>1, <4>2 DEF Aplicado, LinhaDoCanal
      <4>3. CASE trabalho.ev.tipo = "READY" BY <1>2, <4>1, <4>3 DEF Aplicado, LinhaDoCanal
      <4>4. CASE trabalho.ev.tipo = "DISCONNECTED" BY <1>2, <4>1, <4>4 DEF Aplicado, Desconectado, LinhaDoCanal
      <4> QED BY <4>1, <4>2, <4>3, <4>4 DEF EventoDaSessao
    <3> QED BY <3>1, <3>2
  <2> QED BY <1>4, <2>1 DEF Intacto, ConcluiJob
<1>5. ASSUME NEW s \in Sessoes, CaiInstancia(s) \/ MorreSocket(s) \/ \E t \in Telefones : Pareia(s, t)
      PROVE  Intacto
  BY <1>1, <1>5 DEF CaiInstancia, MorreSocket, Pareia, Avisa, Intacto
<1>6. ASSUME NEW o \in Operadores,
             \/ \E n \in BOOLEAN : Pede(o, "start", n)
             \/ \E tipo \in {"close", "restart", "sync", "remove"} : Pede(o, tipo, FALSE)
             \/ RelefSessao(o) \/ Consulta(o)
      PROVE  Intacto
  BY <1>6 DEF Pede, RelefSessao, Consulta, Intacto
<1>7. ASSUME NEW o \in Operadores, DerrubaTentativa(o) \/ Conecta(o) \/ EncerraSessao(o) \/ Reinicia(o)
      PROVE  Intacto
  <2>1. CASE DerrubaTentativa(o) BY <1>1, <2>1 DEF DerrubaTentativa, Avisa, Intacto
  <2>2. CASE Conecta(o) BY <1>1, <2>2 DEF Conecta, Avisa, Intacto
  <2>3. CASE EncerraSessao(o) BY <1>1, <2>3 DEF EncerraSessao, Avisa, Intacto
  <2>4. CASE Reinicia(o) BY <1>1, <2>4 DEF Reinicia, Avisa, Intacto
  <2> QED BY <1>7, <2>1, <2>2, <2>3, <2>4
<1>8. ASSUME NEW o \in Operadores, GravaInicio(o) \/ GravaEncerramento(o) \/ GravaConsulta(o) \/ NomeiaSessao(o)
      PROVE  Intacto
  <2>1. atropelos \subseteq atropelos'
    BY <1>8 DEF GravaInicio, GravaEncerramento, GravaConsulta, NomeiaSessao, Registra
  <2>2. canal'.removido = canal.removido
    BY <1>2, <1>8 DEF GravaInicio, GravaEncerramento, GravaConsulta, NomeiaSessao, Desconectado, LinhaDoCanal
  <2> QED BY <1>1, <2>1, <2>2 DEF Intacto
<1>9. ASSUME NEW o \in Operadores, Remove(o) PROVE FALSE
  <2>1. comando[o].lido \in LinhaDoCanal BY <1>9 DEF Remove, TypeOKCanal
  <2>2. canal'.removido BY <1>9, <2>1 DEF Remove, LinhaDoCanal
  <2> QED BY <2>2 DEF Intacto
<1> QED BY <1>3, <1>4, <1>5, <1>6, <1>7, <1>8, <1>9 DEF NextCanal

\* A webhook that says what an instance is says its phone.
LEMMA TelefoneDoAviso ==
    ASSUME TypeOKCanal, LinhaEmDia, canal.sessao # 0, NEW t, NEW ev \in EventoDaSessao, Cabe(t, ev),
           Conta(ev, instancia[canal.sessao])
    PROVE  ev.telefone = instancia[canal.sessao].telefone
<1> DEFINE i == instancia[canal.sessao]
<1>1. canal.sessao \in Sessoes BY DEF TypeOKCanal, LinhaDoCanal
<1>2. i.estado \notin Aberta => i.telefone = Nenhum BY <1>1 DEF LinhaEmDia, TelefoneSoAberta
<1> QED BY <1>2 DEF Cabe, Conta, EventoDaSessao, Aberta

\* The phone of the last webhook on its way, or of the row, is that of the instance, or none.
LEMMA UltimoTelefone ==
    ASSUME TypeOKCanal, LinhaEmDia, canal.sessao # 0
    PROVE  (IF fila = <<>> THEN Telefone ELSE fila[Len(fila)].telefone)
              \in {Nenhum, instancia[canal.sessao].telefone}
<1> DEFINE i == instancia[canal.sessao]
<1>1. CASE fila # <<>>
  <2>1. Len(fila) \in DOMAIN fila /\ fila[Len(fila)] \in EventoDaSessao BY <1>1 DEF TypeOKCanal
  <2>2. Conta(fila[Len(fila)], i) BY <1>1 DEF LinhaEmDia, LinhaConta
  <2>3. PICK t : Cabe(t, fila[Len(fila)]) BY <2>1 DEF LinhaEmDia, EmOrdem
  <2> QED BY <1>1, <2>1, <2>2, <2>3, TelefoneDoAviso
<1>2. CASE fila = <<>> /\ Gravando
  <2>1. Conta(trabalho.ev, i) /\ Cabe(canal.telefone, trabalho.ev) BY <1>2 DEF LinhaEmDia, LinhaConta, EmOrdem
  <2>2. trabalho.ev \in EventoDaSessao BY <1>2 DEF TypeOKCanal, Gravando
  <2> QED BY <1>2, <2>1, <2>2, TelefoneDoAviso DEF Telefone
<1>3. CASE fila = <<>> /\ ~Gravando BY <1>3 DEF LinhaEmDia, LinhaConta, DizOQueE, Telefone
<1> QED BY <1>1, <1>2, <1>3

\* What fits after the phone t fits after none.
LEMMA CabeSemTelefone == ASSUME NEW t, NEW ev, Cabe(t, ev) PROVE Cabe(Nenhum, ev)
BY DEF Cabe

\* An instance that says what it became leaves the row in date once its webhook is applied.
LEMMA AvisoEmDia ==
    ASSUME TypeOKCanal, LinhaEmDia, canal.sessao # 0, Intacto', canal' = canal, trabalho' = trabalho,
           NEW tipo \in {"QR_RECEIVED", "READY", "DISCONNECTED"}, NEW i \in Instancia,
           Avisa(tipo, canal.sessao, i), Conta(Evento(tipo, canal.sessao, i), i),
           Cabe(instancia[canal.sessao].telefone, Evento(tipo, canal.sessao, i)),
           i.estado \notin Aberta => i.telefone = Nenhum
    PROVE  LinhaEmDia'
<1> DEFINE s == canal.sessao
           ev == Evento(tipo, s, i)
<1>1. s \in Sessoes BY DEF TypeOKCanal, LinhaDoCanal
<1>2. fila' = Append(fila, ev) BY DEF Avisa, Intacto
<1>3. instancia' = [instancia EXCEPT ![s] = i] /\ instancia'[s] = i BY <1>1 DEF Avisa, TypeOKCanal
<1>4. ev \in EventoDaSessao /\ ev.sessao = s BY <1>1 DEF Evento, EventoDaSessao, Instancia
<1>5. Telefone' = Telefone /\ Gravando' = Gravando BY DEF Telefone, Gravando
<1> HIDE DEF ev
<1>6. /\ fila' # <<>> /\ Len(fila') = Len(fila) + 1 /\ fila'[Len(fila) + 1] = ev
      /\ DOMAIN fila' = 1..(Len(fila) + 1) /\ DOMAIN fila = 1..Len(fila) /\ Len(fila) \in Nat
      /\ \A k \in 1..Len(fila) : fila'[k] = fila[k]
  BY <1>2, <1>4 DEF TypeOKCanal
<1>7. SemConexao' BY DEF SemConexao
<1>8. TelefoneSoAberta'
  <2>1. \A k \in Sessoes : k # s => instancia'[k] = instancia[k] BY <1>3 DEF TypeOKCanal
  <2> QED BY <1>3, <2>1 DEF TelefoneSoAberta, LinhaEmDia
<1>9. LinhaConta' BY <1>3, <1>6 DEF LinhaConta, ev
<1>10. EmOrdem'
  <2>1. ASSUME NEW k \in DOMAIN fila'
        PROVE  fila'[k].sessao = s /\ Cabe(IF k = 1 THEN Telefone ELSE fila'[k - 1].telefone, fila'[k])
    <3>1. CASE k \in 1..Len(fila)
      <4>1. k # 1 => fila'[k - 1] = fila[k - 1] BY <1>6, <3>1
      <4>2. fila'[k] = fila[k] /\ k \in DOMAIN fila BY <1>6, <3>1
      <4> QED BY <4>1, <4>2 DEF LinhaEmDia, EmOrdem
    <3>2. CASE k = Len(fila) + 1
      <4>1. fila'[k] = ev BY <1>6, <3>2
      <4>2. k = 1 => fila = <<>> BY <1>6, <3>2 DEF TypeOKCanal
      <4>3. k # 1 => fila # <<>> /\ fila'[k - 1] = fila[Len(fila)] BY <1>6, <3>2
      <4>4. Cabe(instancia[s].telefone, ev) /\ Cabe(Nenhum, ev) BY CabeSemTelefone DEF ev
      <4> QED BY <1>4, <4>1, <4>2, <4>3, <4>4, UltimoTelefone
    <3> QED BY <1>6, <2>1, <3>1, <3>2
  <2>2. /\ Gravando' => /\ trabalho'.lido # Nenhum /\ Cabe(trabalho'.lido.telefone, trabalho'.ev)
                        /\ Cabe(canal'.telefone, trabalho'.ev)
        /\ ~Gravando' => trabalho' = SemTrabalho
    BY <1>5 DEF LinhaEmDia, EmOrdem
  <2> QED BY <1>5, <2>1, <2>2 DEF EmOrdem, Cabe
<1> QED BY <1>7, <1>8, <1>9, <1>10 DEF LinhaEmDia

\* An instance that closed has no phone.
LEMMA FechadaEmDia ==
    Fechada \in Instancia /\ Fechada.estado = "close" /\ Fechada.telefone = Nenhum
BY SemComandoFora DEF Fechada, Instancia

\* The provider's steps and the requests that call it leave the row in date.
LEMMA ProvedorEmDia ==
    ASSUME TypeOKCanal, LinhaEmDia, InstanciaSoDoCanal, Intacto, Intacto',
           \/ \E s \in Sessoes : CaiInstancia(s) \/ MorreSocket(s) \/ \E t \in Telefones : Pareia(s, t)
           \/ \E o \in Operadores : DerrubaTentativa(o) \/ Conecta(o) \/ EncerraSessao(o) \/ Reinicia(o)
    PROVE  LinhaEmDia'
<1> USE CanalAssumption
<1> DEFINE Parada == canal' = canal /\ trabalho' = trabalho /\ fila' = fila /\ instancia' = instancia
<1>1. CASE Parada
  BY <1>1 DEF LinhaEmDia, SemConexao, EmOrdem, LinhaConta, TelefoneSoAberta, Gravando, Telefone, Cabe, Conta,
         DizOQueE
<1>2. ASSUME NEW s \in Sessoes, instancia[s] # SemInstancia PROVE s = canal.sessao /\ canal.sessao # 0
  BY <1>2 DEF InstanciaSoDoCanal, Intacto, Sessoes
<1>3. ASSUME canal.sessao # 0, Avisa("DISCONNECTED", canal.sessao, Fechada), canal' = canal, trabalho' = trabalho
      PROVE  LinhaEmDia'
  <2>1. Conta(Evento("DISCONNECTED", canal.sessao, Fechada), Fechada)
    BY FechadaEmDia DEF Conta, Evento
  <2>2. Cabe(instancia[canal.sessao].telefone, Evento("DISCONNECTED", canal.sessao, Fechada))
    BY FechadaEmDia DEF Cabe, Evento
  <2> QED BY <1>3, <2>1, <2>2, FechadaEmDia, AvisoEmDia
<1>4. ASSUME NEW s \in Sessoes, CaiInstancia(s) PROVE LinhaEmDia'
  <2>1. instancia[s] # SemInstancia BY <1>4, SemComandoFora DEF CaiInstancia
  <2> QED BY <1>2, <1>3, <1>4, <2>1 DEF CaiInstancia
<1>5. ASSUME NEW s \in Sessoes, NEW t \in Telefones, Pareia(s, t) PROVE LinhaEmDia'
  <2> DEFINE i == [estado |-> "open", codigo |-> 0, telefone |-> t]
  <2>1. s = canal.sessao /\ canal.sessao # 0 BY <1>2, <1>5, SemComandoFora DEF Pareia
  <2>2. i \in Instancia BY DEF Instancia, Codigos
  <2>3. instancia[s].telefone = Nenhum BY <1>5 DEF Pareia, LinhaEmDia, TelefoneSoAberta, Aberta
  <2>4. Conta(Evento("READY", s, i), i) /\ Cabe(instancia[s].telefone, Evento("READY", s, i))
    BY <2>3 DEF Conta, Cabe, Evento
  <2>5. Avisa("READY", s, i) /\ canal' = canal /\ trabalho' = trabalho BY <1>5 DEF Pareia
  <2>6. i.estado = "open" OBVIOUS
  <2> HIDE DEF i
  <2>7. /\ Avisa("READY", canal.sessao, i) /\ Conta(Evento("READY", canal.sessao, i), i)
        /\ Cabe(instancia[canal.sessao].telefone, Evento("READY", canal.sessao, i))
    BY <2>1, <2>4, <2>5
  <2>8. canal.sessao # 0 /\ (i.estado \notin Aberta => i.telefone = Nenhum) BY <2>1, <2>6 DEF Aberta
  <2>9. canal' = canal /\ trabalho' = trabalho BY <2>5
  <2> QED BY <2>2, <2>7, <2>8, <2>9, AvisoEmDia
<1>6. ASSUME NEW o \in Operadores, DerrubaTentativa(o) PROVE LinhaEmDia'
  BY <1>1, <1>3, <1>6 DEF DerrubaTentativa
<1>7. ASSUME NEW o \in Operadores, EncerraSessao(o) PROVE LinhaEmDia'
  BY <1>1, <1>3, <1>7 DEF EncerraSessao
<1>8. ASSUME NEW o \in Operadores, Reinicia(o) PROVE LinhaEmDia'
  <2> DEFINE i == instancia[canal.sessao]
             aberta == [i EXCEPT !.estado = "open"]
  <2>1. canal' = canal /\ trabalho' = trabalho BY <1>8 DEF Reinicia
  <2>2. CASE UNCHANGED <<instancia, fila, perdas, atropelos>> BY <1>1, <2>1, <2>2
  <2>3. CASE canal.sessao # 0 /\ i.estado \in Aberta /\ Avisa("READY", canal.sessao, aberta)
    <3>1. i \in Instancia BY <2>3 DEF TypeOKCanal, LinhaDoCanal
    <3>2. aberta \in Instancia /\ aberta.estado = "open" /\ aberta.telefone = i.telefone
      BY <3>1 DEF Instancia
    <3> HIDE DEF aberta
    <3>3. Conta(Evento("READY", canal.sessao, aberta), aberta)
          /\ Cabe(i.telefone, Evento("READY", canal.sessao, aberta))
      BY <3>2 DEF Conta, Cabe, Evento
    <3> QED BY <2>1, <2>3, <3>2, <3>3, AvisoEmDia DEF Aberta
  <2>4. canal.sessao # 0 /\ i.estado = "open" => aberta = i BY DEF TypeOKCanal, LinhaDoCanal, Instancia
  <2>5. CASE canal.sessao # 0 /\ Avisa("DISCONNECTED", canal.sessao, Fechada) BY <1>3, <2>1, <2>5
  <2> QED BY <1>8, <2>2, <2>3, <2>4, <2>5 DEF Reinicia, Aberta
<1>9. ASSUME NEW o \in Operadores, Conecta(o) PROVE LinhaEmDia'
  <2> DEFINE c == comando[o]
             i == [estado |-> "connecting", codigo |-> IF c.numero THEN inicios + 1 ELSE 0,
                   telefone |-> Nenhum]
             antes == instancia[c.sessao]
  <2>1. canal' = canal /\ trabalho' = trabalho BY <1>9 DEF Conecta
  <2>2. CASE UNCHANGED <<instancia, fila, inicios, perdas, atropelos>> BY <1>1, <2>1, <2>2
  <2>3. CASE /\ c.sessao # 0 /\ c.sessao = canal.sessao /\ antes.estado \in {"inexistente", "close"}
             /\ inicios < Inicios /\ Avisa("QR_RECEIVED", c.sessao, i)
    <3>1. i \in Instancia BY <2>3 DEF Instancia, Codigos, TypeOKCanal
    <3>2. canal.sessao \in Sessoes BY <2>3 DEF TypeOKCanal, LinhaDoCanal
    <3>3. antes.telefone = Nenhum BY <2>3, <3>2 DEF LinhaEmDia, TelefoneSoAberta, Aberta
    <3>4. Conta(Evento("QR_RECEIVED", canal.sessao, i), i) /\ Cabe(antes.telefone, Evento("QR_RECEIVED", canal.sessao, i))
      BY <3>3 DEF Conta, Cabe, Evento
    <3>5. i.telefone = Nenhum OBVIOUS
    <3> HIDE DEF i
    <3> QED BY <2>1, <2>3, <3>1, <3>4, <3>5, AvisoEmDia
  <2> QED BY <1>9, <2>2, <2>3 DEF Conecta
<1>10. ASSUME NEW s \in Sessoes, MorreSocket(s) PROVE LinhaEmDia'
  <2> DEFINE i == instancia[s]
  <2>1. /\ canal' = canal /\ trabalho' = trabalho /\ fila' = fila /\ i.estado = "open"
        /\ instancia' = [instancia EXCEPT ![s].estado = "semSocket"]
    BY <1>10 DEF MorreSocket
  <2>2. s = canal.sessao /\ canal.sessao # 0 BY <1>2, <2>1, SemComandoFora
  <2>3. /\ i \in Instancia /\ \A k \in Sessoes : k # s => instancia'[k] = instancia[k]
        /\ instancia'[s].estado = "semSocket" /\ instancia'[s].telefone = i.telefone
    BY <2>1 DEF TypeOKCanal, Instancia
  <2>4. SemConexao' /\ EmOrdem' BY <2>1 DEF LinhaEmDia, SemConexao, EmOrdem, Gravando, Telefone, Cabe
  <2>5. TelefoneSoAberta' BY <2>3 DEF LinhaEmDia, TelefoneSoAberta, Aberta
  <2>6. \A ev : Conta(ev, i) => Conta(ev, instancia'[s]) BY <2>1, <2>3 DEF Conta
  <2>7. EstadoReal(instancia'[s]) = EstadoReal(i) BY <2>1, <2>3 DEF EstadoReal
  <2>8. DizOQueE(i) => DizOQueE(instancia[canal.sessao])' BY <2>1, <2>2, <2>3, <2>7 DEF DizOQueE
  <2>9. LinhaConta'
    <3>1. fila # <<>> => Conta(fila[Len(fila)], instancia'[s])
      BY <2>2, <2>6 DEF LinhaEmDia, LinhaConta
    <3>2. fila = <<>> /\ Gravando => Conta(trabalho.ev, instancia'[s])
      BY <2>2, <2>6 DEF LinhaEmDia, LinhaConta
    <3>3. fila = <<>> /\ ~Gravando => DizOQueE(instancia[canal.sessao])'
      BY <2>2, <2>8 DEF LinhaEmDia, LinhaConta
    <3> QED BY <2>1, <2>2, <3>1, <3>2, <3>3 DEF LinhaConta, Gravando, Conta
  <2> QED BY <2>4, <2>5, <2>9 DEF LinhaEmDia
<1> QED BY <1>4, <1>5, <1>6, <1>7, <1>8, <1>9, <1>10

\* The worker takes the jobs in their order.
LEMMA PegaEmDia ==
    ASSUME TypeOKCanal, LinhaEmDia, PegaJob
    PROVE  LinhaEmDia'
<1>1. /\ fila # <<>> /\ fila' = Tail(fila) /\ trabalho' = [pc |-> "grava", ev |-> Head(fila), lido |-> canal]
      /\ ~Gravando /\ canal' = canal /\ instancia' = instancia /\ canal.sessao # 0
  <2>1. PegaJob /\ trabalho = SemTrabalho BY DEF PegaJob
  <2>2. ~Gravando BY <2>1 DEF SemTrabalho, Gravando
  <2>3. fila # <<>> /\ 1 \in DOMAIN fila /\ Head(fila) = fila[1] BY <2>1 DEF PegaJob, TypeOKCanal
  <2>4. Head(fila).sessao = canal.sessao BY <2>3 DEF LinhaEmDia, EmOrdem
  <2> QED BY <2>1, <2>2, <2>3, <2>4 DEF PegaJob, LinhaEmDia, SemConexao
<1>2. /\ Len(fila) \in Nat \ {0} /\ Len(fila') = Len(fila) - 1 /\ Head(fila) = fila[1]
      /\ DOMAIN fila = 1..Len(fila) /\ DOMAIN fila' = 1..(Len(fila) - 1)
      /\ \A k \in DOMAIN fila' : fila'[k] = fila[k + 1]
      /\ fila' = <<>> <=> Len(fila) = 1
  <2>1. fila \in Seq(EventoDaSessao) /\ fila' \in Seq(EventoDaSessao) BY <1>1 DEF TypeOKCanal
  <2>2. /\ Len(fila) \in Nat \ {0} /\ Len(fila') = Len(fila) - 1 /\ Head(fila) = fila[1]
        /\ \A k \in 1..(Len(fila) - 1) : fila'[k] = fila[k + 1]
    BY <1>1, <2>1
  <2>3. DOMAIN fila = 1..Len(fila) /\ DOMAIN fila' = 1..Len(fila') BY <2>1
  <2>4. fila' = <<>> <=> Len(fila') = 0 BY <2>1
  <2> QED BY <2>2, <2>3, <2>4
<1>3. Gravando' /\ trabalho'.ev = fila[1] /\ trabalho'.lido = canal /\ canal # Nenhum /\ Telefone' = fila[1].telefone
      /\ Telefone = canal.telefone
  BY <1>1, <1>2, LinhaAssumption DEF Gravando, Telefone, TypeOKCanal
<1>4. EmOrdem'
  <2>1. ASSUME NEW k \in DOMAIN fila'
        PROVE  /\ fila'[k].sessao = canal.sessao
               /\ Cabe(IF k = 1 THEN fila[1].telefone ELSE fila'[k - 1].telefone, fila'[k])
    <3>1. k + 1 \in DOMAIN fila /\ k + 1 # 1 /\ (k + 1) - 1 = k /\ fila'[k] = fila[k + 1] BY <1>2
    <3>2. k # 1 => fila'[k - 1] = fila[k] BY <1>2
    <3>3. fila[k + 1].sessao = canal.sessao /\ Cabe(fila[k].telefone, fila[k + 1])
      BY <3>1 DEF LinhaEmDia, EmOrdem
    <3> QED BY <3>1, <3>2, <3>3
  <2>2. Cabe(canal.telefone, fila[1]) BY <1>2, <1>3 DEF LinhaEmDia, EmOrdem
  <2> QED BY <1>1, <1>3, <2>1, <2>2 DEF EmOrdem, Cabe
<1>5. LinhaConta'
  <2>1. Conta(fila[Len(fila)], instancia[canal.sessao]) BY <1>1 DEF LinhaEmDia, LinhaConta
  <2>2. fila' # <<>> => fila'[Len(fila')] = fila[Len(fila)] BY <1>2
  <2>3. fila' = <<>> => trabalho'.ev = fila[Len(fila)] BY <1>2, <1>3
  <2> QED BY <1>1, <1>3, <2>1, <2>2, <2>3 DEF LinhaConta, Conta
<1> QED BY <1>1, <1>4, <1>5 DEF LinhaEmDia, SemConexao, TelefoneSoAberta

\* A job applied leaves what the rest of the queue supposes.
LEMMA ConcluiEmDia ==
    ASSUME TypeOKCanal, LinhaEmDia, ConcluiJob
    PROVE  LinhaEmDia'
<1> DEFINE ev == trabalho.ev
<1>1. /\ Gravando /\ trabalho.lido # Nenhum /\ Cabe(trabalho.lido.telefone, ev)
      /\ Cabe(canal.telefone, ev) /\ canal.sessao # 0
      /\ ev \in EventoDaSessao /\ canal \in LinhaDoCanal
  BY DEF ConcluiJob, Gravando, LinhaEmDia, EmOrdem, SemConexao, TypeOKCanal
<1>2. /\ canal' = Aplicado(canal, trabalho.lido, ev) /\ trabalho' = SemTrabalho /\ ~Gravando'
      /\ instancia' = instancia /\ fila' = fila
  BY <1>1 DEF ConcluiJob, Gravando, SemTrabalho
<1>3. /\ canal'.sessao = canal.sessao /\ canal'.telefone = ev.telefone
      /\ ev.tipo = "QR_RECEIVED" => canal'.status = "CONNECTING"
      /\ ev.tipo = "READY" => canal'.status = "CONNECTED"
      /\ ev.tipo = "DISCONNECTED" => canal'.status = "DISCONNECTED"
  <2>1. CASE ev.tipo = "QR_RECEIVED" BY <1>1, <1>2, <2>1 DEF Aplicado, Cabe, LinhaDoCanal
  <2>2. CASE ev.tipo = "READY" BY <1>1, <1>2, <2>2 DEF Aplicado, TelefoneLido, Cabe, LinhaDoCanal
  <2>3. CASE ev.tipo = "DISCONNECTED" BY <1>1, <1>2, <2>3 DEF Aplicado, Desconectado, Cabe, LinhaDoCanal
  <2> QED BY <1>1, <2>1, <2>2, <2>3 DEF EventoDaSessao
<1>4. Telefone' = ev.telefone /\ Telefone = ev.telefone BY <1>1, <1>2, <1>3 DEF Telefone
<1>5. EmOrdem' BY <1>2, <1>3, <1>4 DEF LinhaEmDia, EmOrdem, Cabe
<1>6. LinhaConta'
  <2>1. CASE fila # <<>> BY <1>2, <1>3, <2>1 DEF LinhaEmDia, LinhaConta, Conta
  <2>2. CASE fila = <<>>
    <3>1. Conta(ev, instancia[canal.sessao]) BY <1>1, <2>2 DEF LinhaEmDia, LinhaConta
    <3>2. canal'.telefone = instancia[canal.sessao].telefone BY <1>1, <1>3, <3>1, TelefoneDoAviso
    <3>3. canal'.status = EstadoReal(instancia[canal.sessao]) BY <1>1, <1>3, <3>1 DEF Conta, EstadoReal, EventoDaSessao
    <3> QED BY <1>2, <1>3, <2>2, <3>2, <3>3 DEF LinhaConta, DizOQueE, EstadoReal
  <2> QED BY <2>1, <2>2
<1> QED BY <1>1, <1>2, <1>3, <1>5, <1>6 DEF LinhaEmDia, SemConexao, TelefoneSoAberta

\* A write that keeps the phone or takes it away, and says what the instance is unless a
\* webhook is still to say it, leaves the row in date.
LEMMA EscritaEmDia ==
    ASSUME TypeOKCanal, LinhaEmDia, canal.sessao # 0, canal'.sessao = canal.sessao,
           canal'.telefone \in {canal.telefone, Nenhum},
           fila = <<>> /\ ~Gravando => DizOQueE(instancia[canal.sessao])',
           instancia' = instancia, fila' = fila, trabalho' = trabalho
    PROVE  LinhaEmDia'
<1>1. Gravando' = Gravando /\ Telefone' \in {Telefone, Nenhum} BY DEF Gravando, Telefone
<1>2. EmOrdem'
  <2>1. ASSUME NEW k \in DOMAIN fila
        PROVE  Cabe(IF k = 1 THEN Telefone' ELSE fila[k - 1].telefone, fila[k])
    <3>1. Cabe(IF k = 1 THEN Telefone ELSE fila[k - 1].telefone, fila[k]) BY DEF LinhaEmDia, EmOrdem
    <3> QED BY <1>1, <3>1, CabeSemTelefone
  <2>2. Gravando => Cabe(canal'.telefone, trabalho.ev) BY CabeSemTelefone DEF LinhaEmDia, EmOrdem
  <2> QED BY <1>1, <2>1, <2>2 DEF LinhaEmDia, EmOrdem, Cabe
<1>3. LinhaConta'
  <2>1. /\ fila # <<>> => Conta(fila[Len(fila)], instancia[canal.sessao])
        /\ fila = <<>> /\ Gravando => Conta(trabalho.ev, instancia[canal.sessao])
    BY DEF LinhaEmDia, LinhaConta
  <2> QED BY <1>1, <2>1 DEF LinhaConta, Conta
<1> QED BY <1>2, <1>3 DEF LinhaEmDia, SemConexao, TelefoneSoAberta

\* What a request writes of an answer not overtaken.
LEMMA GravacaoEmDia ==
    ASSUME TypeOKCanal, EscreveDeSessao, LinhaEmDia, RespostaAtual, Intacto, Intacto', NEW o \in Operadores,
           GravaInicio(o) \/ GravaEncerramento(o) \/ GravaConsulta(o)
    PROVE  LinhaEmDia'
<1> DEFINE c == comando[o]
           i == instancia[canal.sessao]
<1>1. c.pc = "grava" /\ Registra(o) /\ instancia' = instancia /\ fila' = fila /\ trabalho' = trabalho
  BY DEF GravaInicio, GravaEncerramento, GravaConsulta
<1>2. ~c.atraso BY <1>1 DEF Registra, Intacto
<1>3. Vale(c, i) /\ c.sessao = canal.sessao /\ canal.sessao # 0
  BY <1>1, <1>2 DEF RespostaAtual, EscreveDeSessao, Atual
<1>4. canal \in LinhaDoCanal /\ canal.sessao \in Sessoes BY <1>3 DEF TypeOKCanal, LinhaDoCanal
<1>5. ASSUME canal'.sessao = canal.sessao, canal'.telefone = canal.telefone, canal'.status = EstadoReal(i)
      PROVE  LinhaEmDia'
  <2>1. fila = <<>> /\ ~Gravando => DizOQueE(i) BY <1>3 DEF LinhaEmDia, LinhaConta
  <2>2. fila = <<>> /\ ~Gravando => DizOQueE(instancia[canal.sessao])'
    BY <1>1, <1>5, <2>1 DEF DizOQueE, EstadoReal
  <2> QED BY <1>1, <1>3, <1>5, <2>2, EscritaEmDia
<1>6. CASE GravaInicio(o)
  <2>1. EstadoReal(c.resp) = EstadoReal(i) /\ EstadoReal(i) \in {"CONNECTED", "CONNECTING"}
    BY <1>3, <1>6 DEF GravaInicio, Vale
  <2>2. /\ canal'.sessao = canal.sessao /\ canal'.telefone = canal.telefone
        /\ canal'.status = EstadoReal(i)
    BY <1>4, <1>6, <2>1 DEF GravaInicio, LinhaDoCanal
  <2> QED BY <1>5, <2>2
<1>7. CASE GravaConsulta(o)
  <2>1. EstadoReal(c.resp) = EstadoReal(i) BY <1>3, <1>7 DEF GravaConsulta, Vale
  <2>2. /\ canal'.sessao = canal.sessao /\ canal'.telefone = canal.telefone
        /\ canal'.status = EstadoReal(i)
    BY <1>4, <1>7, <2>1 DEF GravaConsulta, LinhaDoCanal
  <2> QED BY <1>5, <2>2
<1>8. CASE GravaEncerramento(o)
  <2>1. i.estado \in {"inexistente", "semSocket"} BY <1>3, <1>8 DEF GravaEncerramento, Vale, JaSemConexao
  <2>2. canal'.sessao = canal.sessao /\ canal'.telefone = Nenhum /\ canal'.status = "DISCONNECTED"
    BY <1>4, <1>8 DEF GravaEncerramento, Desconectado, LinhaDoCanal
  <2>3. i.estado = "inexistente" => i.telefone = Nenhum
    BY <1>4 DEF LinhaEmDia, TelefoneSoAberta, Aberta
  <2>4. DizOQueE(instancia[canal.sessao])'
    BY <1>1, <2>1, <2>2, <2>3 DEF DizOQueE, EstadoReal
  <2> QED BY <1>1, <1>3, <2>2, <2>4, EscritaEmDia
<1> QED BY <1>6, <1>7, <1>8

\* The session named is new: nothing is on its way for it.
LEMMA NomeEmDia ==
    ASSUME TypeOKCanal, SemSessaoNaoLeu, InstanciaSoDoCanal, LinhaEmDia, Intacto, Intacto',
           NEW o \in Operadores, NomeiaSessao(o)
    PROVE  LinhaEmDia' /\ canal.sessao = 0
<1>1. canal.sessao = 0
  <2>1. comando[o].lido.sessao = 0 BY DEF NomeiaSessao, SemSessaoNaoLeu, FaltaSessao
  <2> QED BY <2>1 DEF NomeiaSessao, Intacto
<1>2. inicios + 1 \in Sessoes BY CanalAssumption DEF NomeiaSessao, TypeOKCanal, Sessoes
<1>3. instancia[inicios + 1] = SemInstancia
  BY <1>1, <1>2 DEF InstanciaSoDoCanal, Intacto, Sessoes
<1>4. /\ canal'.sessao = inicios + 1 /\ canal'.status = canal.status /\ canal'.telefone = canal.telefone
      /\ canal'.sessao # 0
      /\ instancia' = instancia /\ fila' = fila /\ trabalho' = trabalho
  BY <1>2 DEF NomeiaSessao, TypeOKCanal, LinhaDoCanal, Sessoes
<1>5. fila = <<>> /\ ~Gravando /\ canal.status = "DISCONNECTED" /\ canal.telefone = Nenhum
  BY <1>1 DEF LinhaEmDia, SemConexao
<1>6. EmOrdem' BY <1>4, <1>5 DEF LinhaEmDia, EmOrdem, Gravando
<1>7. LinhaConta' BY <1>3, <1>4, <1>5, SemComandoFora DEF LinhaConta, Gravando, DizOQueE, EstadoReal
<1> QED BY <1>1, <1>4, <1>6, <1>7 DEF LinhaEmDia, SemConexao, TelefoneSoAberta

\* An answer that an instance of its session overtook is no longer counted on, and under
\* RespostaAtual there is no other.
LEMMA AtrasoAtual ==
    ASSUME TypeOKCanal, RespostaAtual, NEW k \in Operadores,
           Atrasa(canal.sessao)[k].pc = "grava", canal.sessao \in Sessoes
    PROVE  Atrasa(canal.sessao)[k].atraso
<1>1. comando[k].pc = "grava" BY TipoDoAtraso
<1>2. CASE comando[k].sessao = canal.sessao BY <1>1, <1>2, TipoDoAtraso
<1>3. CASE comando[k].sessao # canal.sessao
  <2>1. comando[k].atraso BY <1>1, <1>3 DEF RespostaAtual, Atual
  <2> QED BY <2>1, TipoDoAtraso
<1> QED BY <1>2, <1>3

\* What request o got is what the instance is; the other requests are as they were, or overtaken.
LEMMA UmaResposta ==
    ASSUME TypeOKCanal, RespostaAtual, NEW o \in Operadores, NEW c \in Comando, canal' = canal,
           \/ comando' = [comando EXCEPT ![o] = c] /\ instancia' = instancia
           \/ canal.sessao \in Sessoes /\ comando' = [Atrasa(canal.sessao) EXCEPT ![o] = c],
           c.pc = "grava" => c.sessao = canal.sessao /\ Vale(c, instancia'[canal.sessao])
    PROVE  RespostaAtual'
<1> SUFFICES ASSUME NEW k \in Operadores, comando'[k].pc = "grava", ~comando'[k].atraso
             PROVE  /\ comando'[k].sessao = canal'.sessao
                    /\ Vale(comando'[k], instancia'[canal'.sessao])
  BY DEF RespostaAtual, Atual, Vale
<1>1. CASE k = o
  <2>1. comando'[k] = c BY <1>1, TipoDoAtraso DEF TypeOKCanal
  <2> QED BY <2>1
<1>2. CASE k # o
  <2>1. CASE comando' = [comando EXCEPT ![o] = c] /\ instancia' = instancia
    <3>1. comando'[k] = comando[k] BY <1>2, <2>1 DEF TypeOKCanal
    <3>2. Atual(comando[k]) BY <3>1 DEF RespostaAtual
    <3> QED BY <2>1, <3>1, <3>2 DEF Atual
  <2>2. CASE canal.sessao \in Sessoes /\ comando' = [Atrasa(canal.sessao) EXCEPT ![o] = c]
    <3>1. comando'[k] = Atrasa(canal.sessao)[k] BY <1>2, <2>2, TipoDoAtraso
    <3> QED BY <2>2, <3>1, AtrasoAtual
  <2> QED BY <2>1, <2>2
<1> QED BY <1>1, <1>2

\* A request that ends, or asks, leaves the answers of the others as they are.
LEMMA MesmaResposta ==
    ASSUME TypeOKCanal, RespostaAtual, NEW o \in Operadores, NEW c \in Comando, c.pc # "grava",
           comando' = [comando EXCEPT ![o] = c], canal'.sessao = canal.sessao, instancia' = instancia
    PROVE  RespostaAtual'
<1>1. \A k \in Operadores : comando'[k] = IF k = o THEN c ELSE comando[k] BY DEF TypeOKCanal
<1> QED BY <1>1 DEF RespostaAtual, Atual, Vale

\* Every step overtakes the answers it outdates.
LEMMA RespostaMantem ==
    ASSUME TypeOKCanal, SemSessaoNaoLeu, EscreveDeSessao, InstanciaSoDoCanal, LinhaEmDia, RespostaAtual,
           Intacto, Intacto', NextCanal
    PROVE  RespostaAtual'
<1>1. \A o \in Operadores : comando[o] \in Comando BY DEF TypeOKCanal
<1>2. canal \in LinhaDoCanal BY DEF TypeOKCanal
<1>3. ASSUME NEW s \in Sessoes, CaiInstancia(s) \/ \E t \in Telefones : Pareia(s, t) PROVE RespostaAtual'
  <2>1. instancia[s].estado # "inexistente" /\ canal' = canal /\ comando' = Atrasa(s)
    <3>1. CASE CaiInstancia(s) BY <3>1 DEF CaiInstancia
    <3>2. CASE \E t \in Telefones : Pareia(s, t) BY <3>2 DEF Pareia
    <3> QED BY <1>3, <3>1, <3>2
  <2>2. s = canal.sessao BY <2>1, SemComandoFora DEF InstanciaSoDoCanal, Intacto
  <2>3. \A k \in Operadores : comando'[k].pc = "grava" => comando'[k].atraso BY <2>1, <2>2, AtrasoAtual
  <2> QED BY <2>3 DEF RespostaAtual
<1>4. CASE UNCHANGED comando /\ canal'.sessao = canal.sessao /\ instancia' = instancia
  BY <1>4 DEF RespostaAtual, Atual, Vale
<1>5. CASE PegaJob BY <1>4, <1>5 DEF PegaJob
<1>6. CASE ConcluiJob
  <2>1. /\ Gravando /\ trabalho.lido # Nenhum BY <1>6 DEF ConcluiJob, Gravando, LinhaEmDia, EmOrdem
  <2>2. canal' = Aplicado(canal, trabalho.lido, trabalho.ev) /\ trabalho.ev \in EventoDaSessao
    BY <1>6, <2>1 DEF ConcluiJob, TypeOKCanal
  <2>3. canal'.sessao = canal.sessao
    <3>1. CASE trabalho.ev.tipo = "QR_RECEIVED" BY <1>2, <2>2, <3>1 DEF Aplicado, LinhaDoCanal
    <3>2. CASE trabalho.ev.tipo = "READY" BY <1>2, <2>2, <3>2 DEF Aplicado, LinhaDoCanal
    <3>3. CASE trabalho.ev.tipo = "DISCONNECTED" BY <1>2, <2>2, <3>3 DEF Aplicado, Desconectado, LinhaDoCanal
    <3> QED BY <2>2, <3>1, <3>2, <3>3 DEF EventoDaSessao
  <2> QED BY <1>4, <1>6, <2>3 DEF ConcluiJob
<1>7. CASE FalhaJob BY <1>7 DEF FalhaJob, Intacto
<1>8. ASSUME NEW o \in Operadores, Larga(o), canal'.sessao = canal.sessao, instancia' = instancia
      PROVE  RespostaAtual'
  BY <1>8, SemComandoFora, MesmaResposta DEF Larga
<1>9. ASSUME NEW o \in Operadores, NEW tipo \in {"start", "close", "restart", "sync", "remove"}, NEW n \in BOOLEAN,
             Pede(o, tipo, n)
      PROVE  RespostaAtual'
  <2> DEFINE c == [SemComando EXCEPT !.tipo = tipo, !.pc = "pede", !.lido = canal, !.numero = n,
                                     !.sessao = canal.sessao]
  <2>1. c \in Comando /\ c.pc = "pede" BY <1>2 DEF Comando, SemComando, LinhaDoCanal
  <2>2. comando' = [comando EXCEPT ![o] = c] /\ canal' = canal /\ instancia' = instancia BY <1>9 DEF Pede
  <2> HIDE DEF c
  <2> QED BY <2>1, <2>2, MesmaResposta
<1>10. ASSUME NEW o \in Operadores, NomeiaSessao(o) PROVE RespostaAtual'
  <2>1. canal.sessao = 0 BY <1>10, NomeEmDia
  <2>2. \A k \in Operadores : /\ comando'[k].pc = comando[k].pc /\ comando'[k].atraso = comando[k].atraso
                              /\ k # o => comando'[k] = comando[k]
    BY <1>1, <1>10 DEF NomeiaSessao, TypeOKCanal, Comando
  <2>3. \A k \in Operadores : comando[k].pc = "grava" => comando[k].atraso
    BY <2>1 DEF RespostaAtual, Atual, EscreveDeSessao
  <2> QED BY <2>2, <2>3 DEF RespostaAtual
<1>11. ASSUME NEW o \in Operadores, RelefSessao(o) PROVE RespostaAtual'
  <2> DEFINE c == [comando[o] EXCEPT !.sessao = canal.sessao]
  <2>1. c \in Comando /\ c.pc = "pede" BY <1>1, <1>2, <1>11 DEF RelefSessao, Comando, LinhaDoCanal
  <2>2. comando' = [comando EXCEPT ![o] = c] /\ canal' = canal /\ instancia' = instancia
    BY <1>11 DEF RelefSessao
  <2> HIDE DEF c
  <2> QED BY <2>1, <2>2, MesmaResposta
<1>12. ASSUME NEW o \in Operadores, DerrubaTentativa(o) PROVE RespostaAtual'
  <2> DEFINE c == [comando[o] EXCEPT !.pc = "conecta"]
  <2>1. c \in Comando /\ c.pc = "conecta" BY <1>1 DEF Comando
  <2>2. canal' = canal BY <1>12 DEF DerrubaTentativa
  <2>3. CASE Larga(o) /\ UNCHANGED <<instancia, fila, perdas, atropelos>> BY <1>8, <2>2, <2>3
  <2>4. CASE comando[o].sessao = canal.sessao /\ comando[o].sessao # 0
             /\ comando' = [Atrasa(comando[o].sessao) EXCEPT ![o] = c]
    <3>1. canal.sessao \in Sessoes BY <1>2, <2>4 DEF LinhaDoCanal
    <3> HIDE DEF c
    <3> QED BY <2>1, <2>2, <2>4, <3>1, UmaResposta
  <2>5. CASE comando' = [comando EXCEPT ![o] = c] /\ instancia' = instancia
    <3> HIDE DEF c
    <3> QED BY <2>1, <2>2, <2>5, UmaResposta
  <2> QED BY <1>12, <2>3, <2>4, <2>5 DEF DerrubaTentativa
<1>13. ASSUME NEW o \in Operadores, Conecta(o) PROVE RespostaAtual'
  <2> DEFINE s == comando[o].sessao
             i == instancia[s]
             novo == [estado |-> "connecting", codigo |-> IF comando[o].numero THEN inicios + 1 ELSE 0,
                      telefone |-> Nenhum]
  <2>1. canal' = canal /\ comando[o].tipo = "start" BY <1>13 DEF Conecta
  <2>2. CASE Larga(o) /\ UNCHANGED <<instancia, fila, inicios, perdas, atropelos>> BY <1>8, <2>1, <2>2
  <2>3. CASE /\ s # 0 /\ s = canal.sessao /\ inicios < Inicios /\ Avisa("QR_RECEIVED", s, novo)
             /\ comando' = [Atrasa(s) EXCEPT ![o] = [comando[o] EXCEPT !.pc = "grava", !.resp = novo]]
    <3> DEFINE c == [comando[o] EXCEPT !.pc = "grava", !.resp = novo]
    <3>1. novo \in Instancia BY <2>3, CanalAssumption DEF Instancia, Codigos, TypeOKCanal
    <3>2. canal.sessao \in Sessoes BY <1>2, <2>3 DEF LinhaDoCanal
    <3>3. instancia'[s] = novo /\ novo.estado = "connecting" BY <2>3, <3>2 DEF Avisa, TypeOKCanal
    <3> HIDE DEF novo
    <3>4. c \in Comando /\ c.sessao = s /\ c.tipo = "start" /\ c.resp = novo BY <1>1, <2>1, <3>1 DEF Comando
    <3>5. comando' = [Atrasa(canal.sessao) EXCEPT ![o] = c] BY <2>3
    <3> HIDE DEF c
    <3>6. c.sessao = canal.sessao /\ Vale(c, instancia'[canal.sessao])
      BY <2>3, <3>3, <3>4 DEF Vale, EstadoReal
    <3> HIDE DEF s, i
    <3> QED BY <2>1, <3>2, <3>4, <3>5, <3>6, UmaResposta
  <2>4. CASE /\ s # 0 /\ s = canal.sessao /\ i.estado \in {"connecting", "open", "semSocket"}
             /\ comando' = [comando EXCEPT ![o] = [comando[o] EXCEPT !.pc = "grava", !.resp = i]]
             /\ instancia' = instancia
    <3> DEFINE c == [comando[o] EXCEPT !.pc = "grava", !.resp = i]
    <3>1. i \in Instancia BY <1>2, <2>4 DEF TypeOKCanal, LinhaDoCanal
    <3>2. c \in Comando /\ c.sessao = s /\ c.tipo = "start" /\ c.resp = i BY <1>1, <2>1, <3>1 DEF Comando
    <3>3. comando' = [comando EXCEPT ![o] = c] BY <2>4
    <3> HIDE DEF c
    <3>4. c.sessao = canal.sessao /\ Vale(c, instancia'[canal.sessao])
      BY <2>4, <3>2 DEF Vale, EstadoReal
    <3>5. comando' = [comando EXCEPT ![o] = c] /\ instancia' = instancia BY <2>4, <3>3
    <3> HIDE DEF s, i
    <3> QED BY <2>1, <3>2, <3>4, <3>5, UmaResposta
  <2> QED BY <1>13, <2>2, <2>3, <2>4 DEF Conecta
<1>14. ASSUME NEW o \in Operadores, EncerraSessao(o) PROVE RespostaAtual'
  <2> DEFINE s == comando[o].sessao
  <2>1. canal' = canal /\ comando[o].tipo = "close" BY <1>14 DEF EncerraSessao
  <2>2. CASE Larga(o) /\ UNCHANGED <<instancia, fila, perdas, atropelos>> BY <1>8, <2>1, <2>2
  <2>3. CASE /\ s = canal.sessao /\ JaSemConexao(instancia[s])
             /\ comando' = [comando EXCEPT ![o].pc = "grava"] /\ instancia' = instancia
    <3> DEFINE c == [comando[o] EXCEPT !.pc = "grava"]
    <3>1. c \in Comando /\ c.sessao = s /\ c.tipo = "close" BY <1>1, <2>1 DEF Comando
    <3>2. comando' = [comando EXCEPT ![o] = c] BY <2>3
    <3> HIDE DEF c
    <3>3. c.sessao = canal.sessao /\ Vale(c, instancia'[canal.sessao])
      BY <2>3, <3>1 DEF Vale
    <3> QED BY <2>1, <2>3, <3>1, <3>2, <3>3, UmaResposta
  <2>4. CASE s # 0 /\ s = canal.sessao /\ comando' = [Atrasa(s) EXCEPT ![o] = SemComando]
    <3>1. canal.sessao \in Sessoes BY <1>2, <2>4 DEF LinhaDoCanal
    <3> QED BY <2>1, <2>4, <3>1, SemComandoFora, UmaResposta
  <2> QED BY <1>14, <2>2, <2>3, <2>4 DEF EncerraSessao
<1>15. ASSUME NEW o \in Operadores, Reinicia(o) PROVE RespostaAtual'
  <2> DEFINE s == canal.sessao
  <2>1. canal' = canal BY <1>15 DEF Reinicia
  <2>2. CASE Larga(o) /\ UNCHANGED <<instancia, fila, perdas, atropelos>> BY <1>8, <2>1, <2>2
  <2>3. CASE s # 0 /\ Avisa("READY", s, instancia[s]) /\ Larga(o)
    <3>1. instancia' = instancia BY <2>3 DEF Avisa, TypeOKCanal
    <3> QED BY <1>8, <2>1, <2>3, <3>1
  <2>4. CASE s # 0 /\ comando' = [Atrasa(s) EXCEPT ![o] = SemComando]
    <3>1. canal.sessao \in Sessoes BY <1>2, <2>4 DEF LinhaDoCanal
    <3> QED BY <2>1, <2>4, <3>1, SemComandoFora, UmaResposta
  <2> QED BY <1>15, <2>2, <2>3, <2>4 DEF Reinicia
<1>16. ASSUME NEW o \in Operadores, Consulta(o) PROVE RespostaAtual'
  <2> DEFINE s == comando[o].sessao
             c == [comando[o] EXCEPT !.pc = "grava", !.resp = instancia[s]]
  <2>1. canal' = canal /\ instancia' = instancia /\ comando[o].tipo = "sync" BY <1>16 DEF Consulta
  <2>2. CASE Larga(o) BY <1>8, <2>1, <2>2
  <2>3. CASE s # 0 /\ s = canal.sessao /\ comando' = [comando EXCEPT ![o] = c]
    <3>1. instancia[s] \in Instancia BY <1>2, <2>3 DEF TypeOKCanal, LinhaDoCanal
    <3>2. c \in Comando /\ c.sessao = s /\ c.tipo = "sync" /\ c.resp = instancia[s] BY <1>1, <2>1, <3>1 DEF Comando
    <3> HIDE DEF c
    <3>3. c.sessao = canal.sessao /\ Vale(c, instancia'[canal.sessao])
      BY <2>1, <2>3, <3>2 DEF Vale
    <3> QED BY <2>1, <2>3, <3>2, <3>3, UmaResposta
  <2> QED BY <1>16, <2>2, <2>3 DEF Consulta
<1>17. ASSUME NEW o \in Operadores, GravaInicio(o) \/ GravaEncerramento(o) \/ GravaConsulta(o) PROVE RespostaAtual'
  <2>1. Larga(o) /\ instancia' = instancia BY <1>17 DEF GravaInicio, GravaEncerramento, GravaConsulta
  <2>2. canal'.sessao = canal.sessao
    BY <1>2, <1>17 DEF GravaInicio, GravaEncerramento, GravaConsulta, Desconectado, LinhaDoCanal
  <2> QED BY <1>8, <2>1, <2>2
<1>18. ASSUME NEW o \in Operadores, Remove(o) PROVE FALSE
  <2>1. comando[o].lido \in LinhaDoCanal BY <1>18 DEF Remove, TypeOKCanal
  <2>2. canal'.removido BY <1>18, <2>1 DEF Remove, LinhaDoCanal
  <2> QED BY <2>2 DEF Intacto
<1>19. ASSUME NEW s \in Sessoes, MorreSocket(s) PROVE RespostaAtual'
  <2>1. /\ canal' = canal /\ comando' = comando /\ instancia[s].estado = "open"
        /\ instancia' = [instancia EXCEPT ![s].estado = "semSocket"]
    BY <1>19 DEF MorreSocket
  <2>2. s = canal.sessao BY <2>1, SemComandoFora DEF InstanciaSoDoCanal, Intacto
  <2>3. instancia'[s].estado = "semSocket" BY <2>1 DEF TypeOKCanal, Instancia
  <2>4. \A c : Vale(c, instancia[s]) => Vale(c, instancia'[s])
    BY <2>1, <2>3 DEF Vale, JaSemConexao, EstadoReal
  <2>5. ASSUME NEW k \in Operadores, comando[k].pc = "grava", ~comando[k].atraso
        PROVE  comando[k].sessao = canal.sessao /\ Vale(comando[k], instancia'[canal.sessao])
    BY <2>2, <2>4, <2>5 DEF RespostaAtual, Atual
  <2> QED BY <2>1, <2>5 DEF RespostaAtual, Atual, Vale
<1> QED
  BY <1>3, <1>5, <1>6, <1>7, <1>9, <1>10, <1>11, <1>12, <1>13, <1>14, <1>15, <1>16, <1>17, <1>18, <1>19
     DEF NextCanal

\* Every step leaves row, webhooks on their way and instance in agreement.
LEMMA LinhaMantem ==
    ASSUME TypeOKCanal, SemSessaoNaoLeu, EscreveDeSessao, InstanciaSoDoCanal, LinhaEmDia, RespostaAtual,
           Intacto, Intacto', NextCanal
    PROVE  LinhaEmDia'
<1>1. CASE UNCHANGED <<canal, instancia, fila, trabalho>>
  BY <1>1 DEF LinhaEmDia, SemConexao, EmOrdem, LinhaConta, TelefoneSoAberta, Gravando, Telefone, Cabe, Conta,
         DizOQueE
<1>2. CASE FalhaJob BY <1>2 DEF FalhaJob, Intacto
<1>3. ASSUME NEW o \in Operadores,
             \/ \E n \in BOOLEAN : Pede(o, "start", n)
             \/ \E tipo \in {"close", "restart", "sync", "remove"} : Pede(o, tipo, FALSE)
             \/ RelefSessao(o) \/ Consulta(o)
      PROVE  LinhaEmDia'
  BY <1>1, <1>3 DEF Pede, RelefSessao, Consulta
<1>4. ASSUME NEW o \in Operadores, Remove(o) PROVE FALSE
  <2>1. comando[o].lido \in LinhaDoCanal BY <1>4 DEF Remove, TypeOKCanal
  <2>2. canal'.removido BY <1>4, <2>1 DEF Remove, LinhaDoCanal
  <2> QED BY <2>2 DEF Intacto
<1> QED BY <1>2, <1>3, <1>4, ProvedorEmDia, PegaEmDia, ConcluiEmDia, GravacaoEmDia, NomeEmDia DEF NextCanal

LEMMA InicioDoCanal == InitCanal => IndCanal
<1> SUFFICES ASSUME InitCanal PROVE IndCanal OBVIOUS
<1>1. SemConexao /\ EmOrdem /\ LinhaConta BY DEF InitCanal, SemTrabalho, SemConexao, EmOrdem, LinhaConta, Gravando
<1>2. TelefoneSoAberta BY SemComandoFora DEF InitCanal, TelefoneSoAberta
<1>3. RespostaAtual BY SemComandoFora DEF InitCanal, RespostaAtual
<1> QED BY <1>1, <1>2, <1>3, InicioDaInstancia DEF IndCanal, LinhaEmDia

\* The inductive invariant: the instances are of the channel, and while nothing excepted happened the row is in date.
LEMMA PassoDoCanal == IndCanal /\ [NextCanal]_varsCanal => IndCanal'
<1>1. IndCanal /\ NextCanal => IndCanal'
  <2> SUFFICES ASSUME IndCanal, NextCanal PROVE IndCanal' OBVIOUS
  <2>1. IndInstancia' BY PassoDaInstancia DEF IndCanal
  <2>2. ASSUME Intacto' PROVE LinhaEmDia' /\ RespostaAtual'
    <3>1. Intacto BY <2>2, IntactoAntes DEF IndCanal, IndInstancia
    <3> QED BY <2>2, <3>1, LinhaMantem, RespostaMantem DEF IndCanal, IndInstancia
  <2> QED BY <2>1, <2>2 DEF IndCanal
<1>2. IndCanal /\ UNCHANGED varsCanal => IndCanal'
  <2> SUFFICES ASSUME IndCanal, UNCHANGED varsCanal PROVE IndCanal' OBVIOUS
  <2>1. IndInstancia' BY PassoDaInstancia DEF IndCanal
  <2>2. UNCHANGED <<canal, instancia, fila, trabalho, comando, atropelos>> BY DEF varsCanal
  <2>3. (Intacto => LinhaEmDia)' BY <2>2
    DEF IndCanal, Intacto, LinhaEmDia, SemConexao, EmOrdem, LinhaConta, TelefoneSoAberta, Gravando, Telefone, Cabe, Conta,
         DizOQueE
  <2>4. (Intacto => RespostaAtual)' BY <2>2 DEF IndCanal, Intacto, RespostaAtual, Atual, Vale
  <2> QED BY <2>1, <2>3, <2>4 DEF IndCanal
<1> QED BY <1>1, <1>2

(****************************************************************************)
(* When no webhook is on its way and no request is about to write, the row  *)
(* of a channel says of the connection what the provider says, and of an    *)
(* open one the phone it has, for any operators, phones and bounds. Of an   *)
(* instance whose socket died, which the provider goes on calling open, it  *)
(* may also say disconnected, with no phone. What may go wrong otherwise is *)
(* a webhook lost or out of its turn, an answer written after it was        *)
(* overtaken, a session replaced, or the removal.                           *)
(****************************************************************************)
THEOREM QuietoSempreCerto == SpecCanal => []QuietoEstaCerto
<1>1. IndCanal => QuietoEstaCerto
  <2> SUFFICES ASSUME IndCanal, EmRepouso, canal.sessao # 0, ~canal.removido, atropelos = {}
               PROVE  DizOQueE(instancia[canal.sessao])
    BY DEF QuietoEstaCerto, DizOQueE
  <2>1. fila = <<>> /\ ~Gravando BY DEF EmRepouso, SemTrabalho, Gravando
  <2> QED BY <2>1 DEF IndCanal, Intacto, LinhaEmDia, LinhaConta
<1> QED BY <1>1, InicioDoCanal, PassoDoCanal, PTL DEF SpecCanal

================================================================================
