----------------------------- MODULE ColegasProofs -----------------------------
(****************************************************************************)
(* Proofs about what colleagues do among themselves: the appointments and   *)
(* their reminders (Agenda), and the conversation of two of them            *)
(* (ChatInterno). The agenda's inductive invariant says of each request     *)
(* that it meets only what crossed it, and of each appointment whose round  *)
(* has begun that its reminder is made, awaited or excused; the             *)
(* conversation's says who opens it, and balances a reader's count with the *)
(* notices on their way.                                                    *)
(****************************************************************************)
EXTENDS Agenda, ChatInterno, FiniteSetTheorems, SequenceTheorems, TLAPS

--------------------------------------------------------------------------------
(* Agenda: types *)

Compromisso == [hora : Nat, dono : Donos \cup {"ninguem"}]
ChaveDeLembrete == [id : Compromissos, hora : Nat, dono : Donos \cup {"ninguem"}]
Solicitacao == [pc : {"fora", "confere", "grava"}, id : Compromissos \cup {Ocioso.id}, valor : Compromisso]
Volta == [pc : {"fora", "percorre", "confirma"}, pendentes : SUBSET ChaveDeLembrete,
          item : {<<>>} \cup {<<k>> : k \in ChaveDeLembrete}]
Lembrete == [n : Nat, id : Compromissos, hora : Nat, dono : Donos \cup {"ninguem"}]
TypeOKAgenda ==
    /\ agenda \in [Compromissos -> Compromisso]
    /\ solicitacao \in [Solicitacoes -> Solicitacao]
    /\ \A p \in Solicitacoes : solicitacao[p].pc # "fora" => solicitacao[p].id \in Compromissos
    /\ minuto \in Nat /\ disparada \in Nat /\ disparada <= minuto
    /\ rodada \in [Rodadas -> Volta]
    /\ \A r \in Rodadas : /\ rodada[r].item # <<>> <=> rodada[r].pc = "confirma"
                          /\ rodada[r].pc = "fora" => rodada[r].pendentes = {}
    /\ lembretes \subseteq Lembrete /\ IsFiniteSet(lembretes)

LEMMA ChavesDosMarcados ==
    ASSUME TypeOKAgenda
    PROVE  /\ \A c \in Marcados : c \in Compromissos /\ Chave(c) \in ChaveDeLembrete
           /\ LembretesDevidos \subseteq ChaveDeLembrete
BY DEF TypeOKAgenda, Marcados, Chave, ChaveDeLembrete, Compromisso, LembretesDevidos

LEMMA TipoInicialDaAgenda == InitAgenda => TypeOKAgenda
<1> SUFFICES ASSUME InitAgenda PROVE TypeOKAgenda OBVIOUS
<1>1. IsFiniteSet(lembretes) BY FS_EmptySet DEF InitAgenda
<1>2. Ocioso \in Solicitacao /\ Ocioso.pc = "fora" /\ Nenhum \in Compromisso
  BY DEF Ocioso, Solicitacao, Nenhum, Compromisso
<1>3. SemVolta \in Volta /\ SemVolta.pc = "fora" /\ SemVolta.item = <<>> /\ SemVolta.pendentes = {}
  BY DEF SemVolta, Volta
<1> QED BY <1>1, <1>2, <1>3 DEF InitAgenda, TypeOKAgenda

LEMMA TipoPreservadoDaAgenda ==
    ASSUME TypeOKAgenda, [NextAgenda]_varsAgenda PROVE TypeOKAgenda'
<1>1. ASSUME NEW p \in Solicitacoes, NEW c \in Compromissos, NEW valor \in [hora : Horas, dono : Donos],
             \/ PedeCriacao(p, c, valor)
             \/ \E mudaHora, mudaDono \in BOOLEAN : PedeMudanca(p, c, mudaHora, mudaDono, valor)
      PROVE  TypeOKAgenda'
  <2>1. PICK v \in Compromisso :
           solicitacao' = [solicitacao EXCEPT ![p] = [pc |-> "confere", id |-> c, valor |-> v]]
    <3>1. valor \in Compromisso /\ agenda[c] \in Compromisso
      BY AgendaAssumption DEF TypeOKAgenda, Compromisso, Horas
    <3>2. CASE PedeCriacao(p, c, valor) BY <3>1, <3>2 DEF PedeCriacao
    <3>3. CASE \E mudaHora, mudaDono \in BOOLEAN : PedeMudanca(p, c, mudaHora, mudaDono, valor)
      <4>1. PICK mudaHora \in BOOLEAN, mudaDono \in BOOLEAN : PedeMudanca(p, c, mudaHora, mudaDono, valor)
        BY <3>3
      <4> DEFINE v == [hora |-> IF mudaHora THEN valor.hora ELSE agenda[c].hora,
                       dono |-> IF mudaDono THEN valor.dono ELSE agenda[c].dono]
      <4>2. v \in Compromisso BY <3>1 DEF Compromisso
      <4> QED BY <4>1, <4>2 DEF PedeMudanca
    <3> QED BY <1>1, <3>2, <3>3
  <2>2. [pc |-> "confere", id |-> c, valor |-> v] \in Solicitacao BY DEF Solicitacao
  <2> QED BY <1>1, <2>1, <2>2 DEF TypeOKAgenda, PedeCriacao, PedeMudanca
<1>2. ASSUME NEW p \in Solicitacoes, NEW confirma \in BOOLEAN, ConfereConflito(p, confirma) PROVE TypeOKAgenda'
  <2>1. Ocioso \in Solicitacao /\ Ocioso.pc = "fora"
    BY DEF Ocioso, Solicitacao, Nenhum, Compromisso
  <2> QED BY <1>2, <2>1 DEF TypeOKAgenda, ConfereConflito, Solicitacao
<1>3. ASSUME NEW p \in Solicitacoes, GravaCompromisso(p) PROVE TypeOKAgenda'
  <2>1. Ocioso \in Solicitacao /\ Ocioso.pc = "fora"
    BY DEF Ocioso, Solicitacao, Nenhum, Compromisso
  <2> QED BY <1>3, <2>1 DEF TypeOKAgenda, GravaCompromisso, Solicitacao
<1>4. ASSUME NEW c \in Compromissos, RemoveCompromisso(c) PROVE TypeOKAgenda'
  BY <1>4 DEF TypeOKAgenda, RemoveCompromisso, Nenhum, Compromisso
<1>5. ASSUME NEW r \in Rodadas, Dispara(r) PROVE TypeOKAgenda'
  <2> DEFINE nova == [SemVolta EXCEPT !.pc = "percorre", !.pendentes = LembretesDevidos]
  <2>1. nova \in Volta /\ nova.pc = "percorre" /\ nova.item = <<>>
    BY ChavesDosMarcados DEF SemVolta, Volta
  <2>2. /\ rodada' = [rodada EXCEPT ![r] = nova] /\ disparada' = minuto
        /\ UNCHANGED <<agenda, solicitacao, minuto, lembretes>>
    BY <1>5 DEF Dispara
  <2> HIDE DEF nova
  <2>3. rodada' \in [Rodadas -> Volta] BY <2>1, <2>2 DEF TypeOKAgenda
  <2>4. \A o \in Rodadas : rodada'[o] = IF o = r THEN nova ELSE rodada[o] BY <2>2 DEF TypeOKAgenda
  <2>5. \A o \in Rodadas : /\ rodada'[o].item # <<>> <=> rodada'[o].pc = "confirma"
                           /\ rodada'[o].pc = "fora" => rodada'[o].pendentes = {}
    BY <2>1, <2>4 DEF TypeOKAgenda
  <2> QED BY <2>2, <2>3, <2>5 DEF TypeOKAgenda
<1>6. ASSUME NEW r \in Rodadas, VerificaLembrete(r) PROVE TypeOKAgenda'
  <2>1. CASE rodada' = [rodada EXCEPT ![r] = SemVolta]
    BY <1>6, <2>1 DEF TypeOKAgenda, VerificaLembrete, SemVolta, Volta
  <2>2. ASSUME NEW k \in rodada[r].pendentes,
               rodada' = [rodada EXCEPT ![r].pendentes = @ \ {k},
                                        ![r].pc = IF JaLembrado(k) THEN "percorre" ELSE "confirma",
                                        ![r].item = IF JaLembrado(k) THEN <<>> ELSE <<k>>]
        PROVE  TypeOKAgenda'
    <3>1. rodada[r] \in Volta /\ k \in ChaveDeLembrete BY DEF TypeOKAgenda, Volta
    <3>2. rodada'[r] \in Volta BY <2>2, <3>1 DEF Volta, TypeOKAgenda
    <3>3. rodada'[r].item # <<>> <=> rodada'[r].pc = "confirma" BY <2>2, <3>1 DEF Volta, TypeOKAgenda
    <3>4. rodada'[r].pc # "fora" BY <2>2, <3>1 DEF Volta, TypeOKAgenda
    <3> QED BY <1>6, <2>2, <3>2, <3>3, <3>4 DEF TypeOKAgenda, VerificaLembrete
  <2> QED BY <1>6, <2>1, <2>2 DEF VerificaLembrete
<1>7. ASSUME NEW r \in Rodadas, ConfirmaLembrete(r) PROVE TypeOKAgenda'
  <2>1. PICK k \in ChaveDeLembrete : rodada[r].item = <<k>>
    BY <1>7 DEF ConfirmaLembrete, TypeOKAgenda, Volta
  <2> DEFINE novo == [n |-> Cardinality(lembretes) + 1, id |-> k.id, hora |-> k.hora, dono |-> k.dono]
  <2>2. novo \in Lembrete
    BY FS_CardinalityType DEF TypeOKAgenda, Lembrete, ChaveDeLembrete
  <2>3. lembretes' = lembretes \cup {novo} BY <1>7, <2>1 DEF ConfirmaLembrete
  <2>4. IsFiniteSet(lembretes') BY <2>3, FS_AddElement DEF TypeOKAgenda
  <2> HIDE DEF novo
  <2> QED BY <1>7, <2>2, <2>3, <2>4 DEF TypeOKAgenda, ConfirmaLembrete, Volta
<1>8. ASSUME NEW r \in Rodadas, FalhaLembrete(r) PROVE TypeOKAgenda'
  BY <1>8 DEF TypeOKAgenda, FalhaLembrete, SemVolta, Volta
<1>9. CASE PassaMinuto BY <1>9 DEF TypeOKAgenda, PassaMinuto
<1>10. CASE UNCHANGED varsAgenda BY <1>10 DEF TypeOKAgenda, varsAgenda
<1> QED BY <1>1, <1>2, <1>3, <1>4, <1>5, <1>6, <1>7, <1>8, <1>9, <1>10 DEF NextAgenda

\* A request that found no conflict, or had it accepted, meets only what crossed it.
Conferidos ==
    \A p \in Solicitacoes : solicitacao[p].pc = "grava" =>
        \A d \in Marcados : d # solicitacao[p].id /\ agenda[d] = solicitacao[p].valor
                                => {solicitacao[p].id, d} \in confirmados \cup cruzados

\* A check sees the appointments there are; what was written since crossed it.
LEMMA ConflitosMantem ==
    ASSUME TypeOKAgenda, ConflitoConsentido, Conferidos, [NextAgenda]_varsAgenda
    PROVE  ConflitoConsentido' /\ Conferidos'
<1>1. ASSUME NEW p \in Solicitacoes, NEW c \in Compromissos, NEW valor,
             \/ PedeCriacao(p, c, valor)
             \/ \E mudaHora, mudaDono \in BOOLEAN : PedeMudanca(p, c, mudaHora, mudaDono, valor)
      PROVE  ConflitoConsentido' /\ Conferidos'
  <2>1. UNCHANGED <<agenda, confirmados, cruzados>>
        /\ \A o \in Solicitacoes : solicitacao'[o].pc = "grava" => solicitacao'[o] = solicitacao[o]
    BY <1>1 DEF PedeCriacao, PedeMudanca, TypeOKAgenda
  <2> QED BY <2>1 DEF ConflitoConsentido, Conferidos, Marcados
<1>2. ASSUME NEW p \in Solicitacoes, NEW confirma \in BOOLEAN, ConfereConflito(p, confirma)
      PROVE  ConflitoConsentido' /\ Conferidos'
  <2> DEFINE q == solicitacao[p]
             achados == Conflitos(q.id, q.valor)
  <2>1. /\ UNCHANGED <<agenda, cruzados>> /\ confirmados \subseteq confirmados'
        /\ confirma => \A d \in achados : {q.id, d} \in confirmados'
        /\ solicitacao' = [solicitacao EXCEPT ![p] = IF achados # {} /\ ~confirma THEN Ocioso
                                                     ELSE [q EXCEPT !.pc = "grava"]]
    BY <1>2 DEF ConfereConflito
  <2>2. ConflitoConsentido' BY <2>1 DEF ConflitoConsentido, Marcados
  <2>3. ASSUME NEW o \in Solicitacoes, solicitacao'[o].pc = "grava", NEW d \in Marcados,
               d # solicitacao'[o].id, agenda[d] = solicitacao'[o].valor
        PROVE  {solicitacao'[o].id, d} \in confirmados' \cup cruzados
    <3>1. CASE o # p
      <4>1. solicitacao'[o] = solicitacao[o] BY <2>1, <3>1 DEF TypeOKAgenda
      <4> QED BY <2>1, <2>3, <4>1 DEF Conferidos
    <3>2. CASE o = p
      <4>1. q \in Solicitacao BY DEF TypeOKAgenda
      <4>2. ~(achados # {} /\ ~confirma) BY <2>1, <2>3, <3>2 DEF TypeOKAgenda, Ocioso
      <4>3. solicitacao'[p].id = q.id /\ solicitacao'[p].valor = q.valor
        BY <2>1, <4>1, <4>2 DEF TypeOKAgenda, Solicitacao
      <4>4. d \in achados BY <2>3, <3>2, <4>3 DEF Conflitos
      <4> QED BY <2>1, <3>2, <4>2, <4>3, <4>4
    <3> QED BY <3>1, <3>2
  <2>4. Marcados' = Marcados BY <2>1 DEF Marcados
  <2> QED BY <2>1, <2>2, <2>3, <2>4 DEF Conferidos
<1>3. ASSUME NEW p \in Solicitacoes, GravaCompromisso(p) PROVE ConflitoConsentido' /\ Conferidos'
  <2> DEFINE q == solicitacao[p]
  <2>1. /\ q.pc = "grava" /\ q.id \in Compromissos
        /\ agenda' = [agenda EXCEPT ![q.id] = q.valor]
        /\ solicitacao' = [solicitacao EXCEPT ![p] = Ocioso]
        /\ confirmados' = confirmados /\ cruzados \subseteq cruzados'
        /\ \A o \in Solicitacoes : solicitacao[o].pc = "grava" => {q.id, solicitacao[o].id} \in cruzados'
    BY <1>3 DEF GravaCompromisso, TypeOKAgenda
  <2>2. agenda'[q.id] = q.valor /\ \A d \in Compromissos : d # q.id => agenda'[d] = agenda[d]
    BY <2>1 DEF TypeOKAgenda
  <2>3. \A d \in Marcados' : d # q.id => d \in Marcados BY <2>2 DEF Marcados
  <2>4. \A d \in Marcados : d # q.id /\ agenda[d] = q.valor => {q.id, d} \in confirmados \cup cruzados
    BY <2>1 DEF Conferidos
  <2>5. ASSUME NEW c \in Marcados', NEW d \in Marcados', c # d, agenda'[c] = agenda'[d]
        PROVE  {c, d} \in confirmados' \cup cruzados'
    <3>0. c \in Compromissos /\ d \in Compromissos BY DEF Marcados
    <3>1. CASE c # q.id /\ d # q.id BY <2>1, <2>2, <2>3, <2>5, <3>0, <3>1 DEF ConflitoConsentido
    <3>2. CASE c = q.id BY <2>1, <2>2, <2>3, <2>4, <2>5, <3>0, <3>2
    <3>3. CASE d = q.id
      <4>1. {d, c} \in confirmados' \cup cruzados' BY <2>1, <2>2, <2>3, <2>4, <2>5, <3>0, <3>3
      <4>2. {d, c} = {c, d} OBVIOUS
      <4> QED BY <4>1, <4>2
    <3> QED BY <3>1, <3>2, <3>3
  <2>6. ASSUME NEW o \in Solicitacoes, solicitacao'[o].pc = "grava", NEW d \in Marcados',
               d # solicitacao'[o].id, agenda'[d] = solicitacao'[o].valor
        PROVE  {solicitacao'[o].id, d} \in confirmados' \cup cruzados'
    <3>1. o # p BY <2>1, <2>6 DEF Ocioso, TypeOKAgenda
    <3>2. solicitacao'[o] = solicitacao[o] BY <2>1, <3>1 DEF TypeOKAgenda
    <3>3. CASE d = q.id
      <4>1. {q.id, solicitacao[o].id} \in cruzados' BY <2>1, <2>6, <3>2
      <4>2. {q.id, solicitacao[o].id} = {solicitacao[o].id, d} BY <3>3
      <4> QED BY <3>2, <4>1, <4>2
    <3>4. CASE d # q.id
      <4>1. d \in Marcados /\ agenda'[d] = agenda[d] BY <2>2, <2>3, <3>4 DEF Marcados
      <4> QED BY <2>1, <2>6, <3>2, <4>1 DEF Conferidos
    <3> QED BY <3>3, <3>4
  <2> QED BY <2>5, <2>6 DEF ConflitoConsentido, Conferidos
<1>4. ASSUME NEW c \in Compromissos, RemoveCompromisso(c) PROVE ConflitoConsentido' /\ Conferidos'
  <2>1. \A d \in Marcados' : d \in Marcados /\ agenda'[d] = agenda[d]
    BY <1>4 DEF RemoveCompromisso, Marcados, TypeOKAgenda
  <2> QED BY <1>4, <2>1 DEF RemoveCompromisso, ConflitoConsentido, Conferidos
<1>5. CASE UNCHANGED <<agenda, solicitacao, confirmados, cruzados>>
  BY <1>5 DEF ConflitoConsentido, Conferidos, Marcados
<1>6. ASSUME NEW r \in Rodadas, Dispara(r) \/ VerificaLembrete(r) \/ ConfirmaLembrete(r) \/ FalhaLembrete(r)
      PROVE  UNCHANGED <<agenda, solicitacao, confirmados, cruzados>>
  BY <1>6 DEF Dispara, VerificaLembrete, ConfirmaLembrete, FalhaLembrete
<1> QED BY <1>1, <1>2, <1>3, <1>4, <1>5, <1>6 DEF NextAgenda, PassaMinuto, varsAgenda

\* A round that makes a reminder already made, or one that another makes, is known.
FeitoUmaVez ==
    \A r \in Rodadas, k \in ChaveDeLembrete : rodada[r].item = <<k>> =>
        /\ JaLembrado(k) => k \in repetidos
        /\ \A o \in Rodadas : o # r /\ rodada[o].item = <<k>> => k \in repetidos

\* Reminders are numbered in the order of their commits.
Numerados == \A l, m \in lembretes : l.n <= Cardinality(lembretes) /\ (l.n = m.n => l = m)

\* One round makes a reminder at a time, but for those known as repeated.
LEMMA LembretesMantem ==
    ASSUME TypeOKAgenda, FeitoUmaVez, Numerados, LembreteUnico, [NextAgenda]_varsAgenda
    PROVE  FeitoUmaVez' /\ Numerados' /\ LembreteUnico'
<1>1. CASE UNCHANGED <<rodada, lembretes, repetidos>>
  BY <1>1 DEF FeitoUmaVez, Numerados, LembreteUnico, JaLembrado
<1>2. ASSUME NEW r \in Rodadas, UNCHANGED <<lembretes, repetidos>>,
             \E v : rodada' = [rodada EXCEPT ![r] = v] /\ v.item = <<>>
      PROVE  FeitoUmaVez' /\ Numerados' /\ LembreteUnico'
  <2>1. \A o \in Rodadas, k \in ChaveDeLembrete : rodada'[o].item = <<k>> => rodada[o].item = <<k>>
    <3>1. rodada'[r].item = <<>> /\ \A o \in Rodadas : o # r => rodada'[o] = rodada[o]
      BY <1>2 DEF TypeOKAgenda
    <3> QED BY <3>1
  <2> QED BY <1>2, <2>1 DEF FeitoUmaVez, Numerados, LembreteUnico, JaLembrado
<1>3. ASSUME NEW r \in Rodadas, Dispara(r) PROVE FeitoUmaVez' /\ Numerados' /\ LembreteUnico'
  <2> DEFINE nova == [SemVolta EXCEPT !.pc = "percorre", !.pendentes = LembretesDevidos]
  <2>1. nova.item = <<>> BY DEF SemVolta
  <2>2. rodada' = [rodada EXCEPT ![r] = nova] /\ UNCHANGED <<lembretes, repetidos>> BY <1>3 DEF Dispara
  <2> HIDE DEF nova
  <2> QED BY <1>2, <2>1, <2>2
<1>4. ASSUME NEW r \in Rodadas, VerificaLembrete(r) PROVE FeitoUmaVez' /\ Numerados' /\ LembreteUnico'
  <2>1. CASE rodada' = [rodada EXCEPT ![r] = SemVolta] /\ UNCHANGED repetidos
    <3>1. SemVolta.item = <<>> /\ UNCHANGED lembretes BY <1>4 DEF SemVolta, VerificaLembrete
    <3> QED BY <1>2, <2>1, <3>1
  <2>2. ASSUME NEW k \in rodada[r].pendentes,
               rodada' = [rodada EXCEPT ![r].pendentes = @ \ {k},
                                        ![r].pc = IF JaLembrado(k) THEN "percorre" ELSE "confirma",
                                        ![r].item = IF JaLembrado(k) THEN <<>> ELSE <<k>>],
               repetidos' = IF \E o \in Rodadas : rodada[o].pc = "confirma" /\ rodada[o].item = <<k>>
                            THEN repetidos \cup {k} ELSE repetidos
        PROVE  FeitoUmaVez' /\ Numerados' /\ LembreteUnico'
    <3>1. lembretes' = lembretes /\ repetidos \subseteq repetidos' BY <1>4, <2>2 DEF VerificaLembrete
    <3>2. rodada[r] \in Volta /\ k \in ChaveDeLembrete BY DEF TypeOKAgenda, Volta
    <3>3. /\ rodada'[r].item = IF JaLembrado(k) THEN <<>> ELSE <<k>>
          /\ \A o \in Rodadas : o # r => rodada'[o] = rodada[o]
      BY <2>2, <3>2 DEF TypeOKAgenda, Volta
    <3>4. \A o \in Rodadas : rodada[o].item = <<k>> => k \in repetidos'
      BY <2>2 DEF TypeOKAgenda
    <3>5. ASSUME NEW o \in Rodadas, NEW c \in ChaveDeLembrete, rodada'[o].item = <<c>>
          PROVE  /\ JaLembrado(c)' => c \in repetidos'
                 /\ \A p \in Rodadas : p # o /\ rodada'[p].item = <<c>> => c \in repetidos'
      <4>0. JaLembrado(c)' <=> JaLembrado(c) BY <3>1 DEF JaLembrado
      <4>1. CASE o = r
        <5>1. ~JaLembrado(k) BY <3>3, <3>5, <4>1
        <5>2. <<c>> = <<k>> BY <3>3, <3>5, <4>1, <5>1
        <5>3. c = k BY <5>2
        <5> QED BY <3>3, <3>4, <4>0, <4>1, <5>1, <5>3
      <4>2. CASE o # r
        <5>1. rodada[o].item = <<c>> BY <3>3, <3>5, <4>2
        <5>2. ASSUME NEW p \in Rodadas, p # o, rodada'[p].item = <<c>> PROVE c \in repetidos'
          <6>1. CASE p = r
            <7>1. c = k BY <3>3, <5>2, <6>1
            <7> QED BY <3>4, <5>1, <7>1
          <6>2. CASE p # r BY <3>1, <3>3, <5>1, <5>2, <6>2 DEF FeitoUmaVez
          <6> QED BY <6>1, <6>2
        <5> QED BY <3>1, <4>0, <5>1, <5>2 DEF FeitoUmaVez
      <4> QED BY <4>1, <4>2
    <3> QED BY <3>1, <3>5 DEF FeitoUmaVez, Numerados, LembreteUnico
  <2> QED BY <1>4, <2>1, <2>2 DEF VerificaLembrete
<1>5. ASSUME NEW r \in Rodadas, ConfirmaLembrete(r) PROVE FeitoUmaVez' /\ Numerados' /\ LembreteUnico'
  <2>1. PICK k \in ChaveDeLembrete : rodada[r].item = <<k>>
    BY <1>5 DEF ConfirmaLembrete, TypeOKAgenda, Volta
  <2> DEFINE novo == [n |-> Cardinality(lembretes) + 1, id |-> k.id, hora |-> k.hora, dono |-> k.dono]
  <2>2. lembretes' = lembretes \cup {novo} /\ repetidos' = repetidos
    BY <1>5, <2>1 DEF ConfirmaLembrete
  <2>3. rodada'[r].item = <<>> /\ \A o \in Rodadas : o # r => rodada'[o] = rodada[o]
    BY <1>5 DEF ConfirmaLembrete, TypeOKAgenda, Volta
  <2>4. Cardinality(lembretes) \in Nat /\ novo \notin lembretes
    BY FS_CardinalityType DEF TypeOKAgenda, Numerados, Lembrete
  <2>5. Cardinality(lembretes') = Cardinality(lembretes) + 1
    BY <2>2, <2>4, FS_AddElement DEF TypeOKAgenda
  <2>6. k = [id |-> k.id, hora |-> k.hora, dono |-> k.dono] BY DEF ChaveDeLembrete
  <2>7. JaLembrado(k) => k \in repetidos BY <2>1 DEF FeitoUmaVez
  <2>8. Numerados' BY <2>2, <2>4, <2>5 DEF Numerados, TypeOKAgenda, Lembrete
  <2>9. LembreteUnico'
    <3>1. \A l \in lembretes : l.id # k.id \/ l.hora # k.hora \/ l.dono # k.dono
                               \/ [id |-> l.id, hora |-> l.hora, dono |-> l.dono] \in repetidos
      BY <2>6, <2>7 DEF JaLembrado
    <3>2. \A l \in lembretes : l.id # novo.id \/ l.hora # novo.hora \/ l.dono # novo.dono
                               \/ [id |-> l.id, hora |-> l.hora, dono |-> l.dono] \in repetidos
      BY <3>1
    <3>3. \A l \in lembretes : l.id # novo.id \/ l.hora # novo.hora \/ l.dono # novo.dono
                               \/ [id |-> novo.id, hora |-> novo.hora, dono |-> novo.dono] \in repetidos
      BY <3>2
    <3> HIDE DEF novo
    <3> QED BY <2>2, <3>2, <3>3 DEF LembreteUnico
  <2>10. ASSUME NEW o \in Rodadas, NEW c \in ChaveDeLembrete, rodada'[o].item = <<c>>
         PROVE  /\ JaLembrado(c)' => c \in repetidos'
                /\ \A p \in Rodadas : p # o /\ rodada'[p].item = <<c>> => c \in repetidos'
    <3>1. o # r /\ rodada[o].item = <<c>> BY <2>3, <2>10
    <3>2. JaLembrado(c)' => JaLembrado(c) \/ (c.id = k.id /\ c.hora = k.hora /\ c.dono = k.dono)
      BY <2>2 DEF JaLembrado
    <3>3. c = [id |-> c.id, hora |-> c.hora, dono |-> c.dono] BY DEF ChaveDeLembrete
    <3>4. c.id = k.id /\ c.hora = k.hora /\ c.dono = k.dono => c = k BY <2>6, <3>3
    <3>5. c = k => c \in repetidos BY <2>1, <3>1 DEF FeitoUmaVez
    <3>6. JaLembrado(c) => c \in repetidos BY <3>1 DEF FeitoUmaVez
    <3>7. \A p \in Rodadas : p # o /\ rodada'[p].item = <<c>> => c \in repetidos
      BY <2>3, <3>1 DEF FeitoUmaVez
    <3> QED BY <2>2, <3>2, <3>4, <3>5, <3>6, <3>7
  <2> QED BY <2>8, <2>9, <2>10 DEF FeitoUmaVez
<1>6. ASSUME NEW r \in Rodadas, FalhaLembrete(r) PROVE FeitoUmaVez' /\ Numerados' /\ LembreteUnico'
  <2>1. SemVolta.item = <<>> BY DEF SemVolta
  <2> QED BY <1>2, <1>6, <2>1 DEF FalhaLembrete
<1>7. (\/ \E p \in Solicitacoes :
            \/ \E c \in Compromissos, valor \in [hora : Horas, dono : Donos] :
                  \/ PedeCriacao(p, c, valor)
                  \/ \E mudaHora, mudaDono \in BOOLEAN : PedeMudanca(p, c, mudaHora, mudaDono, valor)
            \/ \E confirma \in BOOLEAN : ConfereConflito(p, confirma)
            \/ GravaCompromisso(p)
       \/ \E c \in Compromissos : RemoveCompromisso(c)
       \/ PassaMinuto
       \/ UNCHANGED varsAgenda)
      => UNCHANGED <<rodada, lembretes, repetidos>>
  BY DEF PedeCriacao, PedeMudanca, ConfereConflito, GravaCompromisso, RemoveCompromisso, PassaMinuto, varsAgenda
<1> QED BY <1>1, <1>3, <1>4, <1>5, <1>6, <1>7 DEF NextAgenda

\* What a reminder is due for has it, awaits it in a round, or is excused.
Atendida(k) ==
    \/ k \in tardios \cup perdidos
    \/ \E l \in lembretes : [id |-> l.id, hora |-> l.hora, dono |-> l.dono] = k
    \/ \E r \in Rodadas : k \in rodada[r].pendentes \/ rodada[r].item = <<k>>
Alcancados == \A c \in Marcados : SemMaisRodada(agenda[c].hora) => Atendida(Chave(c))

\* A reminder that is awaited is made, or its failure is known.
LEMMA ContinuaAtendida ==
    ASSUME TypeOKAgenda, [NextAgenda]_varsAgenda, NEW k \in ChaveDeLembrete,
           SemMaisRodada(k.hora), Atendida(k)
    PROVE  Atendida(k)'
<1>0. /\ k = [id |-> k.id, hora |-> k.hora, dono |-> k.dono]
      /\ JaLembrado(k) => \E l \in lembretes : [id |-> l.id, hora |-> l.hora, dono |-> l.dono] = k
  BY DEF ChaveDeLembrete, JaLembrado
<1>1. tardios \subseteq tardios' /\ perdidos \subseteq perdidos' /\ lembretes \subseteq lembretes'
  BY DEF NextAgenda, varsAgenda, PedeCriacao, PedeMudanca, ConfereConflito, GravaCompromisso,
         RemoveCompromisso, Dispara, VerificaLembrete, ConfirmaLembrete, FalhaLembrete, PassaMinuto
<1>2. ASSUME NEW r \in Rodadas, k \in rodada[r].pendentes \/ rodada[r].item = <<k>>
      PROVE  Atendida(k)'
  <2>0. rodada[r] \in Volta BY DEF TypeOKAgenda
  <2>1. CASE rodada'[r] = rodada[r] BY <1>2, <2>1 DEF Atendida
  <2>2. CASE Dispara(r)
    <3>1. rodada[r].item = <<>> /\ rodada[r].pendentes = {} BY <2>2 DEF Dispara, TypeOKAgenda
    <3> QED BY <1>2, <3>1
  <2>3. CASE VerificaLembrete(r)
    <3>0. rodada[r].item = <<>> BY <2>3 DEF VerificaLembrete, TypeOKAgenda
    <3>1. rodada[r].item = <<>> /\ k \in rodada[r].pendentes BY <1>2, <3>0
    <3>2. PICK c \in rodada[r].pendentes :
               rodada' = [rodada EXCEPT ![r].pendentes = @ \ {c},
                                        ![r].pc = IF JaLembrado(c) THEN "percorre" ELSE "confirma",
                                        ![r].item = IF JaLembrado(c) THEN <<>> ELSE <<c>>]
      BY <2>3, <3>1 DEF VerificaLembrete
    <3>3. /\ rodada'[r].pendentes = rodada[r].pendentes \ {c}
          /\ ~JaLembrado(c) => rodada'[r].item = <<c>>
      BY <2>0, <3>2 DEF TypeOKAgenda, Volta
    <3>4. CASE c = k /\ JaLembrado(k) BY <1>0, <1>1, <3>4 DEF Atendida
    <3>5. CASE c = k /\ ~JaLembrado(k) BY <3>3, <3>5 DEF Atendida
    <3>6. CASE c # k BY <3>1, <3>3, <3>6 DEF Atendida
    <3> QED BY <3>4, <3>5, <3>6
  <2>4. CASE ConfirmaLembrete(r)
    <3>1. rodada'[r].pendentes = rodada[r].pendentes BY <2>0, <2>4 DEF ConfirmaLembrete, TypeOKAgenda, Volta
    <3>2. CASE k \in rodada[r].pendentes BY <3>1, <3>2 DEF Atendida
    <3>3. CASE rodada[r].item = <<k>>
      <4>1. [n |-> Cardinality(lembretes) + 1, id |-> k.id, hora |-> k.hora, dono |-> k.dono] \in lembretes'
        BY <2>4, <3>3 DEF ConfirmaLembrete
      <4> QED BY <1>0, <4>1 DEF Atendida
    <3> QED BY <1>2, <3>2, <3>3
  <2>5. CASE FalhaLembrete(r)
    <3>1. k \in rodada[r].pendentes \cup {rodada[r].item[1]} BY <1>2
    <3>2. k \in perdidos' BY <2>5, <3>1 DEF FalhaLembrete
    <3> QED BY <3>2 DEF Atendida
  <2>6. ASSUME NEW o \in Rodadas, Dispara(o) \/ VerificaLembrete(o) \/ ConfirmaLembrete(o) \/ FalhaLembrete(o)
        PROVE  Atendida(k)'
    <3>1. CASE o = r BY <2>2, <2>3, <2>4, <2>5, <2>6, <3>1
    <3>2. CASE o # r
      <4>1. rodada'[r] = rodada[r]
        BY <2>6, <3>2 DEF Dispara, VerificaLembrete, ConfirmaLembrete, FalhaLembrete, TypeOKAgenda
      <4> QED BY <2>1, <4>1
    <3> QED BY <3>1, <3>2
  <2>7. CASE UNCHANGED rodada BY <2>1, <2>7
  <2> QED BY <2>6, <2>7 DEF NextAgenda, varsAgenda, PedeCriacao, PedeMudanca, ConfereConflito,
                            GravaCompromisso, RemoveCompromisso, PassaMinuto
<1>3. CASE k \in tardios \cup perdidos BY <1>1, <1>3 DEF Atendida
<1>4. CASE \E l \in lembretes : [id |-> l.id, hora |-> l.hora, dono |-> l.dono] = k
  BY <1>1, <1>4 DEF Atendida
<1> QED BY <1>2, <1>3, <1>4 DEF Atendida

\* Every appointment whose round has begun is accounted for.
LEMMA AlcancadosMantem ==
    ASSUME TypeOKAgenda, Alcancados, [NextAgenda]_varsAgenda PROVE Alcancados'
<1> SUFFICES ASSUME NEW c \in Marcados', SemMaisRodada(agenda[c].hora)' PROVE Atendida(Chave(c))'
  BY DEF Alcancados
<1>1. ASSUME c \in Marcados, agenda'[c] = agenda[c], SemMaisRodada(agenda[c].hora) PROVE Atendida(Chave(c))'
  <2>1. Chave(c) \in ChaveDeLembrete /\ Chave(c).hora = agenda[c].hora /\ Chave(c)' = Chave(c)
    BY <1>1, ChavesDosMarcados DEF Chave
  <2>2. Atendida(Chave(c)) BY <1>1 DEF Alcancados
  <2>3. PICK k \in ChaveDeLembrete : k = Chave(c) BY <2>1
  <2>4. Atendida(k) BY <2>2, <2>3
  <2>5. SemMaisRodada(k.hora) BY <1>1, <2>1, <2>3
  <2>6. Atendida(k)' BY <2>4, <2>5, ContinuaAtendida
  <2>7. Chave(c)' = k BY <2>1, <2>3
  <2> QED BY <2>6, <2>7 DEF Atendida, Chave
<1>2. ASSUME UNCHANGED <<agenda, minuto, disparada>> PROVE Atendida(Chave(c))'
  BY <1>1, <1>2 DEF Marcados, SemMaisRodada
<1>3. ASSUME NEW p \in Solicitacoes, GravaCompromisso(p) PROVE Atendida(Chave(c))'
  <2> DEFINE q == solicitacao[p]
  <2>1. q.id \in Compromissos /\ agenda' = [agenda EXCEPT ![q.id] = q.valor] /\ UNCHANGED <<minuto, disparada>>
    BY <1>3 DEF GravaCompromisso, TypeOKAgenda
  <2>2. CASE c # q.id
    <3>1. agenda'[c] = agenda[c] /\ c \in Marcados BY <2>1, <2>2 DEF Marcados, TypeOKAgenda
    <3> QED BY <1>1, <2>1, <3>1 DEF SemMaisRodada
  <2>3. CASE c = q.id
    <3>1. agenda'[c] = q.valor BY <2>1, <2>3 DEF TypeOKAgenda
    <3>2. SemMaisRodada(q.valor.hora) BY <2>1, <3>1 DEF SemMaisRodada
    <3>3. [id |-> q.id, hora |-> q.valor.hora, dono |-> q.valor.dono] \in tardios'
      BY <1>3, <3>2 DEF GravaCompromisso
    <3> QED BY <2>3, <3>1, <3>3 DEF Atendida, Chave
  <2> QED BY <2>2, <2>3
<1>4. ASSUME NEW d \in Compromissos, RemoveCompromisso(d) PROVE Atendida(Chave(c))'
  <2>1. c \in Marcados /\ agenda'[c] = agenda[c] /\ UNCHANGED <<minuto, disparada>>
    BY <1>4 DEF RemoveCompromisso, Marcados, TypeOKAgenda
  <2> QED BY <1>1, <2>1 DEF SemMaisRodada
<1>5. ASSUME NEW r \in Rodadas, Dispara(r) PROVE Atendida(Chave(c))'
  <2>1. c \in Marcados /\ agenda' = agenda /\ minuto' = minuto /\ disparada' = minuto /\ lembretes' = lembretes
    BY <1>5 DEF Dispara, Marcados
  <2>2. CASE SemMaisRodada(agenda[c].hora) BY <1>1, <2>1, <2>2
  <2>3. CASE ~SemMaisRodada(agenda[c].hora)
    <3>1. agenda[c].hora = minuto + 1 /\ minuto \in Nat /\ Antecedencia \in Nat \ {0}
      BY <2>1, <2>3, AgendaAssumption DEF SemMaisRodada, TypeOKAgenda, Marcados, Compromisso
    <3>2. Chave(c)' = Chave(c) /\ Chave(c) \in ChaveDeLembrete /\ Chave(c).hora = minuto + 1
      BY <2>1, <3>1, ChavesDosMarcados DEF Chave
    <3>3. CASE JaLembrado(Chave(c))
      <4>1. \E l \in lembretes' : [id |-> l.id, hora |-> l.hora, dono |-> l.dono] = Chave(c)
        BY <2>1, <3>3 DEF JaLembrado, Chave
      <4> QED BY <3>2, <4>1 DEF Atendida
    <3>4. CASE ~JaLembrado(Chave(c))
      <4>1. Chave(c).hora > minuto /\ Chave(c).hora <= minuto + Antecedencia BY <3>1, <3>2
      <4>2. Chave(c) \in LembretesDevidos BY <2>1, <3>4, <4>1 DEF LembretesDevidos
      <4>3. rodada'[r].pendentes = LembretesDevidos BY <1>5 DEF Dispara, TypeOKAgenda, SemVolta
      <4> QED BY <3>2, <4>2, <4>3 DEF Atendida
    <3> QED BY <3>3, <3>4
  <2> QED BY <2>2, <2>3
<1>6. CASE PassaMinuto
  <2>1. c \in Marcados /\ agenda' = agenda BY <1>6 DEF PassaMinuto, Marcados
  <2>2. agenda[c].hora \in Nat BY <2>1 DEF TypeOKAgenda, Marcados, Compromisso
  <2>3. SemMaisRodada(agenda[c].hora)
    BY <1>6, <2>1, <2>2 DEF PassaMinuto, SemMaisRodada, TypeOKAgenda
  <2> QED BY <1>1, <2>1, <2>3
<1> QED BY <1>2, <1>3, <1>4, <1>5, <1>6 DEF NextAgenda, varsAgenda, PedeCriacao, PedeMudanca, ConfereConflito,
        VerificaLembrete, ConfirmaLembrete, FalhaLembrete

-----------------------------------------------------------------------------
IndAgenda == /\ TypeOKAgenda /\ ConflitoConsentido /\ Conferidos
             /\ FeitoUmaVez /\ Numerados /\ LembreteUnico /\ Alcancados

LEMMA IndutivoDaAgenda == SpecAgenda => []IndAgenda
<1>1. InitAgenda => IndAgenda
  <2> SUFFICES ASSUME InitAgenda PROVE IndAgenda OBVIOUS
  <2>1. TypeOKAgenda BY TipoInicialDaAgenda
  <2>2. Marcados = {} BY DEF InitAgenda, Marcados
  <2>3. \A p \in Solicitacoes : solicitacao[p].pc = "fora" BY DEF InitAgenda, Ocioso
  <2>4. \A r \in Rodadas : rodada[r].item = <<>> BY DEF InitAgenda, SemVolta
  <2>5. lembretes = {} BY DEF InitAgenda
  <2>6. ConflitoConsentido /\ Conferidos /\ Alcancados
    BY <2>2, <2>3 DEF ConflitoConsentido, Conferidos, Alcancados
  <2>7. FeitoUmaVez
    <3>1. ASSUME NEW r \in Rodadas, NEW k \in ChaveDeLembrete PROVE rodada[r].item # <<k>>
      <4>1. rodada[r].item = <<>> /\ <<k>> # <<>> BY <2>4
      <4> QED BY <4>1
    <3> QED BY <3>1 DEF FeitoUmaVez
  <2>8. Numerados /\ LembreteUnico BY <2>5 DEF Numerados, LembreteUnico
  <2> QED BY <2>1, <2>6, <2>7, <2>8 DEF IndAgenda
<1>2. IndAgenda /\ [NextAgenda]_varsAgenda => IndAgenda'
  BY TipoPreservadoDaAgenda, ConflitosMantem, LembretesMantem, AlcancadosMantem DEF IndAgenda
<1> QED BY <1>1, <1>2, PTL DEF SpecAgenda

(****************************************************************************)
(* Appointments, requests, rounds and reminders are well formed, for any    *)
(* people, appointments, hours and requests: a round holds an item exactly  *)
(* while it confirms it, and the reminders made are finitely many.          *)
(****************************************************************************)
THEOREM TipoDaAgenda == SpecAgenda => []TypeOKAgenda
<1>1. IndAgenda => TypeOKAgenda BY DEF IndAgenda
<1> QED BY <1>1, IndutivoDaAgenda, PTL

(****************************************************************************)
(* The requests of schedules.service and the rounds of its cron, however    *)
(* they interleave: two appointments of one owner at one hour were accepted *)
(* by somebody or were checked before either was written; no reminder is    *)
(* made twice but by two rounds at once; and nobody's appointment goes by   *)
(* unreminded, but for one written too late and a failure of the last       *)
(* round.                                                                   *)
(****************************************************************************)
THEOREM AgendaSempreConfere == SpecAgenda => []AgendaConfere
<1>1. IndAgenda => AgendaConfere
  <2> SUFFICES ASSUME IndAgenda PROVE TodosLembrados BY DEF IndAgenda, AgendaConfere
  <2> SUFFICES ASSUME NEW c \in Marcados, ~(agenda[c].hora > minuto)
               PROVE  Atendida(Chave(c))
    BY DEF TodosLembrados, Atendida
  <2>1. agenda[c].hora <= minuto BY DEF IndAgenda, TypeOKAgenda, Marcados, Compromisso
  <2> QED BY <2>1 DEF IndAgenda, Alcancados, SemMaisRodada
<1> QED BY <1>1, IndutivoDaAgenda, PTL

--------------------------------------------------------------------------------
(* The conversation: types *)

\* A conversation has two sides.
LEMMA OsDoisLados ==
    \A u \in Lados : /\ Outro(u) \in Lados /\ Outro(u) # u
                     /\ \A v \in Lados : v # u => v = Outro(u)
<1> SUFFICES ASSUME NEW u \in Lados
             PROVE  \E o : Lados \ {u} = {o}
  BY DEF Outro
<1>1. IsFiniteSet(Lados \ {u}) /\ Cardinality(Lados \ {u}) = 1
  BY FS_RemoveElement, ChatInternoAssumption
<1> QED BY <1>1, FS_Singleton

Envio == [pc : {"fora", "procura", "insere", "grava", "confirma", "avisa"}, autor : Lados \cup {Livre.autor},
          abriu : BOOLEAN, hora : Nat]
MensagemInterna == [de : Lados, hora : Nat, lida : BOOLEAN]
TypeOKChatInterno ==
    /\ aberta \in Nat /\ last_message_at \in Nat /\ relogio \in Nat
    /\ envio \in [Envios -> Envio]
    /\ \A e \in Envios : envio[e].autor \in Lados
    /\ mensagens \in Seq(MensagemInterna)
    /\ leitura \in [Lados -> BOOLEAN] /\ badge \in [Lados -> Nat]
    /\ perdidas \subseteq Nat /\ cruzou \subseteq Lados
    /\ \A u \in Lados : IsFiniteSet(AvisosPara(u))

LEMMA LivreEhEnvio == Livre \in Envio /\ Livre.pc = "fora" /\ Livre.autor \in Lados /\ ~Livre.abriu
<1>1. \E u : u \in Lados BY ChatInternoAssumption, FS_EmptySet
<1>2. (CHOOSE u \in Lados : TRUE) \in Lados BY <1>1
<1> QED BY <1>2 DEF Livre, Envio

\* What a request changes of itself, when it has no notice to send before or after.
LEMMA AvisosIguais ==
    ASSUME TypeOKChatInterno, NEW e \in Envios, envio[e].pc # "avisa", NEW u \in Lados,
           \E v : v.pc # "avisa" /\ envio' = [envio EXCEPT ![e] = v]
    PROVE  AvisosPara(u)' = AvisosPara(u)
<1>1. envio'[e].pc # "avisa" /\ \A o \in Envios : o # e => envio'[o] = envio[o]
  BY DEF TypeOKChatInterno
<1> QED BY <1>1 DEF AvisosPara

LEMMA PorLerFinito ==
    ASSUME TypeOKChatInterno, NEW u
    PROVE  IsFiniteSet(PorLer(u)) /\ Cardinality(PorLer(u)) \in Nat /\ PorLer(u) \subseteq 1 .. Len(mensagens)
<1>1. DOMAIN mensagens = 1 .. Len(mensagens) /\ Len(mensagens) \in Nat
  BY LenProperties DEF TypeOKChatInterno
<1>2. IsFiniteSet(1 .. Len(mensagens)) BY <1>1, FS_Interval
<1> QED BY <1>1, <1>2, FS_Subset, FS_CardinalityType DEF PorLer

-----------------------------------------------------------------------------
\* The opening of the conversation: one request at a time, and before every message.
Abertura ==
    /\ aberta <= relogio
    /\ \A e \in Envios :
          /\ envio[e].hora <= relogio
          /\ envio[e].pc \in {"grava", "confirma"} => envio[e].abriu \/ aberta # 0
          /\ envio[e].abriu => aberta = 0 /\ envio[e].pc \in {"grava", "confirma"}
          /\ envio[e].pc = "insere" /\ aberta # 0 => envio[e].hora < aberta
          /\ \A o \in Envios : envio[e].abriu /\ envio[o].abriu => o = e

\* The count of a reader whose readings and messages did not cross.
Contagem ==
    \A u \in Lados \ cruzou :
        IF leitura[u] THEN PorLer(u) = {} /\ AvisosPara(u) = {}
        ELSE badge[u] + Cardinality(AvisosPara(u)) = Cardinality(PorLer(u))

IndChatInterno == TypeOKChatInterno /\ Abertura /\ ConversaInteira /\ Contagem

LEMMA InicioDoChatInterno == InitChatInterno => IndChatInterno
<1> SUFFICES ASSUME InitChatInterno PROVE IndChatInterno OBVIOUS
<1>1. /\ \A e \in Envios : envio[e] = Livre
      /\ Livre.hora = 0 /\ mensagens = <<>> /\ cruzou = {} /\ perdidas = {}
  BY DEF InitChatInterno, Livre
<1>2. \A u \in Lados : AvisosPara(u) = {} /\ PorLer(u) = {}
  BY <1>1, LivreEhEnvio DEF AvisosPara, PorLer
<1>3. IsFiniteSet({}) /\ Cardinality({}) = 0 BY FS_EmptySet
<1>4. TypeOKChatInterno BY <1>1, <1>2, <1>3, LivreEhEnvio, EmptySeq DEF InitChatInterno, TypeOKChatInterno
<1>5. Abertura BY <1>1, LivreEhEnvio DEF InitChatInterno, Abertura
<1>6. ConversaInteira BY <1>1 DEF InitChatInterno, ConversaInteira
<1>7. \A u \in Lados : /\ leitura[u] = FALSE /\ badge[u] = 0
                       /\ Cardinality(AvisosPara(u)) = 0 /\ Cardinality(PorLer(u)) = 0
  BY <1>2, <1>3 DEF InitChatInterno
<1>8. Contagem BY <1>7 DEF Contagem
<1> QED BY <1>4, <1>5, <1>6, <1>8 DEF IndChatInterno

\* The steps that change nothing but the request, and perhaps what the index refused.
LEMMA PassosDoEnvio ==
    ASSUME IndChatInterno, NEW e \in Envios, NEW v \in Envio, v.autor \in Lados,
           envio' = [envio EXCEPT ![e] = v], envio[e].pc # "avisa", v.pc # "avisa",
           mensagens' = mensagens, leitura' = leitura, badge' = badge, cruzou' = cruzou,
           aberta' = aberta, last_message_at' = last_message_at,
           relogio' \in Nat, perdidas' \subseteq Nat
    PROVE  TypeOKChatInterno' /\ Contagem'
<1>1. \A u \in Lados : AvisosPara(u)' = AvisosPara(u) /\ PorLer(u)' = PorLer(u)
  BY AvisosIguais DEF IndChatInterno, PorLer
<1>2. TypeOKChatInterno'
  BY <1>1 DEF IndChatInterno, TypeOKChatInterno
<1>3. Contagem' BY <1>1 DEF IndChatInterno, Contagem
<1> QED BY <1>2, <1>3

LEMMA IndutivoComecaEnvio ==
    ASSUME IndChatInterno, NEW e \in Envios, NEW u \in Lados, ComecaEnvio(e, u) PROVE IndChatInterno'
<1> DEFINE v == [pc |-> "procura", autor |-> u, abriu |-> FALSE, hora |-> relogio + 1]
<1>1. /\ v \in Envio /\ v.autor \in Lados /\ v.pc = "procura" /\ ~v.abriu /\ v.hora = relogio + 1
  BY DEF Envio, IndChatInterno, TypeOKChatInterno
<1>2. /\ envio[e].pc = "fora" /\ envio' = [envio EXCEPT ![e] = v] /\ relogio' = relogio + 1
      /\ mensagens' = mensagens /\ leitura' = leitura /\ badge' = badge /\ cruzou' = cruzou
      /\ aberta' = aberta /\ last_message_at' = last_message_at /\ perdidas' = perdidas
  BY DEF ComecaEnvio
<1>3. relogio \in Nat /\ perdidas \subseteq Nat /\ aberta \in Nat
      /\ \A o \in Envios : envio[o] \in Envio
  BY DEF IndChatInterno, TypeOKChatInterno
<1> HIDE DEF v
<1>4. TypeOKChatInterno' /\ Contagem'
  <2>1. envio[e].pc # "avisa" /\ v.pc # "avisa" /\ relogio' \in Nat /\ perdidas' \subseteq Nat
    BY <1>1, <1>2, <1>3
  <2> QED BY <1>1, <1>2, <2>1, PassosDoEnvio
<1>5. \A o \in Envios : envio'[o] = IF o = e THEN v ELSE envio[o]
  BY <1>2 DEF IndChatInterno, TypeOKChatInterno
<1>6. Abertura'
  BY <1>1, <1>2, <1>3, <1>5 DEF IndChatInterno, Abertura, Envio
<1>7. ConversaInteira' BY <1>2 DEF IndChatInterno, ConversaInteira
<1> QED BY <1>4, <1>6, <1>7 DEF IndChatInterno

LEMMA IndutivoPassos ==
    ASSUME IndChatInterno, NEW e \in Envios,
           ProcuraConversa(e) \/ InsereConversa(e) \/ GravaMensagem(e) \/ FalhaEnvio(e)
    PROVE  IndChatInterno'
<1>0. /\ envio[e] \in Envio /\ envio[e].autor \in Lados /\ relogio \in Nat /\ aberta \in Nat /\ perdidas \subseteq Nat
      /\ \A o \in Envios : envio[o] \in Envio
  BY DEF IndChatInterno, TypeOKChatInterno
<1>1. /\ mensagens' = mensagens /\ leitura' = leitura /\ badge' = badge /\ cruzou' = cruzou
      /\ aberta' = aberta /\ last_message_at' = last_message_at /\ relogio' = relogio
      /\ envio[e].pc # "avisa"
  BY DEF ProcuraConversa, InsereConversa, GravaMensagem, FalhaEnvio, Passa
<1>2. ASSUME NEW v \in Envio, v.autor \in Lados, v.pc # "avisa", envio' = [envio EXCEPT ![e] = v],
             v.hora <= relogio, perdidas' \subseteq Nat,
             \A h \in perdidas' \ perdidas : aberta # 0 /\ h < aberta,
             v.pc \in {"grava", "confirma"} => v.abriu \/ aberta # 0,
             v.abriu => aberta = 0 /\ v.pc \in {"grava", "confirma"}
                        /\ \A o \in Envios : envio[o].abriu => o = e,
             v.pc = "insere" => aberta = 0
      PROVE  IndChatInterno'
  <2>1. relogio' \in Nat BY <1>0, <1>1
  <2>0. TypeOKChatInterno' /\ Contagem' BY <1>1, <1>2, <2>1, PassosDoEnvio
  <2>2. \A o \in Envios : envio'[o] = IF o = e THEN v ELSE envio[o]
    BY <1>2 DEF IndChatInterno, TypeOKChatInterno
  <2>3. Abertura' BY <1>0, <1>1, <1>2, <2>2 DEF IndChatInterno, Abertura, Envio
  <2>4. ConversaInteira' BY <1>1, <1>2 DEF IndChatInterno, ConversaInteira
  <2> QED BY <2>0, <2>3, <2>4 DEF IndChatInterno
<1>3. envio[e].hora <= relogio /\ (envio[e].abriu => aberta = 0)
      /\ \A o \in Envios : envio[e].abriu /\ envio[o].abriu => o = e
  BY DEF IndChatInterno, Abertura
<1>4. ASSUME envio' = [envio EXCEPT ![e] = Livre], perdidas' \subseteq Nat,
             \A h \in perdidas' \ perdidas : aberta # 0 /\ h < aberta
      PROVE  IndChatInterno'
  <2>1. PICK v \in Envio : v = Livre BY LivreEhEnvio
  <2>2. v.hora = 0 /\ v.pc = "fora" /\ v.autor \in Lados /\ ~v.abriu BY <2>1, LivreEhEnvio DEF Livre
  <2>3. envio' = [envio EXCEPT ![e] = v] /\ v.hora <= relogio /\ v.pc # "avisa" /\ v.autor \in Lados
    BY <1>0, <1>4, <2>1, <2>2
  <2>4. /\ v.pc \in {"grava", "confirma"} => v.abriu \/ aberta # 0
        /\ v.abriu => aberta = 0 /\ v.pc \in {"grava", "confirma"}
                      /\ \A o \in Envios : envio[o].abriu => o = e
        /\ v.pc = "insere" => aberta = 0
    BY <2>2
  <2> QED BY <1>2, <1>4, <2>3, <2>4
<1>5. CASE ProcuraConversa(e)
  <2> DEFINE v == [envio[e] EXCEPT !.pc = IF Achou(e) THEN "grava" ELSE "insere"]
  <2>1. /\ v \in Envio /\ v.autor = envio[e].autor /\ v.hora = envio[e].hora /\ v.abriu = envio[e].abriu
        /\ v.pc = IF aberta # 0 THEN "grava" ELSE "insere"
    BY <1>0 DEF Envio, Achou
  <2>2. ~envio[e].abriu BY <1>5 DEF ProcuraConversa, IndChatInterno, Abertura
  <2>3. envio' = [envio EXCEPT ![e] = v] /\ perdidas' = perdidas
    BY <1>5 DEF ProcuraConversa, Passa, IndChatInterno, TypeOKChatInterno
  <2> HIDE DEF v
  <2> QED BY <1>0, <1>2, <1>3, <2>1, <2>2, <2>3
<1>6. CASE InsereConversa(e)
  <2>1. CASE aberta = 0
    <3> DEFINE v == [envio[e] EXCEPT !.pc = "grava", !.abriu = TRUE]
    <3>1. /\ v \in Envio /\ v.autor = envio[e].autor /\ v.hora = envio[e].hora /\ v.abriu
          /\ v.pc = "grava"
      BY <1>0 DEF Envio
    <3>2. envio' = [envio EXCEPT ![e] = v] /\ perdidas' = perdidas
      BY <1>6, <2>1 DEF InsereConversa, IndChatInterno, TypeOKChatInterno
    <3>3. \A o \in Envios : ~envio[o].abriu BY <1>6 DEF InsereConversa
    <3> HIDE DEF v
    <3> QED BY <1>0, <1>2, <1>3, <2>1, <3>1, <3>2, <3>3
  <2>2. CASE aberta # 0
    <3>1. envio' = [envio EXCEPT ![e] = Livre] /\ perdidas' = perdidas \cup {envio[e].hora}
      BY <1>6, <2>2 DEF InsereConversa
    <3>2. envio[e].hora < aberta /\ envio[e].hora \in Nat
      BY <1>0, <1>6, <2>2 DEF InsereConversa, IndChatInterno, Abertura, Envio
    <3> QED BY <1>0, <1>4, <2>2, <3>1, <3>2
  <2> QED BY <2>1, <2>2
<1>7. CASE GravaMensagem(e)
  <2> DEFINE v == [envio[e] EXCEPT !.pc = "confirma"]
  <2>1. /\ v \in Envio /\ v.autor = envio[e].autor /\ v.hora = envio[e].hora /\ v.abriu = envio[e].abriu
        /\ v.pc = "confirma"
    BY <1>0 DEF Envio
  <2>2. envio' = [envio EXCEPT ![e] = v] /\ perdidas' = perdidas /\ envio[e].pc = "grava"
    BY <1>7 DEF GravaMensagem, Passa, IndChatInterno, TypeOKChatInterno
  <2>3. envio[e].abriu \/ aberta # 0 BY <2>2 DEF IndChatInterno, Abertura
  <2> HIDE DEF v
  <2> QED BY <1>0, <1>2, <1>3, <2>1, <2>2, <2>3
<1>8. CASE FalhaEnvio(e)
  <2>1. envio' = [envio EXCEPT ![e] = Livre] /\ perdidas' = perdidas BY <1>8 DEF FalhaEnvio
  <2> QED BY <1>0, <1>4, <2>1
<1> QED BY <1>5, <1>6, <1>7, <1>8

LEMMA IndutivoConfirmaEnvio ==
    ASSUME IndChatInterno, NEW e \in Envios, ConfirmaEnvio(e) PROVE IndChatInterno'
<1> DEFINE q == envio[e]
           v == [q EXCEPT !.pc = "avisa", !.abriu = FALSE]
           nova == [de |-> q.autor, hora |-> q.hora, lida |-> FALSE]
<1>0. /\ q \in Envio /\ q.autor \in Lados /\ relogio \in Nat /\ aberta \in Nat /\ perdidas \subseteq Nat
      /\ \A o \in Envios : envio[o] \in Envio
      /\ mensagens \in Seq(MensagemInterna) /\ Len(mensagens) \in Nat
      /\ cruzou \subseteq Lados
  BY LenProperties DEF IndChatInterno, TypeOKChatInterno
<1>1. /\ q.pc = "confirma" /\ relogio' = relogio + 1
      /\ aberta' = (IF q.abriu THEN relogio + 1 ELSE aberta)
      /\ mensagens' = Append(mensagens, nova) /\ last_message_at' = q.hora
      /\ envio' = [envio EXCEPT ![e] = v]
      /\ cruzou' = (IF leitura[Outro(q.autor)] THEN cruzou \cup {Outro(q.autor)} ELSE cruzou)
      /\ UNCHANGED <<leitura, badge, perdidas>>
  BY DEF ConfirmaEnvio, IndChatInterno, TypeOKChatInterno
<1>2. v \in Envio /\ v.pc = "avisa" /\ v.autor = q.autor /\ v.hora = q.hora /\ ~v.abriu
  BY <1>0 DEF Envio
<1>3. nova \in MensagemInterna /\ nova.de = q.autor /\ nova.hora = q.hora /\ ~nova.lida /\ q.hora \in Nat
  BY <1>0 DEF Envio, MensagemInterna
<1> HIDE DEF v, nova
<1>4. /\ mensagens' \in Seq(MensagemInterna) /\ Len(mensagens') = Len(mensagens) + 1
      /\ \A i \in 1 .. Len(mensagens) : mensagens'[i] = mensagens[i]
      /\ mensagens'[Len(mensagens) + 1] = nova
      /\ DOMAIN mensagens' = 1 .. (Len(mensagens) + 1) /\ DOMAIN mensagens = 1 .. Len(mensagens)
  BY <1>0, <1>1, <1>3, AppendProperties, LenProperties
<1>5. \A o \in Envios : envio'[o] = IF o = e THEN v ELSE envio[o]
  BY <1>1 DEF IndChatInterno, TypeOKChatInterno
<1>6. \A u \in Lados : PorLer(u)' = PorLer(u) \cup (IF u # q.autor THEN {Len(mensagens) + 1} ELSE {})
  BY <1>0, <1>3, <1>4 DEF PorLer
<1>7. \A u \in Lados : /\ e \notin AvisosPara(u) /\ IsFiniteSet(AvisosPara(u))
                       /\ AvisosPara(u)' = AvisosPara(u) \cup (IF u # q.autor THEN {e} ELSE {})
  BY <1>1, <1>2, <1>5 DEF AvisosPara, IndChatInterno, TypeOKChatInterno
<1>8. TypeOKChatInterno'
  <2>1. \A u \in Lados : IsFiniteSet(AvisosPara(u) \cup {e}) BY <1>7, FS_AddElement
  <2>2. cruzou' \subseteq Lados BY <1>0, <1>1, OsDoisLados
  <2>3. \A u \in Lados : IsFiniteSet(AvisosPara(u)')
    <3> SUFFICES ASSUME NEW u \in Lados PROVE IsFiniteSet(AvisosPara(u)') OBVIOUS
    <3>1. AvisosPara(u)' = AvisosPara(u) \cup {e} \/ AvisosPara(u)' = AvisosPara(u) BY <1>7
    <3> QED BY <1>7, <2>1, <3>1
  <2> QED BY <1>0, <1>1, <1>2, <1>3, <1>4, <1>5, <2>2, <2>3 DEF TypeOKChatInterno, IndChatInterno
<1>9. Abertura'
  <2>1. q.abriu \/ aberta # 0 BY <1>1 DEF IndChatInterno, Abertura
  <2>2. aberta' # 0 /\ aberta' <= relogio' BY <1>0, <1>1, <2>1 DEF IndChatInterno, Abertura
  <2>3. \A o \in Envios \ {e} : ~envio[o].abriu
    <3>1. CASE q.abriu BY <3>1 DEF IndChatInterno, Abertura
    <3>2. CASE ~q.abriu BY <2>1, <3>2 DEF IndChatInterno, Abertura
    <3> QED BY <3>1, <3>2
  <2>4. \A o \in Envios : envio[o].hora <= relogio /\ envio[o].hora \in Nat
    BY <1>0 DEF IndChatInterno, Abertura, Envio
  <2>5. \A o \in Envios : envio[o].pc = "insere" => envio[o].hora < aberta'
    BY <1>0, <1>1, <2>1, <2>4 DEF IndChatInterno, Abertura
  <2> QED BY <1>0, <1>1, <1>2, <1>5, <2>2, <2>3, <2>4, <2>5 DEF Abertura
<1>10. ConversaInteira'
  <2>1. q.abriu \/ aberta # 0 BY <1>1 DEF IndChatInterno, Abertura
  <2>2. aberta' # 0 /\ aberta' >= aberta BY <1>0, <1>1, <2>1 DEF IndChatInterno, Abertura
  <2>3. mensagens' # <<>> BY <1>0, <1>4
  <2>4. \A h \in perdidas : h \in Nat /\ aberta # 0 /\ h < aberta
    BY <1>0 DEF IndChatInterno, ConversaInteira
  <2>5. \A h \in perdidas' : aberta' # 0 /\ h < aberta' BY <1>0, <1>1, <2>1, <2>2, <2>4
  <2>6. last_message_at' = mensagens'[Len(mensagens')].hora BY <1>1, <1>3, <1>4
  <2> QED BY <2>2, <2>3, <2>5, <2>6 DEF ConversaInteira
<1>11. Contagem'
  <2> SUFFICES ASSUME NEW u \in Lados \ cruzou'
               PROVE  IF leitura[u] THEN PorLer(u)' = {} /\ AvisosPara(u)' = {}
                      ELSE badge[u] + Cardinality(AvisosPara(u)') = Cardinality(PorLer(u)')
    BY <1>1 DEF Contagem
  <2>1. u \notin cruzou BY <1>1
  <2>2. CASE u = q.autor
    <3>1. PorLer(u)' = PorLer(u) /\ AvisosPara(u)' = AvisosPara(u) BY <1>6, <1>7, <2>2
    <3> QED BY <2>1, <3>1 DEF IndChatInterno, Contagem
  <2>3. CASE u # q.autor
    <3>1. u = Outro(q.autor) /\ ~leitura[u] BY <1>0, <1>1, <2>3, OsDoisLados
    <3>2. badge[u] + Cardinality(AvisosPara(u)) = Cardinality(PorLer(u))
      BY <2>1, <3>1 DEF IndChatInterno, Contagem
    <3>3. Cardinality(AvisosPara(u)') = Cardinality(AvisosPara(u)) + 1
      BY <1>7, <2>3, FS_AddElement
    <3>4. IsFiniteSet(PorLer(u)) /\ Len(mensagens) + 1 \notin PorLer(u)
      BY <1>0, PorLerFinito DEF IndChatInterno
    <3>5. Cardinality(PorLer(u)') = Cardinality(PorLer(u)) + 1
      BY <1>6, <2>3, <3>4, FS_AddElement
    <3>6. badge[u] \in Nat /\ Cardinality(AvisosPara(u)) \in Nat /\ Cardinality(PorLer(u)) \in Nat
      BY <1>7, PorLerFinito, FS_CardinalityType DEF IndChatInterno, TypeOKChatInterno
    <3> QED BY <3>1, <3>2, <3>3, <3>5, <3>6
  <2> QED BY <2>2, <2>3
<1> QED BY <1>8, <1>9, <1>10, <1>11 DEF IndChatInterno

LEMMA IndutivoAvisaMensagem ==
    ASSUME IndChatInterno, NEW e \in Envios, AvisaMensagem(e) PROVE IndChatInterno'
<1> DEFINE d == Outro(envio[e].autor)
<1>0. /\ envio[e].autor \in Lados /\ badge \in [Lados -> Nat] /\ relogio \in Nat
      /\ \A u \in Lados : IsFiniteSet(AvisosPara(u))
  BY DEF IndChatInterno, TypeOKChatInterno
<1>1. /\ envio[e].pc = "avisa" /\ badge' = [badge EXCEPT ![d] = @ + 1]
      /\ envio' = [envio EXCEPT ![e] = Livre]
      /\ UNCHANGED <<aberta, mensagens, last_message_at, leitura, relogio, perdidas, cruzou>>
  BY DEF AvisaMensagem
<1>2. d \in Lados /\ d # envio[e].autor /\ \A u \in Lados : u # envio[e].autor => u = d
  BY <1>0, OsDoisLados
<1> HIDE DEF d
<1>3. \A o \in Envios : envio'[o] = IF o = e THEN Livre ELSE envio[o]
  BY <1>1 DEF IndChatInterno, TypeOKChatInterno
<1>4. \A u \in Lados : /\ PorLer(u)' = PorLer(u)
                       /\ AvisosPara(u)' = AvisosPara(u) \ {e}
                       /\ e \in AvisosPara(u) <=> u = d
  BY <1>1, <1>2, <1>3, LivreEhEnvio DEF AvisosPara, PorLer
<1>5. TypeOKChatInterno'
  <2>1. \A u \in Lados : IsFiniteSet(AvisosPara(u)') BY <1>0, <1>4, FS_RemoveElement
  <2>2. badge' \in [Lados -> Nat] BY <1>0, <1>1, <1>2
  <2> QED BY <1>1, <1>3, <2>1, <2>2, LivreEhEnvio DEF TypeOKChatInterno, IndChatInterno
<1>6. Abertura'
  <2>1. Livre.hora = 0 BY DEF Livre
  <2> QED BY <1>0, <1>1, <1>3, <2>1, LivreEhEnvio DEF IndChatInterno, Abertura
<1>7. ConversaInteira' BY <1>1 DEF IndChatInterno, ConversaInteira
<1>8. Contagem'
  <2> SUFFICES ASSUME NEW u \in Lados \ cruzou
               PROVE  IF leitura[u] THEN PorLer(u)' = {} /\ AvisosPara(u)' = {}
                      ELSE badge'[u] + Cardinality(AvisosPara(u)') = Cardinality(PorLer(u)')
    BY <1>1 DEF Contagem
  <2>1. IF leitura[u] THEN PorLer(u) = {} /\ AvisosPara(u) = {}
        ELSE badge[u] + Cardinality(AvisosPara(u)) = Cardinality(PorLer(u))
    BY DEF IndChatInterno, Contagem
  <2>2. Cardinality(AvisosPara(u)') = IF u = d THEN Cardinality(AvisosPara(u)) - 1 ELSE Cardinality(AvisosPara(u))
    BY <1>0, <1>4, FS_RemoveElement
  <2>3. badge'[u] = IF u = d THEN badge[u] + 1 ELSE badge[u] BY <1>0, <1>1
  <2>4. badge[u] \in Nat /\ Cardinality(AvisosPara(u)) \in Nat BY <1>0, FS_CardinalityType
  <2>5. leitura[u] => AvisosPara(u)' = {} BY <1>4, <2>1
  <2> QED BY <1>4, <2>1, <2>2, <2>3, <2>4, <2>5
<1> QED BY <1>5, <1>6, <1>7, <1>8 DEF IndChatInterno

LEMMA IndutivoLeitura ==
    ASSUME IndChatInterno, NEW u \in Lados, MarcaLidas(u) \/ AvisaLeitura(u) \/ RecarregaBadge(u)
    PROVE  IndChatInterno'
<1>0. /\ leitura \in [Lados -> BOOLEAN] /\ badge \in [Lados -> Nat]
      /\ UNCHANGED <<aberta, envio, last_message_at, relogio, perdidas>>
      /\ \A o \in Lados : AvisosPara(o)' = AvisosPara(o)
      /\ mensagens \in Seq(MensagemInterna) /\ Len(mensagens) \in Nat /\ DOMAIN mensagens = 1 .. Len(mensagens)
  BY LenProperties DEF IndChatInterno, TypeOKChatInterno, MarcaLidas, AvisaLeitura, RecarregaBadge, AvisosPara
<1>1. Abertura' BY <1>0 DEF IndChatInterno, Abertura
<1>2. ASSUME mensagens' \in Seq(MensagemInterna), Len(mensagens') = Len(mensagens),
             \A i \in 1 .. Len(mensagens) : mensagens'[i].hora = mensagens[i].hora,
             leitura' \in [Lados -> BOOLEAN], badge' \in [Lados -> Nat], cruzou' \subseteq Lados, Contagem'
      PROVE  IndChatInterno'
  <2>1. TypeOKChatInterno' BY <1>0, <1>2 DEF IndChatInterno, TypeOKChatInterno
  <2>2. (mensagens' = <<>>) <=> (mensagens = <<>>)
    BY <1>0, <1>2, EmptySeq
  <2>3. mensagens # <<>> => Len(mensagens) \in 1 .. Len(mensagens) BY <1>0, EmptySeq
  <2>4. ConversaInteira' BY <1>0, <1>2, <2>2, <2>3 DEF IndChatInterno, ConversaInteira
  <2> QED BY <1>1, <1>2, <2>1, <2>4 DEF IndChatInterno
<1>3. CASE MarcaLidas(u)
  <2> DEFINE m == [i \in DOMAIN mensagens |->
                      IF i \in PorLer(u) THEN [mensagens[i] EXCEPT !.lida = TRUE] ELSE mensagens[i]]
  <2>1. /\ mensagens' = m /\ leitura' = [leitura EXCEPT ![u] = TRUE]
        /\ cruzou' = (IF AvisosPara(u) # {} THEN cruzou \cup {u} ELSE cruzou) /\ badge' = badge
    BY <1>3 DEF MarcaLidas
  <2>2. \A i \in 1 .. Len(mensagens) : mensagens[i] \in MensagemInterna BY <1>0, ElementOfSeq
  <2>3. /\ m \in [1 .. Len(mensagens) -> MensagemInterna]
        /\ \A i \in 1 .. Len(mensagens) : m[i].hora = mensagens[i].hora /\ m[i].de = mensagens[i].de
                                          /\ m[i].lida = (i \in PorLer(u) \/ mensagens[i].lida)
    BY <1>0, <2>2 DEF MensagemInterna
  <2> HIDE DEF m
  <2>4. m \in Seq(MensagemInterna) /\ Len(m) = Len(mensagens) /\ DOMAIN m = 1 .. Len(mensagens)
    <3>1. m \in Seq(MensagemInterna) BY <1>0, <2>3
    <3>2. DOMAIN m = 1 .. Len(mensagens) /\ DOMAIN m = 1 .. Len(m) /\ Len(m) \in Nat
      BY <2>3, <3>1, LenProperties
    <3>3. Len(m) = Len(mensagens) BY <1>0, <3>2
    <3> QED BY <3>1, <3>2, <3>3
  <2>5. PorLer(u)' = {}
    BY <1>0, <2>1, <2>3, <2>4 DEF PorLer
  <2>6. \A o \in Lados : o # u => PorLer(o)' = PorLer(o)
    <3> SUFFICES ASSUME NEW o \in Lados, o # u PROVE PorLer(o)' = PorLer(o) OBVIOUS
    <3>1. \A i \in 1 .. Len(mensagens) : mensagens[i].de # o /\ ~mensagens[i].lida
                                            <=> mensagens'[i].de # o /\ ~mensagens'[i].lida
      <4> SUFFICES ASSUME NEW i \in 1 .. Len(mensagens), mensagens[i].de # o, i \in PorLer(u) PROVE FALSE
        BY <2>1, <2>3
      <4>1. mensagens[i].de \in Lados /\ mensagens[i].de # u BY <2>2 DEF PorLer, MensagemInterna
      <4> QED BY <4>1, OsDoisLados
    <3> QED BY <1>0, <2>1, <2>4, <3>1 DEF PorLer
  <2>7. Contagem'
    <3> SUFFICES ASSUME NEW o \in Lados \ cruzou'
                 PROVE  IF leitura'[o] THEN PorLer(o)' = {} /\ AvisosPara(o)' = {}
                        ELSE badge'[o] + Cardinality(AvisosPara(o)') = Cardinality(PorLer(o)')
      BY DEF Contagem
    <3>1. CASE o = u BY <1>0, <2>1, <2>5, <3>1
    <3>2. CASE o # u
      <4>1. o \notin cruzou /\ leitura'[o] = leitura[o] BY <1>0, <2>1, <3>2
      <4> QED BY <1>0, <2>1, <2>6, <3>2, <4>1 DEF IndChatInterno, Contagem
    <3> QED BY <3>1, <3>2
  <2>8. cruzou' \subseteq Lados BY <2>1 DEF IndChatInterno, TypeOKChatInterno
  <2> QED BY <1>0, <1>2, <2>1, <2>3, <2>4, <2>7, <2>8
<1>4. CASE AvisaLeitura(u)
  <2>1. leitura[u] /\ leitura' = [leitura EXCEPT ![u] = FALSE] /\ badge' = [badge EXCEPT ![u] = 0]
        /\ UNCHANGED <<mensagens, cruzou>>
    BY <1>4 DEF AvisaLeitura
  <2>2. \A o \in Lados : PorLer(o)' = PorLer(o) BY <2>1 DEF PorLer
  <2>3. Contagem'
    <3> SUFFICES ASSUME NEW o \in Lados \ cruzou
                 PROVE  IF leitura'[o] THEN PorLer(o) = {} /\ AvisosPara(o) = {}
                        ELSE badge'[o] + Cardinality(AvisosPara(o)) = Cardinality(PorLer(o))
      BY <1>0, <2>1, <2>2 DEF Contagem
    <3>1. CASE o = u
      <4>1. PorLer(o) = {} /\ AvisosPara(o) = {} BY <2>1, <3>1 DEF IndChatInterno, Contagem
      <4>2. ~leitura'[o] /\ badge'[o] = 0 BY <1>0, <2>1, <3>1
      <4> QED BY <4>1, <4>2, FS_EmptySet
    <3>2. CASE o # u BY <1>0, <2>1, <3>2 DEF IndChatInterno, Contagem
    <3> QED BY <3>1, <3>2
  <2> QED BY <1>0, <1>2, <2>1, <2>3 DEF IndChatInterno, TypeOKChatInterno
<1>5. CASE RecarregaBadge(u)
  <2>1. /\ badge' = [badge EXCEPT ![u] = Cardinality(PorLer(u))]
        /\ cruzou' = (IF AvisosPara(u) # {} THEN cruzou \cup {u}
                      ELSE IF leitura[u] THEN cruzou ELSE cruzou \ {u})
        /\ UNCHANGED <<mensagens, leitura>>
    BY <1>5 DEF RecarregaBadge
  <2>2. \A o \in Lados : PorLer(o)' = PorLer(o) BY <2>1 DEF PorLer
  <2>3. Cardinality(PorLer(u)) \in Nat BY PorLerFinito DEF IndChatInterno
  <2>4. Contagem'
    <3> SUFFICES ASSUME NEW o \in Lados \ cruzou'
                 PROVE  IF leitura[o] THEN PorLer(o) = {} /\ AvisosPara(o) = {}
                        ELSE badge'[o] + Cardinality(AvisosPara(o)) = Cardinality(PorLer(o))
      BY <1>0, <2>1, <2>2 DEF Contagem
    <3>1. CASE o = u /\ leitura[u]
      <4>1. o \notin cruzou BY <2>1, <3>1
      <4> QED BY <3>1, <4>1 DEF IndChatInterno, Contagem
    <3>2. CASE o = u /\ ~leitura[u]
      <4>1. AvisosPara(u) = {} BY <2>1, <3>2
      <4>2. badge'[u] = Cardinality(PorLer(u)) BY <1>0, <2>1
      <4> QED BY <2>3, <3>2, <4>1, <4>2, FS_EmptySet
    <3>3. CASE o # u
      <4>1. o \notin cruzou /\ badge'[o] = badge[o] BY <1>0, <2>1, <3>3
      <4> QED BY <4>1 DEF IndChatInterno, Contagem
    <3> QED BY <3>1, <3>2, <3>3
  <2>5. badge' \in [Lados -> Nat] /\ cruzou' \subseteq Lados
    BY <1>0, <2>1, <2>3 DEF IndChatInterno, TypeOKChatInterno
  <2> QED BY <1>0, <1>2, <2>1, <2>4, <2>5
<1> QED BY <1>3, <1>4, <1>5

LEMMA IndutivoDoChatInterno == SpecChatInterno => []IndChatInterno
<1>1. IndChatInterno /\ [NextChatInterno]_varsChatInterno => IndChatInterno'
  <2>1. CASE UNCHANGED varsChatInterno
    BY <2>1 DEF varsChatInterno, IndChatInterno, TypeOKChatInterno, Abertura, ConversaInteira, Contagem, PorLer, AvisosPara
  <2> QED BY <2>1, IndutivoComecaEnvio, IndutivoPassos, IndutivoConfirmaEnvio, IndutivoAvisaMensagem, IndutivoLeitura
          DEF NextChatInterno
<1> QED BY <1>1, InicioDoChatInterno, PTL DEF SpecChatInterno

(****************************************************************************)
(* Conversation, messages, requests and counts are well formed, for any     *)
(* requests under way and any bounds, and the notices on their way to a     *)
(* reader are finitely many.                                                *)
(****************************************************************************)
THEOREM TipoDoChatInterno == SpecChatInterno => []TypeOKChatInterno
<1>1. IndChatInterno => TypeOKChatInterno BY DEF IndChatInterno
<1> QED BY <1>1, IndutivoDoChatInterno, PTL

(****************************************************************************)
(* The requests of internal-chats.service, however they interleave: the     *)
(* conversation is never without a message, shows the instant of the last   *)
(* one committed and loses only a first message that crossed the other's;   *)
(* and a reader's count is that of its unread messages once no notice is on *)
(* its way, unless a message and a reading crossed.                         *)
(****************************************************************************)
THEOREM ConversaSempreConfere == SpecChatInterno => []ConversaConfere
<1>1. IndChatInterno => ConversaConfere
  <2> SUFFICES ASSUME IndChatInterno, NEW u \in Lados \ cruzou, ~leitura[u], AvisosPara(u) = {}
               PROVE  badge[u] = Cardinality(PorLer(u))
    BY DEF IndChatInterno, ConversaConfere, ContadorConfere
  <2>1. badge[u] + Cardinality(AvisosPara(u)) = Cardinality(PorLer(u)) /\ badge[u] \in Nat
    BY DEF IndChatInterno, Contagem, TypeOKChatInterno
  <2> QED BY <2>1, FS_EmptySet
<1> QED BY <1>1, IndutivoDoChatInterno, PTL

================================================================================
