------------------------------- MODULE Midias -------------------------------
(***************************************************************************)
(* The files in the bucket, and who deletes them: the registration of an   *)
(* attachment (quick-replies.service; the greeting and the farewell of a   *)
(* channel in channels.service have the same life), the copies of it that  *)
(* messages are sent with, and the nightly retention that deletes the      *)
(* media of old messages by their key (media-retention.service, and        *)
(* internal-chat-retention.service, its twin on another table).            *)
(*                                                                         *)
(* A key is a number, given once; 0 is none.  A message is named by the    *)
(* order of its creation, which is the order the retention takes them in.  *)
(***************************************************************************)
EXTENDS Naturals, Sequences, FiniteSetsExt

CONSTANTS Formularios,    \* forms open on the registration at once
          MaxChave,       \* bound: objects ever put in the bucket
          MaxFormulario,  \* bound: forms opened
          MaxEnvio,       \* bound: messages sent with media
          TamanhoLote,    \* TAMANHO_LOTE
          MaxFalha        \* bound: failures of the database and of the process

VARIABLES objetos,        \* keys the bucket has
          cadastro,       \* the registered row: [chave, removido]
          formulario,     \* what each form shows and its request is doing
          mensagens,      \* id -> [chave, expirada, velha]
          rodada,         \* the retention: [pc, lote, cheio]
          teimosas,       \* messages whose object the storage refuses to delete
          chaves, abertos, falhas,
          estrago         \* (history) why the row may name a file that is gone

varsMidias == <<objetos, cadastro, formulario, mensagens, rodada, teimosas, chaves, abertos, falhas, estrago>>

ASSUME MidiasAssumption == {MaxChave, MaxFormulario, MaxEnvio, MaxFalha} \subseteq Nat /\ TamanhoLote \in Nat \ {0}

Fechado == [pc |-> "fechado", mostra |-> 0, lido |-> 0, manda |-> 0]
SemRodada == [pc |-> "fora", lote |-> {}, cheio |-> FALSE]
Enviadas == DOMAIN mensagens

\* A registration with its file, and nothing sent.
InitMidias ==
    /\ objetos = {1} /\ chaves = 1
    /\ cadastro = [chave |-> 1, removido |-> FALSE]
    /\ formulario = [f \in Formularios |-> Fechado]
    /\ mensagens = <<>>
    /\ rodada = SemRodada
    /\ teimosas \in SUBSET (1..MaxEnvio)
    /\ abertos = 0 /\ falhas = 0
    /\ estrago = {}

(***************************************************************************)
(* The registration                                                        *)
(***************************************************************************)
\* Somebody opens the form, which shows the row.
AbreFormulario(f) ==
    /\ formulario[f] = Fechado /\ ~cadastro.removido
    /\ abertos < MaxFormulario
    /\ abertos' = abertos + 1
    /\ formulario' = [formulario EXCEPT ![f] = [Fechado EXCEPT !.pc = "aberto", !.mostra = cadastro.chave]]
    /\ UNCHANGED <<objetos, cadastro, mensagens, rodada, teimosas, chaves, falhas, estrago>>

\* update finds the row.  The form sends back the key it shows, none, or that of a file
\* it has just uploaded.  (A form that leaves the key out changes nothing here.)
PedeEdicao(f, sobe, tira) ==
    /\ formulario[f].pc = "aberto" /\ ~cadastro.removido
    /\ sobe => ~tira /\ chaves < MaxChave
    /\ chaves' = IF sobe THEN chaves + 1 ELSE chaves
    /\ objetos' = IF sobe THEN objetos \cup {chaves + 1} ELSE objetos
    /\ formulario' = [formulario EXCEPT ![f].pc = "leu", ![f].lido = cadastro.chave,
            ![f].manda = CASE sobe -> chaves + 1 [] tira -> 0 [] OTHER -> formulario[f].mostra]
    /\ UNCHANGED <<cadastro, mensagens, rodada, teimosas, abertos, falhas, estrago>>

\* trocouAnexo
TrocouAnexo(q) == q.manda # q.lido /\ q.lido # 0

\* removeAnexo: the old file goes before the transaction; a failure is only logged.
ApagaAntigo(f) ==
    /\ formulario[f].pc = "leu"
    /\ objetos' \in IF TrocouAnexo(formulario[f]) THEN {objetos \ {formulario[f].lido}, objetos}
                    ELSE {objetos}
    /\ formulario' = [formulario EXCEPT ![f].pc = "grava"]
    /\ UNCHANGED <<cadastro, mensagens, rodada, teimosas, chaves, abertos, falhas, estrago>>

\* The transaction writes the key the form sent, whatever the row has become.
GravaCadastro(f) ==
    LET q == formulario[f]
    IN /\ q.pc = "grava"
       /\ cadastro' = [cadastro EXCEPT !.chave = q.manda]
       /\ estrago' = IF q.manda = q.mostra /\ (q.mostra # q.lido \/ cadastro.chave # q.lido)
                     THEN estrago \cup {"formulario velho"} ELSE estrago
       /\ formulario' = [formulario EXCEPT ![f] = Fechado]
       /\ UNCHANGED <<objetos, mensagens, rodada, teimosas, chaves, abertos, falhas>>

\* The transaction is refused or fails: the row keeps the key it had.
FalhaCadastro(f) ==
    /\ formulario[f].pc = "grava" /\ falhas < MaxFalha
    /\ falhas' = falhas + 1
    /\ estrago' = IF TrocouAnexo(formulario[f]) THEN estrago \cup {"apagou antes"} ELSE estrago
    /\ formulario' = [formulario EXCEPT ![f] = Fechado]
    /\ UNCHANGED <<objetos, cadastro, mensagens, rodada, teimosas, chaves, abertos>>

\* remove: the row is marked and then its file deleted.
RemoveCadastro(f) ==
    /\ formulario[f].pc = "aberto" /\ ~cadastro.removido
    /\ cadastro' = [cadastro EXCEPT !.removido = TRUE]
    /\ formulario' = [formulario EXCEPT ![f].pc = "removeu", ![f].lido = cadastro.chave]
    /\ UNCHANGED <<objetos, mensagens, rodada, teimosas, chaves, abertos, falhas, estrago>>

ApagaDoRemovido(f) ==
    /\ formulario[f].pc = "removeu"
    /\ objetos' \in {objetos \ {formulario[f].lido}, objetos}
    /\ formulario' = [formulario EXCEPT ![f] = Fechado]
    /\ UNCHANGED <<cadastro, mensagens, rodada, teimosas, chaves, abertos, falhas, estrago>>

(***************************************************************************)
(* Messages                                                                *)
(***************************************************************************)
\* (mutant) The message is sent with the registered file itself.
SemCopiar(chave, nova) == chave

\* copiaAnexoParaEnvio: the key a message gets for an attachment.
ChaveDoEnvio(chave, nova) == nova

\* A message with the registered attachment; one whose file is gone is refused.
EnviaAnexo ==
    /\ Cardinality(Enviadas) < MaxEnvio /\ chaves < MaxChave
    /\ ~cadastro.removido /\ cadastro.chave \in objetos
    /\ chaves' = chaves + 1
    /\ objetos' = objetos \cup {chaves + 1}
    /\ mensagens' = Append(mensagens, [chave |-> ChaveDoEnvio(cadastro.chave, chaves + 1),
                                       expirada |-> FALSE, velha |-> FALSE])
    /\ UNCHANGED <<cadastro, formulario, rodada, teimosas, abertos, falhas, estrago>>

\* The months of the retention go by for a message.
Envelhece(m) ==
    /\ ~mensagens[m].velha
    /\ \A k \in 1..(m - 1) : mensagens[k].velha
    /\ mensagens' = [mensagens EXCEPT ![m].velha = TRUE]
    /\ UNCHANGED <<objetos, cadastro, formulario, rodada, teimosas, chaves, abertos, falhas, estrago>>

(***************************************************************************)
(* The retention                                                           *)
(***************************************************************************)
Vencidas == {m \in Enviadas : mensagens[m].velha /\ ~mensagens[m].expirada /\ mensagens[m].chave # 0}
MaisAntigas(S) == {m \in S : Cardinality({k \in S : k < m}) < TamanhoLote}

\* The night begins.
IniciaRodada ==
    /\ rodada = SemRodada
    /\ rodada' = [SemRodada EXCEPT !.pc = "busca"]
    /\ UNCHANGED <<objetos, cadastro, formulario, mensagens, teimosas, chaves, abertos, falhas, estrago>>

\* A batch is read; an empty one ends the round.
BuscaLote ==
    LET lote == MaisAntigas(Vencidas)
    IN /\ rodada.pc = "busca"
       /\ rodada' = IF lote = {} THEN SemRodada
                    ELSE [pc |-> "apaga", lote |-> lote, cheio |-> Cardinality(lote) = TamanhoLote]
       /\ UNCHANGED <<objetos, cadastro, formulario, mensagens, teimosas, chaves, abertos, falhas, estrago>>

\* (mutant) An object that is not there any more counts as a failure.
AusenteEhFalha(m) == m \in teimosas \/ mensagens[m].chave \notin objetos

\* The storage refuses to delete; an object already gone is not an error.
Recusa(m) == m \in teimosas

\* deleteObject of the next of the batch: a refused one stays for another round.
ApagaMidia ==
    LET m == Min(rodada.lote)
    IN /\ rodada.pc = "apaga" /\ rodada.lote # {}
       /\ IF Recusa(m)
          THEN rodada' = [rodada EXCEPT !.lote = @ \ {m}] /\ UNCHANGED objetos
          ELSE rodada' = [rodada EXCEPT !.pc = "marca"] /\ objetos' = objetos \ {mensagens[m].chave}
       /\ UNCHANGED <<cadastro, formulario, mensagens, teimosas, chaves, abertos, falhas, estrago>>

\* The row is marked after the object is gone.
MarcaExpirada ==
    LET m == Min(rodada.lote)
    IN /\ rodada.pc = "marca"
       /\ mensagens' = [mensagens EXCEPT ![m].chave = 0, ![m].expirada = TRUE]
       /\ rodada' = [rodada EXCEPT !.pc = "apaga", !.lote = @ \ {m}]
       /\ UNCHANGED <<objetos, cadastro, formulario, teimosas, chaves, abertos, falhas, estrago>>

\* A batch that was not full was the last.
FimDoLote ==
    /\ rodada.pc = "apaga" /\ rodada.lote = {}
    /\ rodada' = IF rodada.cheio THEN [SemRodada EXCEPT !.pc = "busca"] ELSE SemRodada
    /\ UNCHANGED <<objetos, cadastro, formulario, mensagens, teimosas, chaves, abertos, falhas, estrago>>

\* The process ends, or the database fails under the retention.
QuedaDaRodada ==
    /\ rodada # SemRodada /\ falhas < MaxFalha
    /\ falhas' = falhas + 1
    /\ rodada' = SemRodada
    /\ UNCHANGED <<objetos, cadastro, formulario, mensagens, teimosas, chaves, abertos, estrago>>

AndaRodada == IniciaRodada \/ BuscaLote \/ ApagaMidia \/ MarcaExpirada \/ FimDoLote

NextCadastro ==
    \E f \in Formularios :
        \/ AbreFormulario(f)
        \/ \E sobe, tira \in BOOLEAN : PedeEdicao(f, sobe, tira)
        \/ ApagaAntigo(f) \/ GravaCadastro(f) \/ FalhaCadastro(f)
        \/ RemoveCadastro(f) \/ ApagaDoRemovido(f)

NextRetencao ==
    \/ EnviaAnexo
    \/ \E m \in Enviadas : Envelhece(m)
    \/ AndaRodada
    \/ QuedaDaRodada

NextMidias == NextCadastro \/ NextRetencao

\* The cron starts a round every night, and a round that runs goes on.
SpecMidias == InitMidias /\ [][NextMidias]_varsMidias /\ WF_varsMidias(AndaRodada)

-----------------------------------------------------------------------------
(***************************************************************************)
(* A registered attachment has its file: sending it and the retention of   *)
(* what was sent never take it away.  Only the editions do: while one has  *)
(* deleted the old file and not yet written, for good when its write then  *)
(* fails, and when a form sends back a key that another has replaced.      *)
(***************************************************************************)
AnexoSomeSoPorEdicao ==
    cadastro.removido \/ cadastro.chave \in objetos \cup {0} \/ estrago # {}
    \/ \E f \in Formularios : formulario[f].pc = "grava" /\ formulario[f].lido = cadastro.chave

(***************************************************************************)
(* The media of an old message expires, whatever round was cut short and   *)
(* wherever, if the storage deletes it and it refuses fewer than a batch:  *)
(* a batch of refusals is fetched for ever, and nothing behind it expires. *)
(***************************************************************************)
VencidaExpira ==
    \A m \in 1..MaxEnvio :
        (m \in Vencidas /\ m \notin teimosas /\ Cardinality(teimosas) < TamanhoLote)
            ~> (m \in Enviadas /\ mensagens[m].expirada)
=============================================================================
