------------------------------ MODULE Sessoes ------------------------------
(***************************************************************************)
(* A user's password and the sessions opened with it: sign-in and refresh  *)
(* (auth), the reset and the acceptance of an invitation by a link, and    *)
(* the edition and removal of the user, by requests that interleave        *)
(* between what they read and the transaction that writes it.              *)
(*                                                                         *)
(* A password is its version.  A refresh token is the second it was signed *)
(* in: its payload is the user and the type, so that two tokens one user   *)
(* gets in one second are the same text.                                   *)
(***************************************************************************)
EXTENDS Naturals, FiniteSets

CONSTANTS Pedidos,        \* requests that may be in flight at once
          MaxSenha,       \* bound: versions of the password
          MaxSessao,      \* bound: rows ever inserted in user_refresh_tokens
          MaxSegundo      \* bound: seconds of the clock

ASSUME SessoesAssumption ==
    MaxSenha \in Nat \ {0} /\ MaxSegundo \in Nat \ {0} /\ MaxSessao \in Nat

VARIABLES senha,          \* users.password, of the one user
          ativo,          \* users.status
          sessoes,        \* user_refresh_tokens: [id, token, prova, tarde]
          pedido,         \* what each request read, and where it stands
          serie,          \* the sequence of the ids of user_refresh_tokens
          segundo,        \* the clock that signs the tokens
          ultima,         \* how many passwords were ever set
          redefinida,     \* (history) the password the last reset set
          trocados,       \* (history) tokens a refresh replaced
          emitidos        \* (history) 0, 1 or more tokens signed in each second

varsSessoes == <<senha, ativo, sessoes, pedido, segundo, serie, ultima, redefinida,
                 trocados, emitidos>>

SemPedido == [pc |-> "livre"]

Ids(S) == {x.id : x \in S}

InitSessoes ==
    /\ senha = 1 /\ ultima = 1 /\ redefinida = 0
    /\ ativo = TRUE
    /\ sessoes = {} /\ trocados = {}
    /\ pedido = [r \in Pedidos |-> SemPedido]
    /\ segundo = 1 /\ serie = 0
    /\ emitidos = [t \in 1..MaxSegundo |-> 0]

IniciaPedido(r, estado) == pedido[r].pc = "livre" /\ pedido' = [pedido EXCEPT ![r] = estado]
FimDoPedido(r) == pedido' = [pedido EXCEPT ![r] = SemPedido]

-----------------------------------------------------------------------------
\* createToken: the refresh token of this second.
Assina == emitidos' = [emitidos EXCEPT ![segundo] = IF @ = 0 THEN 1 ELSE 2]

\* signin: the user is found active, the password matches and the token is signed.
ConfereSenha(r) ==
    /\ ativo
    /\ IniciaPedido(r, [pc |-> "signin", token |-> segundo, prova |-> senha,
                        viu |-> redefinida])
    /\ Assina
    /\ UNCHANGED <<senha, ativo, sessoes, segundo, serie, ultima, redefinida, trocados>>

\* (mutant) The reset takes no account of the sessions.
DeixaSessoes == sessoes

\* redefinir deletes every session of the user.
DerrubaSessoes == {}

\* The rows a write of row `id` leaves alone.
OutrasLinhas(id) == {s \in sessoes : s.id # id}

Grava(id, token, prova, tarde) ==
    sessoes' = OutrasLinhas(id) \cup {[id |-> id, token |-> token, prova |-> prova, tarde |-> tarde]}

\* signin: the commit of its row.
AbreSessao(r) ==
    /\ pedido[r].pc = "signin"
    /\ serie < MaxSessao
    /\ serie' = serie + 1
    /\ Grava(serie + 1, pedido[r].token, pedido[r].prova,
             pedido[r].prova < pedido[r].viu \/ pedido[r].viu # redefinida)
    /\ FimDoPedido(r)
    /\ UNCHANGED <<senha, ativo, segundo, ultima, redefinida, trocados, emitidos>>

\* refresh: the token is valid, its user active, and a row has it; the
\* new token is signed.
ConfereRefresh(r, s) ==
    /\ ativo
    /\ IniciaPedido(r, [pc |-> "refresh", token |-> segundo, s |-> s, viu |-> redefinida])
    /\ Assina
    /\ UNCHANGED <<senha, ativo, sessoes, segundo, serie, ultima, redefinida, trocados>>

\* saveRefreshToken: save looks the row up by its id to choose between UPDATE and INSERT.
EscolheComando(r) ==
    /\ pedido[r].pc = "refresh"
    /\ pedido' = [pedido EXCEPT ![r].pc = IF pedido[r].s.id \in Ids(sessoes) THEN "update" ELSE "insert"]
    /\ UNCHANGED <<senha, ativo, sessoes, segundo, serie, ultima, redefinida, trocados, emitidos>>

\* (mutant) The row found is not handed to saveRefreshToken: each refresh inserts.
LinhaDoRefreshNova(s) == s.id + 1

\* The row a refresh writes: the one it found.
LinhaDoRefresh(s) == s.id

\* The write of a refresh.  An UPDATE of a row deleted meanwhile changes nothing; an
\* INSERT whose id came back meanwhile is refused by the primary key.
GravaRefresh(r) ==
    LET s == pedido[r].s
        existe == s.id \in Ids(sessoes)
    IN /\ pedido[r].pc \in {"update", "insert"}
       /\ IF existe = (pedido[r].pc = "update")
          THEN /\ Grava(LinhaDoRefresh(s), pedido[r].token, s.prova, s.tarde \/ pedido[r].viu # redefinida)
               /\ trocados' = trocados \cup {s.token}
          ELSE UNCHANGED <<sessoes, trocados>>
       /\ FimDoPedido(r)
       /\ UNCHANGED <<senha, ativo, segundo, serie, ultima, redefinida, emitidos>>

\* The JWT expires and destroyExpiredRefresh deletes its row.
VenceSessao(s) ==
    /\ sessoes' = sessoes \ {s}
    /\ UNCHANGED <<senha, ativo, pedido, segundo, serie, ultima, redefinida, trocados, emitidos>>

-----------------------------------------------------------------------------
\* redefinir and aceitar read their link, outside the transaction (module Links).
ConfereLink(r, tipo) ==
    /\ IniciaPedido(r, [pc |-> tipo])
    /\ UNCHANGED <<senha, ativo, sessoes, segundo, serie, ultima, redefinida, trocados, emitidos>>

\* redefinir: the password and the sessions, in one commit.
Redefine(r) ==
    /\ pedido[r].pc = "redefine"
    /\ ultima < MaxSenha
    /\ senha' = ultima + 1 /\ ultima' = ultima + 1 /\ redefinida' = ultima + 1
    /\ sessoes' = DerrubaSessoes
    /\ FimDoPedido(r)
    /\ UNCHANGED <<ativo, segundo, serie, trocados, emitidos>>

\* aceitar writes name, password and link: the status is not among them.
StatusAoAceitar == ativo

\* aceitar: the password; sessions are left alone.
Aceita(r) ==
    /\ pedido[r].pc = "aceita"
    /\ ultima < MaxSenha
    /\ senha' = ultima + 1 /\ ultima' = ultima + 1
    /\ FimDoPedido(r)
    /\ ativo' = StatusAoAceitar
    /\ UNCHANGED <<sessoes, redefinida, segundo, serie, trocados, emitidos>>

-----------------------------------------------------------------------------
\* updateUser and deleteUser of the repository: findById, of an active user.
LeCadastro(r, pc) ==
    /\ ativo
    /\ IniciaPedido(r, [pc |-> pc, copia |-> senha])
    /\ UNCHANGED <<senha, ativo, sessoes, segundo, serie, ultima, redefinida, trocados, emitidos>>

\* save writes every column of the copy: the password it read unless the form brings
\* one, and the status of an active user.
EditaUsuario(r, trazSenha) ==
    /\ pedido[r].pc = "edita"
    /\ trazSenha => ultima < MaxSenha
    /\ ultima' = IF trazSenha THEN ultima + 1 ELSE ultima
    /\ senha' = IF trazSenha THEN ultima + 1 ELSE pedido[r].copia
    /\ ativo' = TRUE
    /\ FimDoPedido(r)
    /\ UNCHANGED <<sessoes, segundo, serie, redefinida, trocados, emitidos>>

RemoveUsuario(r) ==
    /\ pedido[r].pc = "remove"
    /\ senha' = pedido[r].copia
    /\ ativo' = FALSE
    /\ FimDoPedido(r)
    /\ UNCHANGED <<sessoes, segundo, serie, ultima, redefinida, trocados, emitidos>>

PassaSegundo ==
    /\ segundo < MaxSegundo
    /\ segundo' = segundo + 1
    /\ UNCHANGED <<senha, ativo, sessoes, pedido, serie, ultima, redefinida, trocados, emitidos>>

\* A restart loses the requests in flight: each transaction commits or not as a whole.
QuedaDaApi ==
    /\ \E r \in Pedidos : pedido[r] # SemPedido
    /\ pedido' = [r \in Pedidos |-> SemPedido]
    /\ UNCHANGED <<senha, ativo, sessoes, segundo, serie, ultima, redefinida, trocados, emitidos>>

NextSessoes ==
    \/ \E r \in Pedidos :
          \/ ConfereSenha(r) \/ AbreSessao(r)
          \/ \E s \in sessoes : ConfereRefresh(r, s)
          \/ EscolheComando(r) \/ GravaRefresh(r)
          \/ \E tipo \in {"redefine", "aceita"} : ConfereLink(r, tipo)
          \/ Redefine(r) \/ Aceita(r)
          \/ \E pc \in {"edita", "remove"} : LeCadastro(r, pc)
          \/ \E b \in BOOLEAN : EditaUsuario(r, b)
          \/ RemoveUsuario(r)
    \/ \E s \in sessoes : VenceSessao(s)
    \/ PassaSegundo
    \/ QuedaDaApi

SpecSessoes == InitSessoes /\ [][NextSessoes]_varsSessoes

-----------------------------------------------------------------------------
Sessao == [id : 1..MaxSessao, token : 1..MaxSegundo, prova : 1..MaxSenha, tarde : BOOLEAN]

Pedido == {SemPedido}
    \cup [pc : {"signin"}, token : 1..MaxSegundo, prova : 1..MaxSenha, viu : 0..MaxSenha]
    \cup [pc : {"refresh", "update", "insert"}, token : 1..MaxSegundo, s : Sessao, viu : 0..MaxSenha]
    \cup [pc : {"redefine", "aceita"}]
    \cup [pc : {"edita", "remove"}, copia : 1..MaxSenha]

\* The typing of the state; a copy is of a password that was set, the ids are keys.
TypeOKSessoes ==
    /\ ultima \in 1..MaxSenha /\ senha \in 1..ultima /\ redefinida \in 0..ultima
    /\ ativo \in BOOLEAN /\ segundo \in 1..MaxSegundo /\ serie \in 0..MaxSessao
    /\ emitidos \in [1..MaxSegundo -> 0..2] /\ trocados \subseteq 1..MaxSegundo
    /\ pedido \in [Pedidos -> Pedido] /\ sessoes \subseteq Sessao
    /\ \A r \in Pedidos : pedido[r].pc \in {"edita", "remove"} => pedido[r].copia <= ultima
    /\ \A s, z \in sessoes : s.id = z.id => s = z

(***************************************************************************)
(* A session opened with a password older than the last reset exists only  *)
(* because a sign-in or a refresh was in flight across the reset, or an    *)
(* edition had brought the old password back, or it renews such a session: *)
(* the reset reaches all the others (redefinir).                           *)
(***************************************************************************)
SessaoVelhaSoPorCorrida == \A s \in sessoes : s.prova < redefinida => s.tarde

(***************************************************************************)
(* A token that a refresh replaced is accepted again only if its second    *)
(* signed another token with the same text (createToken, saveRefreshToken).*)
(***************************************************************************)
TrocadoSoServeDuplicado ==
    \A s \in sessoes : s.token \in trocados => emitidos[s.token] > 1

\* A password that was replaced comes back, or a removed user becomes active.
Recuou == senha' < senha \/ (~ativo /\ ativo')

(***************************************************************************)
(* Only an edition or removal that read the user before takes it back:     *)
(* resets and invitations never undo what happened since they were checked *)
(* (updateUser and deleteUser save the whole copy of the row).             *)
(***************************************************************************)
SoACopiaRecua ==
    [][ Recuou => \E r \in Pedidos : pedido[r].pc \in {"edita", "remove"} /\ pedido'[r] = SemPedido ]_varsSessoes
=============================================================================
